----------------------------- MODULE MCEmulator -----------------------------
(* Instance of Emulator for TLC: captures with two frames at one time, of  *)
(* another bus, sent and not received, going back in time, and some that   *)
(* do not parse; schedules that fit the event budget exactly, that exceed  *)
(* it and that are not valid; browsers that pause, change the rate,        *)
(* restart, repeat a key, ping, and end the session.                       *)
EXTENDS Emulator

Row(time, bus, dir) ==
  [complete |-> TRUE, time |-> time, id |-> 1, ext |-> 0, dir |-> dir, bus |-> bus,
   dlc |-> 1, payload |-> <<7>>]

First == Row(3, 0, "Rx")
Later == [Row(4, 0, "Rx") EXCEPT !.payload = <<7, Empty>>]
Sent == Row(4, 0, "Tx")
OtherBus == Row(2, 1, "Rx")

MCCaptures ==
  [header : {"V2"}, rows : {<<First, Later, Later>>, <<First, Sent, OtherBus>>, <<Later, First>>, <<>>}]
    \cup [header : {"V1"}, rows : {<<Later, OtherBus>>}]
    \cup [header : {"V2"}, rows : {<<[First EXCEPT !.payload = <<>>]>>, <<[First EXCEPT !.id = 3]>>,
                                   <<[First EXCEPT !.dir = "?"]>>, <<[First EXCEPT !.payload = <<7, Bad>>]>>}]
    \cup {[header |-> "other", rows |-> <<>>]}

Schedule(end, poll, sample) == [end |-> end, avail |-> 1, poll |-> poll, tick |-> 1, sample |-> sample]
MCSchedules == {Schedule(1, 2, 1), Schedule(0, 2, None), Schedule(2, 2, 1), Schedule(1, 0, None)}

MCFaults == [render |-> FaultKinds, web |-> {"load", "write"}]

Request(target, upgrade, local) ==
  [wellFormed |-> TRUE, method |-> "GET", target |-> target, upgrade |-> upgrade, local |-> local]
MCRequests == {Request("/ws", TRUE, TRUE), Request("/ws", TRUE, FALSE), Request("asset", FALSE, TRUE)}

Entry(key, value) == [key |-> key, value |-> value]
Control(command) == <<Entry("type", "control"), Entry("command", command)>>
Frame(op, text) ==
  [op |-> op, final |-> TRUE, reserved |-> FALSE, masked |-> TRUE, size |-> 1, utf8 |-> TRUE,
   status |-> 1000, text |-> text]

Play == Frame(1, Control("play"))
Pause == Frame(1, Control("pause"))
Restart == Frame(1, Control("restart"))
Rate(rate) == Frame(1, Control("rate") \o <<Entry("rate", rate)>>)
Twice == Frame(1, Control("pause") \o <<Entry("type", "control")>>)
Ping == Frame(9, <<>>)
Pong == Frame(10, <<>>)
Binary == Frame(2, <<>>)
Close == [Frame(8, <<>>) EXCEPT !.size = 0]

MCScripts ==
  {<<Pause, Rate("half"), Play>>, <<Pause, Restart>>, <<Rate("double"), Ping>>, <<Twice>>,
   <<Pong>>, <<Binary>>, <<Close>>}
=============================================================================
