------------------------------ MODULE Companion ------------------------------
(***************************************************************************)
(* The companion link (components/companion_ble): pairing and its store    *)
(* guard, protected access, the page selectors and the two live streams,   *)
(* all run by the one NimBLE host task, with NimBLE, its bond store and a  *)
(* central as the environment.                                             *)
(*                                                                         *)
(*   s       SecurityState with its timers (a due time, or Never)          *)
(*   nim     NimBLE: synced, advertising, the connected central, the       *)
(*           security manager's phase, and the subscriptions of the link   *)
(*   store   the bond store: the centrals with our and with their security *)
(*           record, subscriptions kept with a bond, and peer device       *)
(*           records that no bond stands behind                            *)
(*   served  the registered attributes (empty until bring-up succeeds)     *)
(*   disc, sel   the discovery connection and the two page selectors       *)
(*   live, ext, sink, due   the two streams, their central and timers      *)
(*   read    the provider's current readings                               *)
(*   budget  what the environment may still do (a bound of the model)      *)
(*   seen    what an observer remembers: the last key press, when the link *)
(*           was last trusted and whether its trust has ended, the last    *)
(*           frame of each stream, the packets each due record has waited, *)
(*           and the page the central chose                                *)
(***************************************************************************)
EXTENDS LinkPolicy, LiveStreams

NoCentral == Never

CONSTANTS
  Centrals,        \* the centrals in range, by identity
  RpaCentrals,     \* those that connect from a resolvable address
  MaxBonds,        \* BLE_STORE_MAX_BONDS
  MaxLate,         \* ticks by which the host task may run a timer late
  Mtus,            \* ATT MTUs a central may agree
  Readings,        \* readings the provider may hold, per signal
  Pages,           \* page offsets a central asks for
  Budgets          \* the environments to explore

(* What the environment may do: the bonds from before with their           *)
(* subscriptions, the ports and storage the device has, and how often each *)
(* event may happen until when.                                            *)
BudgetType ==
  [bonds : SUBSET Centrals, subs : SUBSET {"live", "ext"}, config : BOOLEAN, storage : BOOLEAN,
   centrals : SUBSET Centrals, streams : SUBSET {"live", "ext"}, discoveryFirst : BOOLEAN,
   advFails : BOOLEAN, links : Nat, resets : Nat, pairs : Nat, presses : Nat, clears : Nat,
   toggles : Nat, selects : Nat, changes : Nat, time : Nat]

ASSUME OneNothing == Empty = Never
ASSUME CompanionAssumption ==
  /\ NoCentral \notin Centrals /\ MaxBonds \in Nat \ {0} /\ MaxLate \in Nat
  /\ Pages \subseteq Nat
  /\ \A b \in Budgets : /\ b \in BudgetType
                        /\ IsFiniteSet(b.bonds) /\ Cardinality(b.bonds) <= MaxBonds

VARIABLES now, s, nim, store, served, disc, sel, live, ext, sink, due, read, budget, seen
vars == <<now, s, nim, store, served, disc, sel, live, ext, sink, due, read, budget, seen>>
policy == <<s, store>>
streams == <<disc, sel, live, ext, sink, due>>

Streams == {"live", "ext"}
Selectors == {"signal", "output"}
Stored(st, c) == c \in st.peer

Spend(field) == budget[field] > 0 /\ budget' = [budget EXCEPT ![field] = @ - 1]

Init ==
  /\ now = 0
  /\ budget \in Budgets
  /\ s = [closes |-> Never, lvl |-> "reject", slot |-> "none", orig |-> FALSE,
          key |-> KeyAtBoot, conn |-> NoCentral, link |-> NoLink, dropConn |-> NoCentral,
          refused |-> NoCentral, tWindow |-> Never, tDrop |-> Never, tDisc |-> Never]
  /\ nim = [synced |-> FALSE, adv |-> FALSE, peer |-> NoCentral, enc |-> FALSE,
            phase |-> "idle", left |-> <<>>, fullKey |-> FALSE, term |-> FALSE, sub |-> {}]
  /\ store = [our |-> budget.bonds, peer |-> budget.bonds,
              subs |-> [c \in Centrals |-> IF c \in budget.bonds THEN budget.subs ELSE {}],
              orphans |-> {}]
  /\ served = {}
  /\ disc = [conn |-> NoCentral, next |-> 0]
  /\ sel = [k \in Selectors |-> NoSelector]
  /\ live = NewLive /\ ext = NewExt /\ sink = NoCentral
  /\ due = [k \in Streams |-> Never]
  /\ read = [started |-> FALSE,
             of |-> [id \in {Catalog[i].id : i \in DOMAIN Catalog} |-> Readings[1]]]
  /\ seen = [press |-> Never, used |-> TRUE, linkAt |-> 0, trusted |-> 0,
             revoked |-> FALSE, page |-> 0,
             frame |-> [k \in Streams |-> Never], sent |-> [k \in Streams |-> 0],
             tooSoon |-> FALSE, waits |-> [h \in 1 .. SignalCount |-> 0]]

-----------------------------------------------------------------------------
(* The policy's helpers: each takes the SecurityState and gives the next.  *)
(* A timer is due at its deadline, also one that is armed when past it or  *)
(* armed again: the tick a new arming adds is below the model's clock.     *)
ensure_store_guard(x) ==
  [x EXCEPT !.slot = Ensured(x.slot, x.orig), !.orig = EnsuredOrig(x.slot, x.orig)]

apply_window_state(x) ==
  IF WindowOpen(x.closes, now) /\ EnsureHolds(x.slot, x.orig)
  THEN [ensure_store_guard(x) EXCEPT !.lvl = "accept", !.tWindow = x.closes]
  ELSE [x EXCEPT !.lvl = "reject", !.closes = Never, !.tWindow = Never]

Mrearm_drop_timer(x) ==
  [x EXCEPT !.tDrop = IF x.conn = NoCentral \/ x.link.accepted THEN Never
                      ELSE x.link.idleSince + IdleLimit]
rearm_drop_timer(x) ==
  [x EXCEPT !.tDrop = IF x.conn = NoCentral \/ DropDeadline(x.link) = Never THEN Never
                      ELSE DropDeadline(x.link)]

schedule_disconnect(x, c) ==
  IF c = NoCentral THEN x ELSE [x EXCEPT !.dropConn = c, !.tDisc = IF @ = Never THEN now ELSE @]

(* ble_store_util_delete_peer: the records of an identity.                 *)
DeletePeer(st, c) ==
  [st EXCEPT !.our = @ \ {c}, !.peer = @ \ {c}, !.subs = [@ EXCEPT ![c] = {}]]
delete_refused_peer_records(x, st) ==
  [st EXCEPT !.orphans = IF x.refused = NoCentral THEN @ ELSE @ \ {x.refused}]
RefusedForgotten(x) == [x EXCEPT !.refused = NoCentral]

link_has_accepted_bond(x, c) == c # NoCentral /\ c = x.conn /\ x.link.accepted

(* The host task is between events: storing the keys of a pairing and the  *)
(* events that follow an encryption change are parts of one.               *)
HostFree == nim.phase \notin {"persist", "restoring"}

PolicyBecomes(r) == s' = r[1] /\ store' = r[2]

(* Every GAP event re-installs the guard and applies the window first.     *)
AtEvent == apply_window_state(ensure_store_guard(s))

handle_connect(x, st, c) ==
  LET y == [RefusedForgotten(x) EXCEPT !.conn = c, !.dropConn = NoCentral,
                                       !.link = LinkConnected(now)]
  IN <<rearm_drop_timer(y), delete_refused_peer_records(x, st)>>

handle_disconnect(x, st, c) ==
  LET y == RefusedForgotten(x)
  IN <<IF c # y.conn THEN y
       ELSE [y EXCEPT !.conn = NoCentral, !.dropConn = NoCentral,
                      !.tDrop = Never, !.tDisc = Never],
       delete_refused_peer_records(x, st)>>

handle_encryption_change(x, st, c, ok, bonded, fullKey) ==
  LET good == ok /\ bonded /\ fullKey /\ Stored(st, c)
      y == [x EXCEPT !.link = LinkEncrypted(x.link, good)]
      drop == schedule_disconnect(RefusedForgotten(y), c)
  IN IF c # x.conn THEN <<x, st>>
     ELSE CASE Verdict(x.link, good) = "NewBondAccepted" ->
                 <<rearm_drop_timer(apply_window_state([y EXCEPT !.closes = Never])), st>>
            [] Verdict(x.link, good) = "BondRestored" -> <<rearm_drop_timer(y), st>>
            [] Verdict(x.link, good) = "RejectedDeleteKeys" ->
                 <<drop, delete_refused_peer_records(x, DeletePeer(st, c))>>
            [] OTHER -> <<drop, delete_refused_peer_records(x, st)>>

Retries(x, c) == c = x.conn /\ WindowOpen(x.closes, now)
accepted_pairing_pdu(x) == rearm_drop_timer([x EXCEPT !.link.idleSince = now])
handle_repeat_pairing(x, st, c) ==
  IF Retries(x, c) THEN <<accepted_pairing_pdu(x), DeletePeer(st, c)>>
  ELSE <<schedule_disconnect(x, c), st>>

(* guarded_store_write and on_store_status, as NimBLE calls them for one   *)
(* record: written, refused, or the store is full.                         *)
Full(st, kind) == kind \in {"our", "peer"} /\ Cardinality(st[kind]) >= MaxBonds
Write(st, kind, c) == IF kind = "addr" THEN st ELSE [st EXCEPT ![kind] = @ \cup {c}]

Mguarded_store_write(x, st, kind, c) ==
  IF x.slot = "stock" \/ x.lvl = "accept"
  THEN <<IF x.slot = "stock" THEN x ELSE [x EXCEPT !.link.keys = TRUE], Write(st, kind, c)>>
  ELSE <<x, st>>
guarded_store_write(x, st, kind, c) ==
  CASE x.slot = "stock" -> <<x, Write(st, kind, c)>>
    [] x.slot # "stock" /\ ~x.orig -> <<x, st>>
    [] x.slot # "stock" /\ x.orig /\ ~WindowOpen(x.closes, now) ->
         IF kind = "addr" /\ c \in RpaCentrals
         THEN <<[x EXCEPT !.lvl = "reject", !.refused = c], [st EXCEPT !.orphans = @ \cup {c}]>>
         ELSE <<[x EXCEPT !.lvl = "reject"], st>>
    [] OTHER -> <<[x EXCEPT !.link.keys = TRUE], Write(st, kind, c)>>

(* The stock handler unpairs the oldest bond, which may be any (the order  *)
(* of earlier pairings is left open), and unpairing may put the stock      *)
(* write callback back.                                                    *)
on_store_status(x, st, reset, oldest) ==
  IF ~WindowOpen(x.closes, now) THEN <<x, st>>
  ELSE <<ensure_store_guard([x EXCEPT !.slot = IF reset THEN "stock" ELSE @]),
         DeletePeer(st, oldest)>>
StoreFull ==
  \E reset \in BOOLEAN, oldest \in store.peer :
    PolicyBecomes(on_store_status(s, store, reset, oldest))

-----------------------------------------------------------------------------
(* The GAP listeners, called before the policy.  kind is the event, arg    *)
(* its MTU or its stream and setting.                                      *)
DiscoveryAfter(kind, c) ==
  CASE kind = "connect" /\ disc.conn = NoCentral -> [conn |-> c, next |-> disc.next + 1]
    [] kind = "disconnect" /\ disc.conn = c -> [disc EXCEPT !.conn = NoCentral]
    [] OTHER -> disc
SelectorsAfter(kind, c) ==
  CASE kind = "connect" /\ disc.conn = NoCentral ->
         [k \in Selectors |-> SelectorConnected(sel[k], c, disc.next + 1)]
    [] kind = "disconnect" /\ disc.conn = c ->
         [k \in Selectors |-> SelectorDisconnected(sel[k], c)]
    [] OTHER -> sel

SinkAfter(kind, c) ==
  CASE kind = "connect" /\ sink = NoCentral -> c
    [] kind = "disconnect" /\ sink = c -> NoCentral
    [] OTHER -> sink

(* apply_gap_event of a stream: a new link starts over, a closed one       *)
(* clears everything, an MTU or a subscription changes one condition.      *)
StreamUpdated(which, old, st) ==
  IF which = "live" THEN LiveUpdated(old, st) ELSE ExtUpdated(old, st)
StreamAfter(which, st, new, kind, c, arg) ==
  CASE kind = "connect" /\ sink = NoCentral -> StreamUpdated(which, new, [new EXCEPT !.mtu = 23])
    [] kind = "disconnect" /\ sink = c -> new
    [] kind = "mtu" /\ sink = c -> StreamUpdated(which, st, [st EXCEPT !.mtu = arg])
    [] kind = which /\ sink = c -> StreamUpdated(which, st, [st EXCEPT !.notify = arg])
    [] OTHER -> st

(* refresh_link_gate and refresh_connection_gates re-read the policy.      *)
MLiveGated(st, x, who) ==
  IF who = NoCentral \/ st.secured THEN st
  ELSE LiveUpdated(st, [st EXCEPT !.secured = link_has_accepted_bond(x, who)])
LiveGated(st, x, who) ==
  IF who = NoCentral THEN st
  ELSE LiveUpdated(st, [st EXCEPT !.secured = link_has_accepted_bond(x, who)])
ExtGated(st, x, who, sels) ==
  LET trusted == who # NoCentral /\ link_has_accepted_bond(x, who)
      token == IF who = NoCentral THEN 0 ELSE TokenFor(sels["signal"], who)
  IN ExtTokenSet(ExtUpdated(st, [st EXCEPT !.secured = trusted]), token)

NextDue(wait) == IF wait = Never THEN Never ELSE now + wait
LiveDue(st) == NextDue(UntilSample(LiveHolds(st), st.lastSample, now))
ExtDue(st) == NextDue(UntilSample(ExtHolds(st), st.lastSample, now))

Listeners(kind, c, arg) ==
  LET l == LiveGated(StreamAfter("live", live, NewLive, kind, c, arg),
                     s, SinkAfter(kind, c))
      e == ExtGated(StreamAfter("ext", ext, NewExt, kind, c, arg),
                    s, SinkAfter(kind, c),
                    IF budget.discoveryFirst THEN SelectorsAfter(kind, c) ELSE sel)
  IN /\ disc' = DiscoveryAfter(kind, c) /\ sel' = SelectorsAfter(kind, c)
     /\ sink' = SinkAfter(kind, c)
     /\ live' = l /\ ext' = e
     /\ due' = [live |-> LiveDue(l), ext |-> ExtDue(e)]

-----------------------------------------------------------------------------
AllRegistered == RegisterService(ServiceTable(TRUE))
Guarded == {r.attribute : r \in {x \in AllRegistered : x.guarded}}
Authorized == {r.attribute : r \in {x \in AllRegistered : x.authorized}}

(* bring_up_nimble: without the config ports only the rest is served, and  *)
(* security is configured after a registration that succeeded.             *)
BringUp ==
  /\ served = {} /\ RegisterService(ServiceTable(budget.config)) # {}
  /\ served' = {r.attribute : r \in RegisterService(ServiceTable(budget.config))}
  /\ s' = ensure_store_guard([s EXCEPT !.slot = "stock"])
  /\ UNCHANGED <<now, nim, store, streams, read, budget, seen>>

(* start_advertising: a failed start is only logged.                       *)
AdvertisingStarts == {TRUE} \cup (IF budget.advFails THEN {FALSE} ELSE {})

(* on_host_sync: the host has put its own write callback back before it.   *)
HostSync ==
  /\ served # {} /\ ~nim.synced
  /\ s' = apply_window_state(ensure_store_guard([s EXCEPT !.slot = "stock"]))
  /\ \E on \in AdvertisingStarts : nim' = [nim EXCEPT !.synced = TRUE, !.adv = on]
  /\ UNCHANGED <<now, store, served, streams, read, budget, seen>>

Connect(c) ==
  /\ nim.synced /\ nim.adv /\ nim.peer = NoCentral
  /\ c \in budget.centrals /\ Spend("links")
  /\ Listeners("connect", c, 0)
  /\ PolicyBecomes(handle_connect(AtEvent, store, c))
  /\ nim' = [nim EXCEPT !.peer = c, !.adv = FALSE, !.enc = FALSE, !.phase = "idle",
                        !.term = FALSE, !.sub = {}, !.left = <<>>]
  /\ seen' = [seen EXCEPT !.linkAt = now, !.trusted = now, !.revoked = FALSE,
                          !.page = 0, !.tooSoon = FALSE,
                          !.frame = [k \in Streams |-> Never], !.sent = [k \in Streams |-> 0],
                          !.waits = [h \in DOMAIN @ |-> 0]]
  /\ UNCHANGED <<now, served, read>>

(* A connection attempt that failed resumes advertising.                   *)
ConnectFails ==
  /\ nim.synced /\ nim.adv /\ nim.peer = NoCentral /\ budget.advFails
  /\ Listeners("failed", NoCentral, 0) /\ s' = AtEvent
  /\ \E on \in AdvertisingStarts : nim' = [nim EXCEPT !.adv = on]
  /\ UNCHANGED <<now, store, served, read, budget, seen>>

LinkGone(synced) ==
  /\ Listeners("disconnect", nim.peer, 0)
  /\ PolicyBecomes(handle_disconnect(AtEvent, store, nim.peer))
  /\ \E on \in AdvertisingStarts :
       nim' = [nim EXCEPT !.peer = NoCentral, !.adv = on /\ synced, !.synced = synced,
                          !.enc = FALSE, !.phase = "idle", !.left = <<>>,
                          !.term = FALSE, !.sub = {}]
  /\ UNCHANGED <<now, served, read, seen>>
Disconnect == nim.peer # NoCentral /\ HostFree /\ LinkGone(TRUE) /\ UNCHANGED budget

(* A host reset ends the link first; the host syncs again later.           *)
HostReset ==
  /\ nim.synced /\ HostFree /\ Spend("resets")
  /\ IF nim.peer # NoCentral THEN LinkGone(FALSE)
     ELSE /\ nim' = [nim EXCEPT !.synced = FALSE, !.adv = FALSE]
          /\ UNCHANGED <<now, s, store, served, streams, read, seen>>

MtuAgreed(mtu) ==
  /\ nim.peer # NoCentral /\ nim.phase = "idle" /\ live.mtu < mtu
  /\ Listeners("mtu", nim.peer, mtu) /\ s' = AtEvent
  /\ UNCHANGED <<now, nim, store, served, read, budget, seen>>

-----------------------------------------------------------------------------
(* The security manager answers a pairing request by its level, then looks *)
(* for a bond of the same central, then for room: a full store raises the  *)
(* store-full event before the key exchange.                               *)
PairingRequest ==
  LET c == nim.peer
      r == handle_repeat_pairing(AtEvent, store, c)
  IN /\ c # NoCentral /\ nim.phase = "idle" /\ s.lvl = "accept" /\ Spend("pairs")
     /\ IF Stored(store, c)
        THEN /\ Listeners("repeat", c, 0) /\ PolicyBecomes(r)
             /\ nim' = [nim EXCEPT !.phase = IF Retries(AtEvent, c) THEN "exchange" ELSE "idle"]
        ELSE /\ IF Full(store, "our")
                THEN StoreFull
                ELSE UNCHANGED policy
             /\ nim' = [nim EXCEPT !.phase = IF Full(store, "our") /\ ~WindowOpen(s.closes, now)
                                             THEN "idle" ELSE "exchange"]
             /\ UNCHANGED streams
     /\ UNCHANGED <<now, served, read, seen>>

(* BLE_GAP_EVENT_PARING_COMPLETE: the records are written next.            *)
PairingComplete ==
  /\ nim.phase = "exchange"
  /\ Listeners("complete", nim.peer, 0)
  /\ s' = IF nim.peer = AtEvent.conn THEN accepted_pairing_pdu(AtEvent) ELSE AtEvent
  /\ \E full \in BOOLEAN :
       nim' = [nim EXCEPT !.phase = "persist", !.enc = TRUE, !.fullKey = full,
                          !.left = <<"addr", "our", "peer">>]
  /\ UNCHANGED <<now, store, served, read, budget, seen>>

(* ble_store_write of the next record; a full store asks on_store_status   *)
(* and, when that made room, writes again through the slot.                *)
PersistRecord ==
  LET kind == Head(nim.left)
      stores == s.slot = "stock" \/ (s.orig /\ WindowOpen(s.closes, now))
  IN /\ nim.phase = "persist" /\ nim.left # <<>>
     /\ IF stores /\ Full(store, kind)
        THEN /\ StoreFull
             /\ nim' = IF WindowOpen(s.closes, now) THEN nim
                       ELSE [nim EXCEPT !.left = Tail(@)]
        ELSE /\ PolicyBecomes(guarded_store_write(s, store, kind, nim.peer))
             /\ nim' = [nim EXCEPT !.left = Tail(@)]
     /\ UNCHANGED <<now, served, streams, read, budget, seen>>

(* BLE_GAP_EVENT_ENC_CHANGE: listeners first, then the policy.             *)
Encryption(ok, fullKey) ==
  /\ Listeners("enc", nim.peer, 0)
  /\ PolicyBecomes(handle_encryption_change(AtEvent, store, nim.peer, ok, TRUE, fullKey))
Judged(paired) ==
  seen' = [seen EXCEPT !.used = @ \/ (paired /\ s'.link.accepted),
                       !.revoked = @ \/ (s.link.accepted /\ ~s'.link.accepted),
                       !.trusted = IF s.link.accepted THEN now ELSE @]

PairingEnds ==
  /\ nim.phase = "persist" /\ nim.left = <<>>
  /\ Encryption(TRUE, nim.fullKey) /\ Judged(TRUE)
  /\ nim' = [nim EXCEPT !.phase = "idle"]
  /\ UNCHANGED <<now, served, read, budget>>
PairingFails ==
  /\ nim.phase = "exchange"
  /\ Encryption(FALSE, FALSE) /\ Judged(FALSE)
  /\ nim' = [nim EXCEPT !.phase = "idle"]
  /\ UNCHANGED <<now, served, read, budget>>

(* A bonded central starts encryption; its subscriptions come back after   *)
(* the event.                                                              *)
Reencrypt(ok) ==
  /\ nim.peer # NoCentral /\ nim.phase = "idle" /\ ~nim.enc /\ Stored(store, nim.peer)
  /\ Encryption(ok, TRUE) /\ Judged(FALSE)
  /\ nim' = [nim EXCEPT !.enc = ok,
                        !.phase = IF ok /\ store.subs[nim.peer] # {} THEN "restoring" ELSE "idle"]
  /\ UNCHANGED <<now, served, read, budget>>
Subscribed(k, on) ==
  /\ Listeners(k, nim.peer, on) /\ s' = AtEvent
  /\ seen' = [seen EXCEPT !.waits = [h \in DOMAIN @ |-> 0]]
Restore(k) ==
  /\ nim.phase = "restoring" /\ k \in store.subs[nim.peer] \ nim.sub
  /\ Subscribed(k, TRUE)
  /\ nim' = [nim EXCEPT !.sub = @ \cup {k},
                        !.phase = IF store.subs[nim.peer] \subseteq nim.sub \cup {k}
                                  THEN "idle" ELSE "restoring"]
  /\ UNCHANGED <<now, store, served, read, budget>>

(* A subscription on an encrypted link: the authorize event, then, when    *)
(* the link is trusted, the subscribe event.                               *)
Attribute(k) == IF k = "live" THEN "LiveSignals" ELSE "ExtensibleLiveSignals"
Subscribe(k, on) ==
  /\ nim.peer # NoCentral /\ nim.phase = "idle" /\ nim.enc
  /\ Attribute(k) \in served \cap Authorized
  /\ k \in budget.streams /\ on # (k \in nim.sub) /\ Spend("toggles")
  /\ IF link_has_accepted_bond(AtEvent, nim.peer)
     THEN /\ Subscribed(k, on)
          /\ nim' = [nim EXCEPT !.sub = IF on THEN @ \cup {k} ELSE @ \ {k}]
          /\ store' = [store EXCEPT !.subs[nim.peer] =
                         IF ~Stored(store, nim.peer) THEN @ ELSE nim'.sub]
     ELSE /\ Listeners("authorize", nim.peer, 0)
          /\ s' = schedule_disconnect(AtEvent, nim.peer)
          /\ UNCHANGED <<nim, store, seen>>
  /\ UNCHANGED <<now, served, read>>

-----------------------------------------------------------------------------
(* guarded_access: the policy's answer before the attribute's own.         *)
Answer == Access(s.link, nim.enc, Stored(store, nim.peer))
check_protected_access ==
  LET y == [s EXCEPT !.link = AccessChecked(s.link, now, nim.enc)]
  IN IF nim.peer # s.conn THEN s
     ELSE IF Answer = "InsufficientAuthenticationAndDisconnect"
     THEN schedule_disconnect(y, nim.peer) ELSE rearm_drop_timer(y)
Reached(attribute) ==
  /\ nim.peer # NoCentral /\ nim.phase \in {"idle", "exchange"} /\ attribute \in served
  /\ attribute \in Guarded => nim.peer = s.conn /\ Answer = "Allow"

Refused ==
  /\ nim.peer # NoCentral /\ nim.phase = "idle" /\ Answer # "Allow"
  /\ s' = check_protected_access
  /\ UNCHANGED <<now, nim, store, served, streams, read, budget, seen>>

SelectPage(k, form, token, offset) ==
  /\ Spend("selects")
  /\ Reached(IF k = "signal" THEN "SignalCatalog" ELSE "OutputCatalog")
  /\ s' = check_protected_access
  /\ sel' = [sel EXCEPT ![k] = Selected(@, nim.peer, form, token, offset)]
  /\ seen' = IF k = "signal" /\ SelectAnswer(sel[k], nim.peer, form, token, offset) = "None"
             THEN [seen EXCEPT !.page = offset] ELSE seen
  /\ UNCHANGED <<now, nim, store, served, disc, live, ext, sink, due, read>>

(* Clear bonds: every bond whose deletion succeeds goes, the link is no    *)
(* longer trusted, and it is dropped after the response to a success.      *)
ClearBonds ==
  /\ Reached("Command") /\ Spend("clears")
  /\ \E kept \in SUBSET store.peer :
       LET x == rearm_drop_timer([check_protected_access EXCEPT !.link.accepted = FALSE])
       IN /\ s' = IF kept = {} THEN schedule_disconnect(x, nim.peer) ELSE x
          /\ store' = [store EXCEPT !.our = @ \cap kept, !.peer = kept,
                                    !.subs = [c \in Centrals |-> IF c \in kept THEN @[c] ELSE {}]]
  /\ seen' = [seen EXCEPT !.trusted = now, !.revoked = TRUE]
  /\ UNCHANGED <<now, nim, served, streams, read>>

-----------------------------------------------------------------------------
(* on_user_key_timer: one sample of the key.                               *)
UserKey(level) ==
  LET x == ensure_store_guard([s EXCEPT !.key = Sampled(s.key, level)])
      press == IsPress(s.key, level) /\ EnsureHolds(s.slot, s.orig)
  IN /\ HostFree /\ served # {} /\ budget.storage /\ budget.presses > 0
     /\ s' = IF press THEN apply_window_state([x EXCEPT !.closes = now + WindowPeriod])
             ELSE IF IsPress(s.key, level) THEN x ELSE [s EXCEPT !.key = Sampled(@, level)]
     /\ IF press THEN /\ Spend("presses")
                      /\ seen' = [seen EXCEPT !.press = now, !.used = FALSE]
        ELSE UNCHANGED <<budget, seen>>
     /\ UNCHANGED <<now, nim, store, served, streams, read>>

Fires(timer) == timer # Never /\ now >= timer
WindowTimer ==
  /\ HostFree /\ Fires(s.tWindow)
  /\ s' = apply_window_state([s EXCEPT !.tWindow = Never])
  /\ UNCHANGED <<now, nim, store, served, streams, read, budget, seen>>
DropTimer ==
  LET x == [s EXCEPT !.tDrop = Never]
  IN /\ HostFree /\ Fires(s.tDrop)
     /\ s' = IF s.conn = NoCentral THEN x
             ELSE IF MustDrop(s.link, now) THEN schedule_disconnect(x, s.conn)
             ELSE rearm_drop_timer(x)
     /\ UNCHANGED <<now, nim, store, served, streams, read, budget, seen>>
DisconnectTimer ==
  /\ HostFree /\ Fires(s.tDisc)
  /\ s' = [s EXCEPT !.tDisc = Never, !.dropConn = NoCentral]
  /\ nim' = [nim EXCEPT !.term = @ \/ (s.dropConn # NoCentral /\ s.dropConn = nim.peer)]
  /\ UNCHANGED <<now, store, served, streams, read, budget, seen>>

(* sample_and_notify of each stream; the stack may refuse the packet.      *)
SentFrame(k, waits) ==
  [seen EXCEPT !.frame[k] = now, !.sent[k] = @ + 1, !.waits = waits,
     !.tooSoon = @ \/ (seen.frame[k] # Never /\ now < seen.frame[k] + FrameInterval)]
SampleLive ==
  LET st == LiveGated(live, s, sink)
      content == LiveContent(read.started, read.of)
  IN /\ HostFree /\ Fires(due.live)
     /\ \E queued \in BOOLEAN : live' = LiveOffered(st, now, content, queued)
     /\ due' = [due EXCEPT !.live = LiveDue(live')]
     /\ seen' = IF LiveSends(st, now, content) THEN SentFrame("live", seen.waits) ELSE seen
     /\ UNCHANGED <<now, policy, nim, served, disc, sel, ext, sink, read, budget>>
SampleExt ==
  LET st == ExtGated(ext, s, sink, sel)
      inPacket == {Packed(st, read.of, now).records[i].handle
                     : i \in DOMAIN Packed(st, read.of, now).records}
      waits == [h \in DOMAIN seen.waits |->
                  IF h \in inPacket \/ ~RecordDue(st, Record(h, read.of), now) THEN 0
                  ELSE seen.waits[h] + 1]
  IN /\ HostFree /\ Fires(due.ext)
     /\ \E queued \in BOOLEAN : ext' = ExtOffered(st, read.of, now, queued)
     /\ due' = [due EXCEPT !.ext = ExtDue(ext')]
     /\ seen' = IF ExtSends(st, read.of, now) THEN SentFrame("ext", waits) ELSE seen
     /\ UNCHANGED <<now, policy, nim, served, disc, sel, live, sink, read, budget>>

(* The provider publishes a reading; telemetry is marked started.          *)
Publish(id, i) ==
  /\ Spend("changes") /\ read.of[id] # Readings[i]
  /\ read' = [read EXCEPT !.of[id] = Readings[i]]
  /\ UNCHANGED <<now, policy, nim, served, streams, seen>>
mark_telemetry_started ==
  /\ ~read.started /\ budget.changes > 0
  /\ read' = [read EXCEPT !.started = TRUE]
  /\ UNCHANGED <<now, policy, nim, served, streams, budget, seen>>

(* Time passes, no further than any timer may be late.                     *)
Tick ==
  /\ now < budget.time /\ nim.phase # "restoring"
  /\ \A timer \in {s.tWindow, s.tDrop, s.tDisc, due.live, due.ext} :
       timer = Never \/ now < timer + MaxLate
  /\ now' = now + 1
  /\ UNCHANGED <<policy, nim, served, streams, read, budget, seen>>

Next ==
  \/ BringUp \/ HostSync \/ HostReset \/ ConnectFails \/ Disconnect
  \/ \E c \in Centrals : Connect(c)
  \/ \E mtu \in Mtus : MtuAgreed(mtu)
  \/ PairingRequest \/ PairingComplete \/ PersistRecord \/ PairingEnds \/ PairingFails
  \/ \E ok \in BOOLEAN : Reencrypt(ok)
  \/ \E k \in Streams : Restore(k) \/ \E on \in BOOLEAN : Subscribe(k, on)
  \/ Refused \/ ClearBonds
  \/ \E k \in Selectors, form \in {"ok", "length", "format"}, offset \in Pages :
       \E token \in 0 .. disc.next : SelectPage(k, form, token, offset)
  \/ \E level \in {"Pressed", "Released"} : UserKey(level)
  \/ WindowTimer \/ DropTimer \/ DisconnectTimer \/ SampleLive \/ SampleExt
  \/ \E id \in DOMAIN read.of, i \in DOMAIN Readings : Publish(id, i)
  \/ mark_telemetry_started \/ Tick

Spec == Init /\ [][Next]_vars

-----------------------------------------------------------------------------
OptionalTime == Nat \cup {Never}
OptionalCentral == Centrals \cup {NoCentral}

(* TypeOK: the policy's and NimBLE's variables keep their types, and the   *)
(* policy follows the link NimBLE has.                                     *)
TypeOK ==
  /\ now \in 0 .. budget.time
  /\ s.lvl \in {"accept", "reject"} /\ s.slot \in {"none", "stock", "guard"}
  /\ {s.closes, s.tWindow, s.tDrop, s.tDisc} \subseteq OptionalTime
  /\ {s.conn, s.dropConn, s.refused, nim.peer, sink, disc.conn} \subseteq OptionalCentral
  /\ s.conn = nim.peer /\ sink = nim.peer
  /\ store.our \cup store.peer \cup store.orphans \subseteq Centrals
  /\ Cardinality(store.our) <= MaxBonds /\ Cardinality(store.peer) <= MaxBonds
  /\ due \in [Streams -> OptionalTime]
  /\ live.seq \in Nat /\ live.seq < 256 /\ ext.seq \in Nat /\ ext.seq < 65536

(* BondNeedsPress: a bond record reaches the store only within the window  *)
(* of a debounced key press, counted at the moment of the write, and only  *)
(* until the first bond of that window is accepted; whatever NimBLE does   *)
(* to the callback slot, and however late the window timer runs            *)
(* (guarded_store_write, ensure_store_guard).                              *)
BondNeedsPress ==
  store'.peer \ store.peer # {} =>
    seen.press # Never /\ now < seen.press + WindowPeriod /\ ~seen.used

(* BondsKept: a stored bond goes only inside an open window, by Clear      *)
(* bonds on a trusted link, or because its own pairing was then rejected;  *)
(* a pairing attempted outside the window evicts and deletes nothing       *)
(* (on_store_status, handle_repeat_pairing, handle_encryption_change).     *)
BondsKept ==
  \A c \in store.peer \ store'.peer :
    \/ seen.press # Never /\ now < seen.press + WindowPeriod /\ ~seen.used
    \/ s.link.accepted /\ ~s'.link.accepted
    \/ c = nim.peer /\ nim.phase = "persist"

(* TrustedLinkHasBond: outside a pairing in progress, the link the policy  *)
(* trusts is encrypted and its central has a stored bond                   *)
(* (LinkSecurity::encrypted, clear_bonds, the eviction of old bonds).      *)
TrustedLinkHasBond ==
  s.link.accepted /\ nim.peer # NoCentral /\ nim.phase \in {"idle", "restoring"} =>
    nim.enc /\ Stored(store, nim.peer)

(* UnbondedLinkBounded: a link without an accepted bond is asked to end by *)
(* its absolute limit, or at once when its bond was revoked later, give or *)
(* take the lateness of the two timers on the way (rearm_drop_timer,       *)
(* on_drop_timer, on_disconnect_timer).                                    *)
UnbondedLinkBounded ==
  nim.peer # NoCentral /\ ~s.link.accepted /\ ~nim.term =>
    now <= Later(seen.linkAt + AbsoluteLimit, seen.trusted) + 2 * MaxLate

(* NoOrphanRecords: a peer device record NimBLE wrote for a pairing the    *)
(* guard refused does not outlive the link                                 *)
(* (guarded_store_write, delete_refused_peer_records).                     *)
NoOrphanRecords == nim.peer = NoCentral => store.orphans = {}

(* PageBelongsToLink: the page a central reads carries the token of its    *)
(* own connection and the offset it last chose on it, never what an        *)
(* earlier link left (SignalCatalogSelector, DiscoveryConnection).         *)
PageBelongsToLink ==
  /\ nim.peer # NoCentral /\ Available => ReadPage(sel["signal"], nim.peer) # None
  /\ \A c \in Centrals : ReadPage(sel["signal"], c) # None =>
       /\ c = nim.peer
       /\ Head(ReadPage(sel["signal"], c)).token = disc.next
       /\ Head(ReadPage(sel["signal"], c)).offset = seen.page

(* FramesOnlyOnTrustedLink: no frame is offered to the stack on a link     *)
(* whose bond is not accepted at that moment, that has not subscribed or   *)
(* whose MTU is too small; the revocation by Clear bonds and the judgement *)
(* of an encryption change reach the streams without an event              *)
(* (refresh_link_gate, refresh_connection_gates).                          *)
FramesOnlyOnTrustedLink ==
  [][\A k \in Streams : seen'.sent[k] > seen.sent[k] =>
        s.link.accepted /\ k \in nim.sub /\ live.mtu >= MinMtu]_vars

(* RateCap: two frames of a stream on one connection are at least          *)
(* FrameInterval apart, also when the central unsubscribes and subscribes  *)
(* again between them (Pacing::restart keeps the sample time).             *)
RateCap == ~seen.tooSoon

(* StreamArmed: a stream whose every condition holds has a sample due; it  *)
(* is not left waiting for the next GAP event (schedule_next_sample after  *)
(* the gate was refreshed).  Not on a link whose trust ended, by Clear     *)
(* bonds or a failed encryption: it may live on for a while, keep its      *)
(* subscription and pair again, and then only another event arms the       *)
(* stream, because the listeners run before the policy accepts the bond.   *)
StreamArmed ==
  \A k \in Streams :
    /\ nim.peer # NoCentral /\ nim.phase = "idle" /\ s.link.accepted /\ ~seen.revoked
    /\ k \in nim.sub /\ live.mtu >= MinMtu /\ (k = "ext" => Available)
    => due[k] # Never

(* NoSignalStarves: a due record waits for at most as many packets as it   *)
(* takes to go once around the catalog, whether or not the stack accepts   *)
(* them (offer's cursor moves past what it attempted).                     *)
Rounds == LET fit == RecordRoom(MinMtu) \div 9
          IN (SignalCount + fit - 1) \div fit
NoSignalStarves == \A h \in DOMAIN seen.waits : seen.waits[h] < Rounds

(* LinkTrustBounded: trust in a link rests on a stored bond, and a link    *)
(* without it ends on time (security.cpp).                                 *)
LinkTrustBounded == TypeOK /\ TrustedLinkHasBond /\ UnbondedLinkBounded

(* BondStoreGuarded: bonds come with a key press and go by the owner's     *)
(* will only (security.cpp).                                               *)
BondStoreGuarded == [][BondNeedsPress /\ BondsKept]_vars

(* NothingOutlivesLink: neither a record of a refused pairing nor a page   *)
(* selection passes from one link to the next (security.cpp,               *)
(* signal_catalog_selector.cpp).                                           *)
NothingOutlivesLink == NoOrphanRecords /\ PageBelongsToLink

(* StreamPaced: an armed stream sends at its rate, and its packets go      *)
(* round all due records (live_signal_stream.cpp,                          *)
(* extensible_live_stream.cpp, *_characteristic.cpp).                      *)
StreamPaced == StreamArmed /\ RateCap /\ NoSignalStarves

=============================================================================
