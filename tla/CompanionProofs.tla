--------------------------- MODULE CompanionProofs ---------------------------
(***************************************************************************)
(* Theorems about the companion link, for any centrals, bond capacity,     *)
(* timing, MTUs, signals and environments.                                 *)
(*                                                                         *)
(* PolicyInv is the inductive invariant of the pairing policy and the bond *)
(* store.  The properties are not inductive by themselves: that a bond     *)
(* follows a key press needs the window to be one a press opened           *)
(* (WindowInv); that trust rests on a stored bond needs to know what       *)
(* NimBLE's pairing phase says of the store (KeysInv) and of encryption    *)
(* (HostInv); that an untrusted link ends needs the timer that will end it *)
(* and how late that timer can be (DropInv).                               *)
(*                                                                         *)
(* StreamInv is that of the selectors and the streams, on top of           *)
(* PolicyInv: they follow NimBLE's link (SelectorInv, SinkInv), a stream   *)
(* that may send has its timer armed (ArmInv), and the last frame is never *)
(* later than the last sample (RateInv).                                   *)
(***************************************************************************)
EXTENDS Companion, FiniteSetTheorems, TLAPS

-----------------------------------------------------------------------------
(* Types. *)
LinkRecord ==
  [connectedAt : Nat, idleSince : Nat, rejected : BOOLEAN, keys : BOOLEAN, accepted : BOOLEAN]
PolicyRecord ==
  [closes : OptionalTime, lvl : {"accept", "reject"}, slot : {"none", "stock", "guard"},
   orig : BOOLEAN, key : [stable : {"Pressed", "Released"}, changed : Nat],
   conn : OptionalCentral, link : LinkRecord, dropConn : OptionalCentral,
   refused : OptionalCentral, tWindow : OptionalTime, tDrop : OptionalTime,
   tDisc : OptionalTime]
HostRecord ==
  [synced : BOOLEAN, adv : BOOLEAN, peer : OptionalCentral, enc : BOOLEAN,
   phase : {"idle", "exchange", "persist", "restoring"},
   left : {<<"addr", "our", "peer">>, <<"our", "peer">>, <<"peer">>, <<>>},
   fullKey : BOOLEAN, term : BOOLEAN, sub : SUBSET Streams]
StoreRecord ==
  [our : SUBSET Centrals, peer : SUBSET Centrals, subs : [Centrals -> SUBSET Streams],
   orphans : SUBSET Centrals]
SeenRecord(waits) ==
  [press : OptionalTime, used : BOOLEAN, linkAt : Nat, trusted : Nat, revoked : BOOLEAN,
   page : Nat, frame : [Streams -> OptionalTime], sent : [Streams -> Nat],
   tooSoon : BOOLEAN, waits : waits]

PolicyType ==
  /\ now \in Nat /\ budget \in BudgetType /\ now <= budget.time
  /\ s \in PolicyRecord /\ nim \in HostRecord /\ store \in StoreRecord
  /\ seen \in SeenRecord({seen.waits})

USE DEF NoCentral

-----------------------------------------------------------------------------
Kept(x, y) ==
  /\ y.conn = x.conn /\ y.link = x.link /\ y.dropConn = x.dropConn /\ y.refused = x.refused
  /\ y.tDrop = x.tDrop /\ y.tDisc = x.tDisc

LEMMA GuardFacts ==
  ASSUME NEW x \in PolicyRecord
  PROVE  /\ ensure_store_guard(x) \in PolicyRecord /\ Kept(x, ensure_store_guard(x))
         /\ ensure_store_guard(x).closes = x.closes /\ ensure_store_guard(x).slot # "stock"
         /\ ensure_store_guard(x).lvl = x.lvl /\ ensure_store_guard(x).tWindow = x.tWindow
  BY DEF ensure_store_guard, PolicyRecord, Ensured, EnsuredOrig, Kept

LEMMA WindowFacts ==
  ASSUME NEW x \in PolicyRecord, now \in Nat
  PROVE  /\ apply_window_state(x) \in PolicyRecord /\ Kept(x, apply_window_state(x))
         /\ apply_window_state(x).closes \in {x.closes, Never}
         /\ x.slot # "stock" => apply_window_state(x).slot # "stock"
         /\ apply_window_state(x).lvl = "accept" => apply_window_state(x).closes = x.closes
  <1>1. CASE WindowOpen(x.closes, now) /\ EnsureHolds(x.slot, x.orig)
    <2>1. x.closes \in OptionalTime
      BY DEF PolicyRecord
    <2> QED
      BY <1>1, <2>1, GuardFacts, ZenonT(60) DEF apply_window_state, PolicyRecord, Kept
  <1>2. CASE ~(WindowOpen(x.closes, now) /\ EnsureHolds(x.slot, x.orig))
    BY <1>2 DEF apply_window_state, PolicyRecord, Kept, OptionalTime
  <1> QED
    BY <1>1, <1>2

LEMMA EventFacts ==
  ASSUME PolicyType
  PROVE  /\ AtEvent \in PolicyRecord /\ Kept(s, AtEvent)
         /\ AtEvent.closes \in {s.closes, Never} /\ AtEvent.slot # "stock"
  BY GuardFacts, WindowFacts DEF AtEvent, PolicyType, Kept

LEMMA RearmFacts ==
  ASSUME NEW x \in PolicyRecord
  PROVE  /\ rearm_drop_timer(x) = [x EXCEPT !.tDrop = rearm_drop_timer(x).tDrop]
         /\ rearm_drop_timer(x) \in PolicyRecord
         /\ x.conn # NoCentral /\ ~x.link.accepted
              => /\ rearm_drop_timer(x).tDrop \in Nat
                 /\ rearm_drop_timer(x).tDrop <= x.link.connectedAt + AbsoluteLimit
  <1> USE PolicyAssumption DEF PolicyRecord, LinkRecord, OptionalTime
  <1>1. DropDeadline(x.link) \in OptionalTime
    BY DEF DropDeadline, Earlier
  <1>2. ~x.link.accepted => /\ DropDeadline(x.link) \in Nat
                            /\ DropDeadline(x.link) <= x.link.connectedAt + AbsoluteLimit
    BY DEF DropDeadline, Earlier
  <1> QED
    BY <1>1, <1>2 DEF rearm_drop_timer

LEMMA ScheduleFacts ==
  ASSUME NEW x \in PolicyRecord, NEW c \in OptionalCentral, now \in Nat
  PROVE  /\ schedule_disconnect(x, c) \in PolicyRecord
         /\ c # NoCentral =>
              schedule_disconnect(x, c)
                = [x EXCEPT !.dropConn = c, !.tDisc = IF @ = Never THEN now ELSE @]
  BY ZenonT(60) DEF schedule_disconnect, PolicyRecord, OptionalTime

-----------------------------------------------------------------------------
(* The inductive invariant of the policy. *)
(* An open window is one a key press opened and no bond has used.          *)
WindowInv ==
  s.closes # Never =>
    seen.press # Never /\ s.closes = seen.press + WindowPeriod /\ ~seen.used
(* A key exchange runs for a central without a bond; once its record is    *)
(* stored, the link knows that keys were written on it.                    *)
KeysInv ==
  /\ nim.phase = "exchange" => ~Stored(store, nim.peer)
  /\ nim.phase = "persist" /\ Stored(store, nim.peer) => s.link.keys
(* NimBLE's phases belong to a link, and keys are written on encrypted     *)
(* links only.                                                             *)
HostInv ==
  /\ nim.phase # "idle" => nim.peer # NoCentral
  /\ nim.phase \in {"persist", "restoring"} => nim.enc
  /\ nim.peer # NoCentral /\ s.link.keys => nim.enc
(* The stores are within their capacity.                                   *)
RoomInv ==
  /\ IsFiniteSet(store.our) /\ Cardinality(store.our) <= MaxBonds
  /\ IsFiniteSet(store.peer) /\ Cardinality(store.peer) <= MaxBonds
(* A peer device record without a bond is that of the connected central,   *)
(* and the policy remembers to delete it.                                  *)
OrphanInv == s.refused \in {NoCentral, nim.peer} /\ store.orphans \subseteq {s.refused}

TrustInv == WindowInv /\ KeysInv /\ HostInv /\ TrustedLinkHasBond /\ OrphanInv

(* A link without an accepted bond has a timer armed that ends it in time. *)
Bound == Later(seen.linkAt + AbsoluteLimit, seen.trusted)
DropInv ==
  /\ nim.peer # NoCentral => s.link.connectedAt = seen.linkAt
  /\ seen.linkAt <= now /\ seen.trusted <= now
  /\ s.tDisc # Never => s.tDisc <= now /\ s.dropConn = s.conn /\ s.conn # NoCentral
  /\ nim.peer # NoCentral /\ ~s.link.accepted /\ ~nim.term =>
       \/ s.tDrop # Never /\ s.tDrop <= Bound /\ now <= Bound + MaxLate
       \/ s.tDisc # Never /\ s.tDisc <= Bound + MaxLate /\ now <= Bound + 2 * MaxLate

PolicyInv ==
  /\ PolicyType /\ s.conn = nim.peer /\ s.slot # "stock"
  /\ TrustInv /\ RoomInv /\ DropInv

-----------------------------------------------------------------------------
(* Steps. *)
SameBudget == budget' \in BudgetType /\ budget'.time = budget.time
SameHost ==
  /\ nim' \in HostRecord /\ nim'.peer = nim.peer /\ nim'.enc = nim.enc /\ nim'.term = nim.term
  /\ nim'.phase = nim.phase \/ (nim.phase = "restoring" /\ nim'.phase = "idle")
SameSeen ==
  /\ seen' \in SeenRecord({seen'.waits}) /\ seen'.press = seen.press /\ seen'.used = seen.used
  /\ seen'.linkAt = seen.linkAt /\ seen'.trusted = seen.trusted
SameBonds ==
  store' \in StoreRecord /\ store'.our = store.our /\ store'.peer = store.peer
    /\ store'.orphans = store.orphans

LEMMA SpendFacts ==
  ASSUME PolicyType, NEW field \in {"links", "resets", "pairs", "presses", "clears", "toggles",
                                    "selects", "changes"}, Spend(field)
  PROVE  SameBudget
  BY DEF PolicyType, BudgetType, Spend, SameBudget

LEMMA EventStep ==
  ASSUME PolicyInv, UNCHANGED now, SameBudget, SameHost, SameSeen, SameBonds,
         s' \in PolicyRecord, Kept(s, s'), s'.closes \in {s.closes, Never}, s'.slot # "stock"
  PROVE  PolicyInv'
  <1> USE DEF PolicyInv
  <1>1. PolicyType'
    BY DEF PolicyType, SameBudget, SameHost, SameSeen, SameBonds
  <1>2. TrustInv'
    BY DEF TrustInv, WindowInv, KeysInv, HostInv, TrustedLinkHasBond, OrphanInv, Stored,
           Kept, SameHost, SameSeen, SameBonds
  <1>3. RoomInv' /\ (s.conn = nim.peer)'
    BY DEF RoomInv, SameBonds, SameHost, Kept
  <1>4. DropInv'
    BY DEF DropInv, Bound, Later, Kept, SameHost, SameSeen
  <1> QED
    BY <1>1, <1>2, <1>3, <1>4

LEMMA BringUpStep == PolicyInv /\ BringUp => PolicyInv'
  <1> SUFFICES ASSUME PolicyInv, BringUp PROVE PolicyInv'
    OBVIOUS
  <1>1. [s EXCEPT !.slot = "stock"] \in PolicyRecord /\ Kept(s, [s EXCEPT !.slot = "stock"])
        /\ [s EXCEPT !.slot = "stock"].closes = s.closes
    BY DEF PolicyInv, PolicyType, PolicyRecord, Kept
  <1>2. s' \in PolicyRecord /\ Kept(s, s') /\ s'.closes = s.closes /\ s'.slot # "stock"
    BY <1>1, GuardFacts DEF BringUp, Kept
  <1>3. SameBudget /\ SameHost /\ SameSeen /\ SameBonds /\ UNCHANGED now
    BY DEF BringUp, PolicyInv, PolicyType, SameBudget, SameHost, SameSeen, SameBonds
  <1> QED
    BY <1>2, <1>3, EventStep

LEMMA HostSyncStep == PolicyInv /\ HostSync => PolicyInv'
  <1> SUFFICES ASSUME PolicyInv, HostSync PROVE PolicyInv'
    OBVIOUS
  <1>1. [s EXCEPT !.slot = "stock"] \in PolicyRecord /\ Kept(s, [s EXCEPT !.slot = "stock"])
        /\ [s EXCEPT !.slot = "stock"].closes = s.closes
    BY DEF PolicyInv, PolicyType, PolicyRecord, Kept
  <1> DEFINE x == ensure_store_guard([s EXCEPT !.slot = "stock"])
  <1>2. x \in PolicyRecord /\ Kept(s, x) /\ x.closes = s.closes /\ x.slot # "stock"
    BY <1>1, GuardFacts DEF Kept
  <1> HIDE DEF x
  <1>5. apply_window_state(x) \in PolicyRecord /\ Kept(s, apply_window_state(x))
        /\ apply_window_state(x).closes \in {s.closes, Never}
        /\ apply_window_state(x).slot # "stock"
    BY <1>2, WindowFacts DEF Kept, PolicyInv, PolicyType
  <1>6. s' = apply_window_state(x)
    BY DEF HostSync, x
  <1>3. SameBudget /\ SameSeen /\ SameBonds /\ UNCHANGED now
    BY DEF HostSync, PolicyInv, PolicyType, SameBudget, SameSeen, SameBonds
  <1>4. SameHost
    BY ZenonT(60) DEF HostSync, AdvertisingStarts, PolicyInv, PolicyType, HostRecord, SameHost
  <1> QED
    BY <1>3, <1>4, <1>5, <1>6, EventStep

LEMMA ListenStep ==
  ASSUME PolicyInv, s' = AtEvent, UNCHANGED <<now, store>>, SameBudget, SameHost, SameSeen
  PROVE  PolicyInv'
  <1>1. SameBonds
    BY DEF PolicyInv, PolicyType, SameBonds
  <1> QED
    BY <1>1, EventFacts, EventStep DEF PolicyInv

LEMMA ConnectFailsStep == PolicyInv /\ ConnectFails => PolicyInv'
  BY ListenStep DEF ConnectFails, AdvertisingStarts, PolicyInv, PolicyType, HostRecord, SameHost,
                    SameBudget, SameSeen

LEMMA MtuStep == ASSUME NEW mtu \in Mtus PROVE PolicyInv /\ MtuAgreed(mtu) => PolicyInv'
  BY ListenStep DEF MtuAgreed, PolicyInv, PolicyType, SameHost, SameBudget, SameSeen

LEMMA RestoreStep == ASSUME NEW k \in Streams PROVE PolicyInv /\ Restore(k) => PolicyInv'
  <1> SUFFICES ASSUME PolicyInv, Restore(k) PROVE PolicyInv'
    OBVIOUS
  <1>1. SameBudget /\ SameHost
    BY DEF Restore, PolicyInv, PolicyType, HostRecord, SameHost, SameBudget
  <1>2. SameSeen
    BY DEF Restore, Subscribed, PolicyInv, PolicyType, SeenRecord, SameSeen
  <1> QED
    BY <1>1, <1>2, ListenStep DEF Restore, Subscribed

-----------------------------------------------------------------------------
(* Links begin and end: no record of a refused pairing is left. *)
LEMMA OrphansGone ==
  ASSUME PolicyInv, NEW x, x.refused = s.refused
  PROVE  /\ delete_refused_peer_records(x, store) \in StoreRecord
         /\ delete_refused_peer_records(x, store) = [store EXCEPT !.orphans = {}]
  <1>1. store \in StoreRecord /\ store.orphans \subseteq {s.refused}
    BY DEF PolicyInv, PolicyType, TrustInv, OrphanInv
  <1>2. s.refused = NoCentral => store.orphans = {}
    BY <1>1, CompanionAssumption DEF StoreRecord
  <1> QED
    BY <1>1, <1>2 DEF delete_refused_peer_records, StoreRecord

LEMMA ConnectStep == ASSUME NEW c \in Centrals PROVE PolicyInv /\ Connect(c) => PolicyInv'
  <1> SUFFICES ASSUME PolicyInv, Connect(c) PROVE PolicyInv'
    OBVIOUS
  <1> USE PolicyAssumption, CompanionAssumption
  <1> DEFINE x == AtEvent
             y == [RefusedForgotten(x) EXCEPT !.conn = c, !.dropConn = NoCentral,
                                              !.link = LinkConnected(now)]
  <1>0. now \in Nat
    BY DEF PolicyInv, PolicyType
  <1>1. /\ x \in PolicyRecord /\ x.refused = s.refused /\ x.tDisc = s.tDisc
        /\ x.closes \in {s.closes, Never} /\ x.slot # "stock"
    BY EventFacts DEF PolicyInv, Kept
  <1>2. s' = rearm_drop_timer(y) /\ store' = delete_refused_peer_records(x, store)
    BY DEF Connect, PolicyBecomes, handle_connect
  <1> HIDE DEF x
  <1>3. /\ LinkConnected(now) \in LinkRecord /\ LinkConnected(now).connectedAt = now
        /\ LinkConnected(now).accepted = FALSE /\ LinkConnected(now).keys = FALSE
    BY <1>0 DEF LinkConnected, NoLink, LinkRecord
  <1>4. /\ y \in PolicyRecord /\ y.conn = c /\ y.dropConn = NoCentral /\ y.refused = NoCentral
        /\ y.link = LinkConnected(now) /\ y.tDisc = s.tDisc /\ y.slot # "stock"
        /\ y.closes \in {s.closes, Never}
    BY <1>1, <1>3 DEF RefusedForgotten, PolicyRecord, OptionalCentral
  <1> HIDE DEF y
  <1>5. /\ s' \in PolicyRecord /\ s'.conn = c /\ s'.dropConn = NoCentral /\ s'.refused = NoCentral
        /\ s'.link = LinkConnected(now) /\ s'.tDisc = s.tDisc /\ s'.slot # "stock"
        /\ s'.closes \in {s.closes, Never}
        /\ s'.tDrop \in Nat /\ s'.tDrop <= now + AbsoluteLimit
    <2>1. s' = [y EXCEPT !.tDrop = s'.tDrop] /\ s' \in PolicyRecord
      BY <1>2, <1>4, RearmFacts
    <2>2. s'.tDrop \in Nat /\ s'.tDrop <= now + AbsoluteLimit
      BY <1>2, <1>3, <1>4, RearmFacts
    <2> QED
      BY <1>4, <2>1, <2>2 DEF PolicyRecord
  <1>6. store' \in StoreRecord /\ store' = [store EXCEPT !.orphans = {}]
    BY <1>1, <1>2, OrphansGone
  <1>7. /\ store'.our = store.our /\ store'.peer = store.peer /\ store'.orphans = {}
    BY <1>6 DEF PolicyInv, PolicyType, StoreRecord
  <1>8. /\ nim' \in HostRecord /\ nim'.peer = c /\ nim'.enc = FALSE /\ nim'.phase = "idle"
        /\ nim'.term = FALSE /\ nim.peer = NoCentral
    BY DEF Connect, PolicyInv, PolicyType, HostRecord, OptionalCentral
  <1>9. /\ seen' \in SeenRecord({seen'.waits}) /\ seen'.press = seen.press
        /\ seen'.used = seen.used /\ seen'.linkAt = now /\ seen'.trusted = now
    <2> HIDE PolicyAssumption, CompanionAssumption
    <2> QED
      BY <1>0 DEF Connect, PolicyInv, PolicyType, SeenRecord, OptionalTime
  <1>10. SameBudget /\ now' = now
    BY SpendFacts DEF Connect, PolicyInv
  <1>11. PolicyType'
    BY <1>5, <1>6, <1>8, <1>9, <1>10 DEF PolicyInv, PolicyType, SameBudget
  <1>12. TrustInv'
    BY <1>3, <1>5, <1>7, <1>8, <1>9 DEF PolicyInv, TrustInv, WindowInv, KeysInv, HostInv,
           TrustedLinkHasBond, OrphanInv, Stored
  <1>13. RoomInv'
    BY <1>7 DEF PolicyInv, RoomInv
  <1>14. DropInv'
    <2>1. s.tDisc = Never
      BY <1>8 DEF PolicyInv, DropInv
    <2>2. /\ Bound' \in Nat /\ Bound' >= now + AbsoluteLimit
      BY <1>0, <1>9 DEF Bound, Later
    <2> QED
      BY <1>0, <1>3, <1>5, <1>8, <1>9, <1>10, <2>1, <2>2 DEF DropInv
  <1> QED
    BY <1>5, <1>8, <1>11, <1>12, <1>13, <1>14 DEF PolicyInv

LEMMA LinkGoneStep ==
  ASSUME NEW synced \in BOOLEAN, PolicyInv, LinkGone(synced), nim.peer # NoCentral, SameBudget
  PROVE  PolicyInv'
  <1> USE PolicyAssumption, CompanionAssumption
  <1> DEFINE x == AtEvent
             y == RefusedForgotten(x)
  <1>1. x \in PolicyRecord /\ Kept(s, x) /\ x.closes \in {s.closes, Never} /\ x.slot # "stock"
    BY EventFacts DEF PolicyInv
  <1>2. /\ s' = IF nim.peer # y.conn THEN y
                ELSE [y EXCEPT !.conn = NoCentral, !.dropConn = NoCentral,
                               !.tDrop = Never, !.tDisc = Never]
        /\ store' = delete_refused_peer_records(x, store)
    BY DEF LinkGone, PolicyBecomes, handle_disconnect
  <1> HIDE DEF x
  <1>3. /\ s' \in PolicyRecord /\ s'.conn = NoCentral /\ s'.refused = NoCentral
        /\ s'.tDisc = Never /\ s'.slot # "stock" /\ s'.closes \in {s.closes, Never}
    BY <1>1, <1>2 DEF RefusedForgotten, PolicyRecord, OptionalCentral, OptionalTime, PolicyInv,
                      Kept
  <1>6. store' \in StoreRecord /\ store' = [store EXCEPT !.orphans = {}]
    BY <1>1, <1>2, OrphansGone DEF Kept
  <1>7. /\ store'.our = store.our /\ store'.peer = store.peer /\ store'.orphans = {}
    BY <1>6 DEF PolicyInv, PolicyType, StoreRecord
  <1>8. nim' \in HostRecord /\ nim'.peer = NoCentral /\ nim'.phase = "idle"
    <2>1. PICK on \in AdvertisingStarts :
            nim' = [nim EXCEPT !.peer = NoCentral, !.adv = on /\ synced, !.synced = synced,
                               !.enc = FALSE, !.phase = "idle", !.left = <<>>,
                               !.term = FALSE, !.sub = {}]
      BY DEF LinkGone
    <2> DEFINE adv == on /\ synced
    <2>2. adv \in BOOLEAN
      OBVIOUS
    <2>3. nim' = [nim EXCEPT !.peer = NoCentral, !.adv = adv, !.synced = synced,
                             !.enc = FALSE, !.phase = "idle", !.left = <<>>,
                             !.term = FALSE, !.sub = {}]
      BY <2>1
    <2> HIDE DEF adv
    <2> QED
      BY <2>2, <2>3, ZenonT(60) DEF PolicyInv, PolicyType, HostRecord, OptionalCentral
  <1>10. UNCHANGED <<seen, now>>
    BY DEF LinkGone
  <1>11. PolicyType'
    BY <1>3, <1>6, <1>8, <1>10 DEF PolicyInv, PolicyType, SameBudget
  <1>12. TrustInv'
    BY <1>3, <1>7, <1>8, <1>10 DEF PolicyInv, TrustInv, WindowInv, KeysInv, HostInv,
           TrustedLinkHasBond, OrphanInv, Stored
  <1>13. RoomInv'
    BY <1>7 DEF PolicyInv, RoomInv
  <1>14. DropInv'
    BY <1>3, <1>8, <1>10 DEF DropInv, PolicyInv
  <1> QED
    BY <1>3, <1>8, <1>11, <1>12, <1>13, <1>14 DEF PolicyInv

LEMMA DisconnectStep == PolicyInv /\ Disconnect => PolicyInv'
  BY LinkGoneStep DEF Disconnect, SameBudget, PolicyInv, PolicyType

LEMMA HostResetStep == PolicyInv /\ HostReset => PolicyInv'
  <1> SUFFICES ASSUME PolicyInv, HostReset PROVE PolicyInv'
    OBVIOUS
  <1>1. SameBudget
    BY SpendFacts DEF HostReset, PolicyInv
  <1>2. CASE nim.peer # NoCentral
    BY <1>1, <1>2, LinkGoneStep DEF HostReset
  <1>3. CASE nim.peer = NoCentral
    <2>1. UNCHANGED <<now, s, store, seen>> /\ nim' = [nim EXCEPT !.synced = FALSE, !.adv = FALSE]
      BY <1>3 DEF HostReset
    <2>2. SameHost /\ SameSeen /\ SameBonds /\ Kept(s, s')
      BY <2>1 DEF PolicyInv, PolicyType, HostRecord, SameHost, SameSeen, SameBonds, Kept
    <2> QED
      BY <1>1, <2>1, <2>2, EventStep DEF PolicyInv, PolicyType
  <1> QED
    BY <1>2, <1>3

-----------------------------------------------------------------------------
(* The drop timers after a disconnect was scheduled or the deadline moved. *)
SameLink ==
  /\ UNCHANGED now /\ nim'.peer = nim.peer /\ nim'.term = nim.term
  /\ s' \in PolicyRecord /\ s'.conn = s.conn /\ s'.link.connectedAt = s.link.connectedAt
  /\ seen' \in SeenRecord({seen'.waits}) /\ seen'.linkAt = seen.linkAt
  /\ seen'.trusted \in {seen.trusted, now}
  /\ s.link.accepted /\ ~s'.link.accepted => seen'.trusted = now

LEMMA BoundGrows ==
  ASSUME PolicyInv, SameLink
  PROVE  /\ Bound \in Nat /\ Bound' \in Nat /\ Bound' >= Bound
         /\ s.link.accepted /\ ~s'.link.accepted => now <= Bound'
  <1>1. /\ now \in Nat /\ seen.linkAt \in Nat /\ seen.trusted \in Nat /\ AbsoluteLimit \in Nat
        /\ seen.trusted <= now
    BY PolicyAssumption DEF PolicyInv, PolicyType, SeenRecord, DropInv
  <1>2. /\ seen'.linkAt = seen.linkAt /\ seen'.trusted \in {seen.trusted, now}
        /\ s.link.accepted /\ ~s'.link.accepted => seen'.trusted = now
    BY DEF SameLink
  <1> QED
    BY <1>1, <1>2 DEF Bound, Later

LEMMA DropBasics ==
  ASSUME PolicyInv, SameLink
  PROVE  /\ nim'.peer # NoCentral => s'.link.connectedAt = seen'.linkAt
         /\ seen'.linkAt <= now' /\ seen'.trusted <= now'
  <1>1. /\ nim'.peer = nim.peer /\ s'.link.connectedAt = s.link.connectedAt /\ now' = now
        /\ seen'.linkAt = seen.linkAt /\ seen'.trusted \in {seen.trusted, now}
    BY DEF SameLink
  <1>2. /\ nim.peer # NoCentral => s.link.connectedAt = seen.linkAt
        /\ seen.linkAt <= now /\ seen.trusted <= now /\ now \in Nat
    BY DEF PolicyInv, DropInv, PolicyType
  <1> QED
    BY <1>1, <1>2

LEMMA BoundPlus ==
  ASSUME NEW b \in Nat, NEW c \in Nat, NEW m \in Nat, NEW n \in Nat, b <= c
  PROVE  /\ n <= b => n <= b + m
         /\ n <= b + m => n <= b + 2 * m
         /\ n <= b + m => n <= c + m
         /\ n <= b + 2 * m => n <= c + 2 * m
         /\ n <= b => n <= c
  OBVIOUS

LEMMA DropScheduled ==
  ASSUME PolicyInv, SameLink, s.conn # NoCentral, s'.dropConn = s.conn,
         s'.tDisc = IF s.tDisc = Never THEN now ELSE s.tDisc
  PROVE  DropInv'
  <1>0. now \in Nat /\ s'.tDisc # Never /\ s'.tDisc \in Nat /\ s'.tDisc <= now
        /\ (s.tDisc # Never => s'.tDisc = s.tDisc)
    BY PolicyAssumption DEF PolicyInv, PolicyType, PolicyRecord, OptionalTime, DropInv
  <1>1. /\ Bound \in Nat /\ Bound' \in Nat /\ Bound' >= Bound /\ MaxLate \in Nat
        /\ s.link.accepted /\ ~s'.link.accepted => now <= Bound'
    BY BoundGrows, CompanionAssumption
  <1>2. s.link.accepted \/ nim.term \/ (now <= Bound + 2 * MaxLate /\ s'.tDisc <= Bound + MaxLate)
    <2> SUFFICES ASSUME ~s.link.accepted, ~nim.term
                 PROVE  now <= Bound + 2 * MaxLate /\ s'.tDisc <= Bound + MaxLate
      OBVIOUS
    <2> DEFINE b == Bound
    <2>0. b \in Nat /\ MaxLate \in Nat
      BY <1>1
    <2> HIDE DEF b
    <2>1. CASE now <= b + MaxLate
      <3>1. now <= b + 2 * MaxLate
        BY <1>0, <2>0, <2>1
      <3>2. s'.tDisc <= b + MaxLate
        BY <1>0, <2>0, <2>1
      <3> QED
        BY <3>1, <3>2 DEF b
    <2>2. CASE s.tDisc # Never /\ s.tDisc <= b + MaxLate /\ now <= b + 2 * MaxLate
      BY <1>0, <2>2 DEF b
    <2>3. s.conn = nim.peer
      BY DEF PolicyInv
    <2> QED
      BY <2>1, <2>2, <2>3 DEF PolicyInv, DropInv, b
  <1>3. s'.conn = s.conn /\ now' = now /\ nim'.term = nim.term
    BY DEF SameLink
  <1>4. ASSUME ~s'.link.accepted, ~nim'.term
        PROVE  now <= Bound' + 2 * MaxLate /\ s'.tDisc <= Bound' + MaxLate
    <2> DEFINE d == s'.tDisc
    <2>0. d \in Nat /\ d <= now /\ now \in Nat
      BY <1>0
    <2> HIDE DEF d
    <2>1. CASE now <= Bound'
      <3> DEFINE b == Bound'
      <3>1. b \in Nat /\ MaxLate \in Nat /\ now <= b
        BY <1>1, <2>1
      <3> HIDE DEF b
      <3>2. now <= b + 2 * MaxLate
        BY <2>0, <3>1
      <3>3. d <= b + MaxLate
        BY <2>0, <3>1
      <3> QED
        BY <3>2, <3>3 DEF b, d
    <2>2. CASE now <= Bound + 2 * MaxLate /\ s'.tDisc <= Bound + MaxLate
      <3>1. d <= Bound' + MaxLate
        BY <1>1, <2>0, <2>2, BoundPlus DEF d
      <3>2. now <= Bound' + 2 * MaxLate
        BY <1>1, <2>0, <2>2, BoundPlus
      <3> QED
        BY <3>1, <3>2 DEF d
    <2>3. now <= Bound' \/ (now <= Bound + 2 * MaxLate /\ s'.tDisc <= Bound + MaxLate)
      BY <1>1, <1>2, <1>3, <1>4, Zenon
    <2> QED
      BY <2>1, <2>2, <2>3
  <1> QED
    BY <1>0, <1>3, <1>4, DropBasics DEF DropInv

LEMMA DropRearmed ==
  ASSUME PolicyInv, SameLink, s'.dropConn = s.dropConn, s'.tDisc = s.tDisc,
         s.conn # NoCentral /\ ~s'.link.accepted
           => s'.tDrop \in Nat /\ s'.tDrop <= s.link.connectedAt + AbsoluteLimit
  PROVE  DropInv'
  <1>0. /\ now \in Nat /\ seen.linkAt \in Nat /\ seen.linkAt + AbsoluteLimit <= Bound'
        /\ Bound \in Nat /\ Bound' \in Nat /\ Bound' >= Bound /\ MaxLate \in Nat
        /\ s.link.accepted /\ ~s'.link.accepted => now <= Bound'
    <2>1. /\ now \in Nat /\ seen.linkAt \in Nat /\ seen.trusted \in Nat
          /\ seen'.linkAt = seen.linkAt /\ seen'.trusted \in {seen.trusted, now}
          /\ AbsoluteLimit \in Nat /\ MaxLate \in Nat
      BY PolicyAssumption, CompanionAssumption DEF PolicyInv, PolicyType, SameLink, SeenRecord
    <2>2. seen.linkAt + AbsoluteLimit <= Bound'
      BY <2>1 DEF Bound, Later
    <2> QED
      BY <2>1, <2>2, BoundGrows
  <1>1. s.conn # NoCentral /\ ~s'.link.accepted => s'.tDrop # Never /\ s'.tDrop <= Bound'
    <2>1. s.conn = nim.peer /\ (s.conn # NoCentral => s.link.connectedAt = seen.linkAt)
      BY DEF PolicyInv, DropInv
    <2>2. AbsoluteLimit \in Nat /\ Never \notin Nat
      BY PolicyAssumption
    <2> QED
      BY <1>0, <2>1, <2>2
  <1>2. s.conn = nim.peer /\ s'.conn = s.conn /\ nim'.peer = nim.peer /\ nim'.term = nim.term
        /\ now' = now
    BY DEF PolicyInv, SameLink
  <1>3. s'.tDisc # Never => s'.tDisc <= now' /\ s'.dropConn = s'.conn /\ s'.conn # NoCentral
    BY <1>2 DEF PolicyInv, DropInv
  <1>4. ASSUME s.conn # NoCentral, ~s'.link.accepted, ~nim.term
        PROVE  \/ now <= Bound' + MaxLate
               \/ s.tDisc # Never /\ s.tDisc <= Bound' + MaxLate /\ now <= Bound' + 2 * MaxLate
    <2>1. CASE s.link.accepted
      <3>1. now <= Bound'
        BY <1>0, <1>4, <2>1, Zenon
      <3> QED
        BY <1>0, <3>1
    <2>2. CASE now <= Bound + MaxLate
      BY <1>0, <2>2, BoundPlus
    <2>3. CASE s.tDisc \in Nat /\ s.tDisc # Never /\ s.tDisc <= Bound + MaxLate
               /\ now <= Bound + 2 * MaxLate
      <3>1. s.tDisc <= Bound' + MaxLate
        BY <1>0, <2>3, BoundPlus
      <3>2. now <= Bound' + 2 * MaxLate
        BY <1>0, <2>3, BoundPlus
      <3> QED
        BY <2>3, <3>1, <3>2
    <2>4. s.tDisc # Never => s.tDisc \in Nat
      BY DEF PolicyInv, PolicyType, PolicyRecord, OptionalTime
    <2>5. \/ s.link.accepted
          \/ now <= Bound + MaxLate
          \/ s.tDisc # Never /\ s.tDisc <= Bound + MaxLate /\ now <= Bound + 2 * MaxLate
      BY <1>2, <1>4 DEF PolicyInv, DropInv
    <2> QED
      BY <2>1, <2>2, <2>3, <2>4, <2>5
  <1> QED
    BY <1>1, <1>2, <1>3, <1>4, DropBasics DEF DropInv

LEMMA PduFacts ==
  ASSUME NEW x \in PolicyRecord, now \in Nat
  PROVE  LET y == accepted_pairing_pdu(x)
         IN  /\ y \in PolicyRecord /\ y.closes = x.closes /\ y.slot = x.slot
             /\ y.conn = x.conn /\ y.refused = x.refused /\ y.dropConn = x.dropConn
             /\ y.tDisc = x.tDisc /\ y.link = [x.link EXCEPT !.idleSince = now]
             /\ y.conn # NoCentral /\ ~y.link.accepted
                  => y.tDrop \in Nat /\ y.tDrop <= x.link.connectedAt + AbsoluteLimit
  <1> DEFINE z == [x EXCEPT !.link.idleSince = now]
  <1>1. /\ z \in PolicyRecord /\ z.link = [x.link EXCEPT !.idleSince = now]
        /\ z.closes = x.closes /\ z.slot = x.slot /\ z.tDisc = x.tDisc
        /\ z.conn = x.conn /\ z.refused = x.refused /\ z.dropConn = x.dropConn
    <2>1. x.link \in LinkRecord /\ [x.link EXCEPT !.idleSince = now] \in LinkRecord
      BY DEF PolicyRecord, LinkRecord
    <2> DEFINE link == [x.link EXCEPT !.idleSince = now]
    <2>2. z = [x EXCEPT !.link = link]
      BY DEF PolicyRecord
    <2> HIDE DEF link, z
    <2> QED
      BY <2>1, <2>2 DEF PolicyRecord, link
  <1>2. z.link.connectedAt = x.link.connectedAt
    BY <1>1 DEF PolicyRecord, LinkRecord
  <1> HIDE DEF z
  <1>3. rearm_drop_timer(z) = [z EXCEPT !.tDrop = rearm_drop_timer(z).tDrop]
    BY <1>1, RearmFacts
  <1>4. /\ rearm_drop_timer(z) \in PolicyRecord
        /\ z.conn # NoCentral /\ ~z.link.accepted
              => /\ rearm_drop_timer(z).tDrop \in Nat
                 /\ rearm_drop_timer(z).tDrop <= x.link.connectedAt + AbsoluteLimit
    BY <1>1, <1>2, RearmFacts
  <1>5. accepted_pairing_pdu(x) = rearm_drop_timer(z)
    BY DEF accepted_pairing_pdu, z
  <1> DEFINE y == rearm_drop_timer(z)
  <1>6. /\ y.closes = z.closes /\ y.slot = z.slot /\ y.conn = z.conn /\ y.refused = z.refused
        /\ y.dropConn = z.dropConn /\ y.tDisc = z.tDisc /\ y.link = z.link
    BY <1>1, <1>3 DEF PolicyRecord
  <1> QED
    BY <1>1, <1>4, <1>5, <1>6

LEMMA DeleteFacts ==
  ASSUME NEW st \in StoreRecord, NEW c \in Centrals
  PROVE  /\ DeletePeer(st, c) \in StoreRecord
         /\ DeletePeer(st, c).our = st.our \ {c} /\ DeletePeer(st, c).peer = st.peer \ {c}
         /\ DeletePeer(st, c).orphans = st.orphans
  BY DEF DeletePeer, StoreRecord

LEMMA RoomShrinks ==
  ASSUME RoomInv, store'.our \subseteq store.our, store'.peer \subseteq store.peer
  PROVE  RoomInv'
  <1>1. IsFiniteSet(store'.our) /\ Cardinality(store'.our) <= Cardinality(store.our)
    BY FS_Subset DEF RoomInv
  <1>2. IsFiniteSet(store'.peer) /\ Cardinality(store'.peer) <= Cardinality(store.peer)
    BY FS_Subset DEF RoomInv
  <1>3. /\ Cardinality(store'.our) \in Nat /\ Cardinality(store.our) \in Nat
        /\ Cardinality(store'.peer) \in Nat /\ Cardinality(store.peer) \in Nat
    BY <1>1, <1>2, FS_CardinalityType DEF RoomInv
  <1> QED
    BY <1>1, <1>2, <1>3, CompanionAssumption DEF RoomInv

-----------------------------------------------------------------------------
(* Steps of a standing link that only rearm a timer or schedule a drop. *)
Near(x, y) ==
  /\ y.conn = x.conn /\ y.refused = x.refused /\ y.dropConn = x.dropConn /\ y.tDisc = x.tDisc
  /\ y.link.connectedAt = x.link.connectedAt /\ y.link.keys = x.link.keys
  /\ y.link.accepted = x.link.accepted

LEMMA TrustKept ==
  ASSUME PolicyInv, SameBudget, SameHost, SameSeen, SameBonds, UNCHANGED now,
         s' \in PolicyRecord, s'.slot # "stock", s'.closes \in {s.closes, Never},
         s'.conn = s.conn, s'.refused = s.refused, s'.link.connectedAt = s.link.connectedAt,
         s'.link.keys = s.link.keys, s'.link.accepted = s.link.accepted, DropInv'
  PROVE  PolicyInv'
  <1> USE DEF PolicyInv
  <1>1. PolicyType'
    BY DEF PolicyType, SameBudget, SameHost, SameSeen, SameBonds
  <1>2. TrustInv'
    BY DEF TrustInv, WindowInv, KeysInv, HostInv, TrustedLinkHasBond, OrphanInv, Stored,
           SameHost, SameSeen, SameBonds
  <1>3. RoomInv' /\ (s.conn = nim.peer)'
    BY DEF RoomInv, SameBonds, SameHost
  <1> QED
    BY <1>1, <1>2, <1>3

LEMMA SeenKept ==
  ASSUME PolicyInv, SameHost, SameSeen, UNCHANGED now, s' \in PolicyRecord, s'.conn = s.conn,
         s'.link.connectedAt = s.link.connectedAt, s'.link.accepted = s.link.accepted
  PROVE  SameLink
  BY DEF SameLink, SameHost, SameSeen

LEMMA ScheduleStep ==
  ASSUME PolicyInv, NEW x \in PolicyRecord, Near(s, x), x.slot # "stock",
         x.closes \in {s.closes, Never}, s.conn # NoCentral,
         s' = schedule_disconnect(x, s.conn), SameBudget, SameHost, SameSeen, SameBonds,
         UNCHANGED now
  PROVE  PolicyInv'
  <1>1. s.conn \in OptionalCentral /\ now \in Nat
    BY DEF PolicyInv, PolicyType, PolicyRecord
  <1>2. /\ s' \in PolicyRecord
        /\ s' = [x EXCEPT !.dropConn = s.conn, !.tDisc = IF @ = Never THEN now ELSE @]
    BY <1>1, ScheduleFacts
  <1>3. /\ s'.slot = x.slot /\ s'.closes = x.closes /\ s'.conn = x.conn
        /\ s'.refused = x.refused /\ s'.link = x.link /\ s'.dropConn = s.conn
        /\ s'.tDisc = IF x.tDisc = Never THEN now ELSE x.tDisc
    BY <1>2 DEF PolicyRecord
  <1>4. SameLink
    BY <1>2, <1>3, SeenKept DEF Near
  <1>5. DropInv'
    BY <1>3, <1>4, DropScheduled DEF Near
  <1> QED
    BY <1>2, <1>3, <1>5, TrustKept DEF Near

LEMMA RearmStep ==
  ASSUME PolicyInv, NEW x \in PolicyRecord, Near(s, x), x.slot # "stock",
         x.closes \in {s.closes, Never}, s' = rearm_drop_timer(x),
         SameBudget, SameHost, SameSeen, SameBonds, UNCHANGED now
  PROVE  PolicyInv'
  <1>1. /\ s' = [x EXCEPT !.tDrop = s'.tDrop] /\ s' \in PolicyRecord
        /\ x.conn # NoCentral /\ ~x.link.accepted
             => s'.tDrop \in Nat /\ s'.tDrop <= x.link.connectedAt + AbsoluteLimit
    BY RearmFacts
  <1>2. /\ s'.slot = x.slot /\ s'.closes = x.closes /\ s'.conn = x.conn
        /\ s'.refused = x.refused /\ s'.link = x.link /\ s'.dropConn = x.dropConn
        /\ s'.tDisc = x.tDisc
    BY <1>1 DEF PolicyRecord
  <1>3. SameLink
    BY <1>1, <1>2, SeenKept DEF Near
  <1>4. DropInv'
    BY <1>1, <1>2, <1>3, DropRearmed DEF Near
  <1> QED
    BY <1>1, <1>2, <1>4, TrustKept DEF Near

LEMMA QuietFacts ==
  ASSUME PolicyInv
  PROVE  /\ UNCHANGED budget => SameBudget
         /\ UNCHANGED nim => SameHost
         /\ UNCHANGED seen => SameSeen
         /\ UNCHANGED store => SameBonds
  BY DEF PolicyInv, PolicyType, SameBudget, SameHost, SameSeen, SameBonds

LEMMA WindowTimerStep == PolicyInv /\ WindowTimer => PolicyInv'
  <1> SUFFICES ASSUME PolicyInv, WindowTimer PROVE PolicyInv'
    OBVIOUS
  <1> DEFINE x == [s EXCEPT !.tWindow = Never]
  <1>1. x \in PolicyRecord /\ Kept(s, x) /\ x.closes = s.closes /\ x.slot # "stock" /\ now \in Nat
    BY DEF PolicyInv, PolicyType, PolicyRecord, OptionalTime, Kept
  <1> HIDE DEF x
  <1>2. s' = apply_window_state(x) /\ UNCHANGED <<now, nim, store, budget, seen>>
    BY DEF WindowTimer, x
  <1>3. /\ s' \in PolicyRecord /\ Kept(s, s') /\ s'.closes \in {s.closes, Never}
        /\ s'.slot # "stock"
    BY <1>1, <1>2, WindowFacts DEF Kept
  <1> QED
    BY <1>2, <1>3, QuietFacts, EventStep

LEMMA DropTimerStep == PolicyInv /\ DropTimer => PolicyInv'
  <1> SUFFICES ASSUME PolicyInv, DropTimer PROVE PolicyInv'
    OBVIOUS
  <1> DEFINE x == [s EXCEPT !.tDrop = Never]
  <1>1. /\ x \in PolicyRecord /\ Near(s, x) /\ x.closes = s.closes /\ x.slot # "stock"
        /\ x.link = s.link
    BY DEF PolicyInv, PolicyType, PolicyRecord, OptionalTime, Near
  <1> HIDE DEF x
  <1>2. /\ s' = IF s.conn = NoCentral THEN x
                ELSE IF MustDrop(s.link, now) THEN schedule_disconnect(x, s.conn)
                ELSE rearm_drop_timer(x)
        /\ UNCHANGED <<now, nim, store, budget, seen>>
    BY DEF DropTimer, x
  <1>3. SameBudget /\ SameHost /\ SameSeen /\ SameBonds
    BY <1>2, QuietFacts
  <1>4. CASE s.conn = NoCentral
    <2>1. s' = x /\ nim.peer = NoCentral /\ nim'.peer = NoCentral
      BY <1>2, <1>4 DEF PolicyInv
    <2>2. DropInv'
      BY <1>1, <1>2, <1>4, <2>1 DEF DropInv, PolicyInv, Near
    <2> QED
      BY <1>1, <1>2, <1>3, <2>1, <2>2, TrustKept DEF Near
  <1>5. CASE s.conn # NoCentral
    BY <1>1, <1>2, <1>3, <1>5, ScheduleStep, RearmStep
  <1> QED
    BY <1>4, <1>5

LEMMA DisconnectTimerStep == PolicyInv /\ DisconnectTimer => PolicyInv'
  <1> SUFFICES ASSUME PolicyInv, DisconnectTimer PROVE PolicyInv'
    OBVIOUS
  <1>1. s.tDisc # Never /\ s.dropConn = s.conn /\ s.conn # NoCentral /\ s.conn = nim.peer
    BY DEF DisconnectTimer, Fires, PolicyInv, DropInv
  <1>2. /\ s' \in PolicyRecord /\ Kept([s EXCEPT !.tDisc = Never, !.dropConn = NoCentral], s')
        /\ s'.closes = s.closes /\ s'.slot = s.slot /\ s'.tDisc = Never /\ s'.conn = s.conn
        /\ s'.link = s.link /\ s'.refused = s.refused
    BY DEF DisconnectTimer, PolicyInv, PolicyType, PolicyRecord, OptionalTime, OptionalCentral,
           Kept
  <1>3. /\ nim' \in HostRecord /\ nim'.peer = nim.peer /\ nim'.enc = nim.enc
        /\ nim'.phase = nim.phase /\ nim'.term = TRUE
    <2> DEFINE term == nim.term \/ (s.dropConn # NoCentral /\ s.dropConn = nim.peer)
    <2>1. term = TRUE
      BY <1>1
    <2>2. nim' = [nim EXCEPT !.term = TRUE]
      <3>1. nim' = [nim EXCEPT !.term = term]
        BY DEF DisconnectTimer, PolicyInv, PolicyType, HostRecord
      <3> HIDE DEF term
      <3> QED
        BY <2>1, <3>1
    <2> QED
      BY <2>2 DEF PolicyInv, PolicyType, HostRecord
  <1>4. UNCHANGED <<now, store, budget, seen>>
    BY DEF DisconnectTimer
  <1>5. PolicyType'
    BY <1>2, <1>3, <1>4 DEF PolicyInv, PolicyType
  <1>6. TrustInv'
    BY <1>2, <1>3, <1>4 DEF PolicyInv, TrustInv, WindowInv, KeysInv, HostInv,
       TrustedLinkHasBond, OrphanInv, Stored
  <1>7. RoomInv' /\ (s.conn = nim.peer)' /\ s'.slot # "stock"
    BY <1>2, <1>3, <1>4 DEF PolicyInv, RoomInv
  <1>8. DropInv'
    BY <1>2, <1>3, <1>4 DEF PolicyInv, DropInv
  <1> QED
    BY <1>5, <1>6, <1>7, <1>8 DEF PolicyInv

LEMMA SampleStep == PolicyInv /\ (SampleLive \/ SampleExt) => PolicyInv'
  <1> SUFFICES ASSUME PolicyInv, SampleLive \/ SampleExt PROVE PolicyInv'
    OBVIOUS
  <1>1. UNCHANGED <<now, s, nim, store, budget>>
    BY DEF SampleLive, SampleExt, policy
  <1>2. seen' = seen \/ \E k \in Streams : \E waits : seen' = SentFrame(k, waits)
    BY DEF SampleLive, SampleExt, Streams
  <1>3. SameSeen
    <2>1. CASE seen' = seen
      BY <2>1, QuietFacts
    <2>2. ASSUME NEW k \in Streams, NEW waits, seen' = SentFrame(k, waits)
          PROVE  SameSeen
      <3> DEFINE soon == seen.tooSoon \/ (seen.frame[k] # Never
                                            /\ now < seen.frame[k] + FrameInterval)
                 frame == [seen.frame EXCEPT ![k] = now]
                 sent == [seen.sent EXCEPT ![k] = @ + 1]
      <3>1. /\ soon \in BOOLEAN /\ frame \in [Streams -> OptionalTime]
            /\ sent \in [Streams -> Nat]
        BY DEF PolicyInv, PolicyType, SeenRecord, OptionalTime
      <3>2. seen' = [seen EXCEPT !.frame = frame, !.sent = sent, !.waits = waits,
                                 !.tooSoon = soon]
        BY <2>2 DEF SentFrame, PolicyInv, PolicyType, SeenRecord
      <3> HIDE DEF soon, frame, sent
      <3> QED
        BY <3>1, <3>2 DEF PolicyInv, PolicyType, SeenRecord, SameSeen
    <2> QED
      BY <1>2, <2>1, <2>2
  <1>4. s' \in PolicyRecord /\ Kept(s, s') /\ s'.closes \in {s.closes, Never} /\ s'.slot # "stock"
    BY <1>1 DEF PolicyInv, PolicyType, Kept
  <1> QED
    BY <1>1, <1>3, <1>4, QuietFacts, EventStep

LEMMA ReadingStep ==
  PolicyInv /\ ((\E id, i : Publish(id, i)) \/ mark_telemetry_started) => PolicyInv'
  <1> SUFFICES ASSUME PolicyInv, (\E id, i : Publish(id, i)) \/ mark_telemetry_started
               PROVE  PolicyInv'
    OBVIOUS
  <1>1. UNCHANGED <<now, s, nim, store, seen>> /\ SameBudget
    BY SpendFacts, QuietFacts DEF Publish, mark_telemetry_started, policy, PolicyInv
  <1>2. s' \in PolicyRecord /\ Kept(s, s') /\ s'.closes \in {s.closes, Never} /\ s'.slot # "stock"
    BY <1>1 DEF PolicyInv, PolicyType, Kept
  <1> QED
    BY <1>1, <1>2, QuietFacts, EventStep

LEMMA TickStep == PolicyInv /\ Tick => PolicyInv'
  <1> SUFFICES ASSUME PolicyInv, Tick PROVE PolicyInv'
    OBVIOUS
  <1>1. UNCHANGED <<s, nim, store, budget, seen>> /\ now' = now + 1 /\ now < budget.time
    BY DEF Tick, policy
  <1>2. now \in Nat /\ budget.time \in Nat
    BY DEF PolicyInv, PolicyType, BudgetType
  <1>3. PolicyType'
    BY <1>1, <1>2 DEF PolicyInv, PolicyType
  <1>4. TrustInv' /\ RoomInv' /\ (s.conn = nim.peer)' /\ s'.slot # "stock"
    BY <1>1 DEF PolicyInv, TrustInv, WindowInv, KeysInv, HostInv, TrustedLinkHasBond, OrphanInv,
                Stored, RoomInv
  <1>5. /\ s.tDrop # Never => now < s.tDrop + MaxLate
        /\ s.tDisc # Never => now < s.tDisc + MaxLate
    BY DEF Tick
  <1>6. DropInv'
    <2> DEFINE b == Bound
    <2>1. /\ b \in Nat /\ b' = b /\ MaxLate \in Nat
          /\ s.tDrop # Never => s.tDrop \in Nat
          /\ s.tDisc # Never => s.tDisc \in Nat
      <3>1. seen.linkAt \in Nat /\ seen.trusted \in Nat
        BY DEF PolicyInv, PolicyType, SeenRecord
      <3> QED
        BY <1>1, <3>1, PolicyAssumption, CompanionAssumption
           DEF Bound, Later, PolicyInv, PolicyType, PolicyRecord, OptionalTime
    <2> HIDE DEF b
    <2>2. CASE s.tDrop # Never /\ s.tDrop <= b /\ now <= b + MaxLate
      <3>1. now + 1 <= b + MaxLate
        BY <1>2, <1>5, <2>1, <2>2
      <3> QED
        BY <1>1, <1>2, <2>1, <2>2, <3>1 DEF PolicyInv, DropInv, PolicyType, SeenRecord, b
    <2>3. CASE s.tDisc # Never /\ s.tDisc <= b + MaxLate /\ now <= b + 2 * MaxLate
      <3>1. now + 1 <= b + 2 * MaxLate
        BY <1>2, <1>5, <2>1, <2>3
      <3> QED
        BY <1>1, <1>2, <2>1, <2>3, <3>1 DEF PolicyInv, DropInv, PolicyType, SeenRecord, b
    <2>4. CASE ~(nim.peer # NoCentral /\ ~s.link.accepted /\ ~nim.term)
      <3>1. seen.linkAt <= now + 1 /\ seen.trusted <= now + 1
        BY <1>2 DEF PolicyInv, DropInv, PolicyType, SeenRecord
      <3>2. s.tDisc # Never => s.tDisc <= now + 1
        BY <1>2, <2>1 DEF PolicyInv, DropInv
      <3> QED
        BY <1>1, <2>4, <3>1, <3>2, Zenon DEF PolicyInv, DropInv
    <2> QED
      BY <2>2, <2>3, <2>4 DEF PolicyInv, DropInv, b
  <1> QED
    BY <1>3, <1>4, <1>6 DEF PolicyInv

-----------------------------------------------------------------------------
(* Protected access and the user key. *)
LEMMA CheckStep ==
  ASSUME PolicyInv, s' = check_protected_access, nim.peer # NoCentral, UNCHANGED now,
         SameBudget, SameHost, SameSeen, SameBonds
  PROVE  PolicyInv'
  <1> DEFINE link == AccessChecked(s.link, now, nim.enc)
             x == [s EXCEPT !.link = link]
  <1>1. /\ link \in LinkRecord /\ link.connectedAt = s.link.connectedAt
        /\ link.keys = s.link.keys /\ link.accepted = s.link.accepted
    BY DEF AccessChecked, Later, PolicyInv, PolicyType, PolicyRecord, LinkRecord
  <1> HIDE DEF link
  <1>2. x \in PolicyRecord /\ Near(s, x) /\ x.slot # "stock" /\ x.closes = s.closes
    BY <1>1 DEF PolicyInv, PolicyType, PolicyRecord, Near
  <1>3. s' = IF nim.peer # s.conn THEN s
             ELSE IF Answer = "InsufficientAuthenticationAndDisconnect"
             THEN schedule_disconnect(x, nim.peer) ELSE rearm_drop_timer(x)
    BY DEF check_protected_access, x, link
  <1> HIDE DEF x
  <1>4. nim.peer = s.conn
    BY DEF PolicyInv
  <1> QED
    BY <1>2, <1>3, <1>4, ScheduleStep, RearmStep

LEMMA RefusedStep == PolicyInv /\ Refused => PolicyInv'
  BY QuietFacts, CheckStep DEF Refused

LEMMA SelectPageStep ==
  ASSUME NEW k \in Selectors, NEW form, NEW token, NEW offset \in Pages
  PROVE  PolicyInv /\ SelectPage(k, form, token, offset) => PolicyInv'
  <1> SUFFICES ASSUME PolicyInv, SelectPage(k, form, token, offset) PROVE PolicyInv'
    OBVIOUS
  <1>1. SameBudget /\ UNCHANGED <<now, nim, store>> /\ nim.peer # NoCentral
        /\ s' = check_protected_access
    BY SpendFacts DEF SelectPage, Reached, PolicyInv
  <1>2. seen' = seen \/ seen' = [seen EXCEPT !.page = offset]
    BY DEF SelectPage
  <1>3. SameSeen
    BY <1>2, CompanionAssumption DEF PolicyInv, PolicyType, SeenRecord, SameSeen
  <1> QED
    BY <1>1, <1>3, QuietFacts, CheckStep

LEMMA KeyFacts ==
  ASSUME PolicyInv, NEW level \in {"Pressed", "Released"}
  PROVE  Sampled(s.key, level) \in [stable : {"Pressed", "Released"}, changed : Nat]
  BY PolicyAssumption DEF Sampled, PolicyInv, PolicyType, PolicyRecord

LEMMA UserKeyStep ==
  ASSUME NEW level \in {"Pressed", "Released"} PROVE PolicyInv /\ UserKey(level) => PolicyInv'
  <1> SUFFICES ASSUME PolicyInv, UserKey(level) PROVE PolicyInv'
    OBVIOUS
  <1> DEFINE z == [s EXCEPT !.key = Sampled(s.key, level)]
             x == ensure_store_guard(z)
             press == IsPress(s.key, level) /\ EnsureHolds(s.slot, s.orig)
  <1>1. z \in PolicyRecord /\ Kept(s, z) /\ z.closes = s.closes /\ z.slot # "stock"
    BY KeyFacts DEF PolicyInv, PolicyType, PolicyRecord, Kept
  <1>0. /\ s' = IF press THEN apply_window_state([x EXCEPT !.closes = now + WindowPeriod])
                ELSE IF IsPress(s.key, level) THEN x ELSE z
        /\ UNCHANGED <<now, nim, store>>
        /\ IF press THEN Spend("presses") /\ seen' = [seen EXCEPT !.press = now, !.used = FALSE]
           ELSE UNCHANGED <<budget, seen>>
    BY DEF UserKey, PolicyInv, PolicyType, PolicyRecord
  <1> HIDE DEF z
  <1>2. x \in PolicyRecord /\ Kept(s, x) /\ x.closes = s.closes /\ x.slot # "stock"
    BY <1>1, GuardFacts DEF Kept
  <1> HIDE DEF x
  <1>3. CASE ~press
    <2>1. UNCHANGED <<now, nim, store, budget, seen>> /\ s' \in {x, z}
      BY <1>0, <1>3
    <2>2. /\ s' \in PolicyRecord /\ Kept(s, s') /\ s'.closes \in {s.closes, Never}
          /\ s'.slot # "stock"
      BY <1>1, <1>2, <2>1
    <2> QED
      BY <2>1, <2>2, QuietFacts, EventStep
  <1>4. CASE press
    <2> DEFINE y == [x EXCEPT !.closes = now + WindowPeriod]
    <2>1. now \in Nat /\ now + WindowPeriod \in Nat
      BY PolicyAssumption DEF PolicyInv, PolicyType
    <2>2. y \in PolicyRecord /\ Kept(s, y) /\ y.closes = now + WindowPeriod /\ y.slot # "stock"
      BY <1>2, <2>1 DEF PolicyRecord, OptionalTime, Kept
    <2>3. s' = apply_window_state(y)
      BY <1>0, <1>4
    <2> HIDE DEF y
    <2>4. /\ s' \in PolicyRecord /\ Kept(s, s') /\ s'.closes \in {now + WindowPeriod, Never}
          /\ s'.slot # "stock"
      BY <2>1, <2>2, <2>3, WindowFacts DEF Kept
    <2>5. /\ seen' \in SeenRecord({seen'.waits}) /\ seen'.press = now /\ seen'.used = FALSE
          /\ seen'.linkAt = seen.linkAt /\ seen'.trusted = seen.trusted
      BY <1>0, <1>4, <2>1 DEF PolicyInv, PolicyType, SeenRecord, OptionalTime
    <2>6. SameBudget /\ UNCHANGED <<now, nim, store>>
      BY <1>0, <1>4, SpendFacts DEF PolicyInv
    <2>7. PolicyType'
      BY <2>4, <2>5, <2>6 DEF PolicyInv, PolicyType, SameBudget
    <2>8. WindowInv'
      BY <2>1, <2>4, <2>5, PolicyAssumption DEF WindowInv
    <2>9. KeysInv' /\ HostInv' /\ TrustedLinkHasBond' /\ OrphanInv'
      BY <2>4, <2>6 DEF PolicyInv, TrustInv, KeysInv, HostInv, TrustedLinkHasBond, OrphanInv,
                        Stored, Kept
    <2>10. RoomInv' /\ (s.conn = nim.peer)'
      BY <2>4, <2>6 DEF PolicyInv, RoomInv, Kept
    <2>11. DropInv'
      BY <2>4, <2>5, <2>6 DEF PolicyInv, DropInv, Bound, Later, Kept
    <2> QED
      BY <2>4, <2>7, <2>8, <2>9, <2>10, <2>11 DEF PolicyInv, TrustInv
  <1> QED
    BY <1>3, <1>4

-----------------------------------------------------------------------------
(* Pairing, persisting and encryption changes. *)
LEMMA StoreFullFacts ==
  ASSUME PolicyInv, StoreFull
  PROVE  /\ s' \in PolicyRecord /\ Kept(s, s') /\ s'.closes = s.closes /\ s'.slot # "stock"
         /\ store' \in StoreRecord /\ store'.orphans = store.orphans
         /\ store'.our \subseteq store.our /\ store'.peer \subseteq store.peer
  <1>1. PICK reset \in BOOLEAN, oldest \in store.peer :
          PolicyBecomes(on_store_status(s, store, reset, oldest))
    BY DEF StoreFull
  <1> DEFINE x == [s EXCEPT !.slot = IF reset THEN "stock" ELSE @]
  <1>2. oldest \in Centrals /\ store \in StoreRecord /\ s \in PolicyRecord /\ s.slot # "stock"
    BY DEF PolicyInv, PolicyType, StoreRecord
  <1>3. x \in PolicyRecord /\ Kept(s, x) /\ x.closes = s.closes
    BY <1>2 DEF PolicyRecord, Kept
  <1>4. \/ s' = s /\ store' = store
        \/ s' = ensure_store_guard(x) /\ store' = DeletePeer(store, oldest)
    BY <1>1 DEF PolicyBecomes, on_store_status
  <1> HIDE DEF x
  <1>5. CASE s' = s /\ store' = store
    BY <1>2, <1>5 DEF Kept
  <1>6. CASE s' = ensure_store_guard(x) /\ store' = DeletePeer(store, oldest)
    BY <1>2, <1>3, <1>6, GuardFacts, DeleteFacts DEF Kept
  <1> QED
    BY <1>4, <1>5, <1>6

LEMMA DropKept ==
  ASSUME PolicyInv, Kept(s, s'), nim'.peer = nim.peer, nim'.term = nim.term, SameSeen,
         UNCHANGED now
  PROVE  DropInv'
  BY DEF PolicyInv, DropInv, Bound, Later, Kept, SameSeen

(* What a step of a pairing keeps: NimBLE's phase moves, bonds only go. *)
LEMMA PairingStep ==
  ASSUME PolicyInv, SameBudget, SameSeen, UNCHANGED now, nim' \in HostRecord,
         nim'.peer = nim.peer, nim.peer # NoCentral,
         s' \in PolicyRecord, s'.conn = s.conn, s'.refused = s.refused, s'.slot # "stock",
         s'.closes \in {s.closes, Never}, s'.link.keys = s.link.keys,
         store' \in StoreRecord, store'.orphans = store.orphans,
         store'.our \subseteq store.our, store'.peer \subseteq store.peer,
         nim'.phase = "exchange" \/ nim'.phase = "persist",
         nim'.phase = "exchange" => ~Stored(store', nim.peer),
         nim'.phase = "persist" => (Stored(store, nim.peer) => s.link.keys),
         nim'.enc = nim.enc \/ nim'.enc = TRUE, nim'.phase = "persist" => nim'.enc = TRUE,
         DropInv'
  PROVE  PolicyInv'
  <1>1. PolicyType'
    BY DEF PolicyInv, PolicyType, SameBudget, SameSeen
  <1>2. WindowInv'
    BY DEF PolicyInv, TrustInv, WindowInv, SameSeen
  <1>3. KeysInv'
    BY DEF PolicyInv, TrustInv, KeysInv, Stored
  <1>4. HostInv' /\ TrustedLinkHasBond'
    BY DEF PolicyInv, TrustInv, HostInv, TrustedLinkHasBond
  <1>5. OrphanInv'
    BY DEF PolicyInv, TrustInv, OrphanInv
  <1>6. RoomInv'
    BY RoomShrinks DEF PolicyInv
  <1> QED
    BY <1>1, <1>2, <1>3, <1>4, <1>5, <1>6 DEF PolicyInv, TrustInv

LEMMA PairingRequestStep == PolicyInv /\ PairingRequest => PolicyInv'
  <1> SUFFICES ASSUME PolicyInv, PairingRequest PROVE PolicyInv'
    OBVIOUS
  <1> DEFINE c == nim.peer
             x == AtEvent
  <1>1. /\ c # NoCentral /\ c \in Centrals /\ nim.phase = "idle" /\ s.conn = c /\ now \in Nat
        /\ SameBudget /\ SameSeen /\ UNCHANGED now
    BY SpendFacts, QuietFacts
       DEF PairingRequest, PolicyInv, PolicyType, HostRecord, OptionalCentral
  <1>2. x \in PolicyRecord /\ Kept(s, x) /\ x.closes \in {s.closes, Never} /\ x.slot # "stock"
    BY EventFacts DEF PolicyInv
  <1>3. CASE Stored(store, c)
    <2>1. /\ s' = handle_repeat_pairing(x, store, c)[1]
          /\ store' = handle_repeat_pairing(x, store, c)[2]
          /\ nim' = [nim EXCEPT !.phase = IF Retries(x, c) THEN "exchange" ELSE "idle"]
      BY <1>3 DEF PairingRequest, PolicyBecomes
    <2> HIDE DEF x
    <2>2. CASE Retries(x, c)
      <3>1. s' = accepted_pairing_pdu(x) /\ store' = DeletePeer(store, c)
        BY <2>1, <2>2 DEF handle_repeat_pairing
      <3>2. /\ s' \in PolicyRecord /\ s'.closes = x.closes /\ s'.slot = x.slot
            /\ s'.conn = x.conn /\ s'.refused = x.refused /\ s'.dropConn = x.dropConn
            /\ s'.tDisc = x.tDisc /\ s'.link = [x.link EXCEPT !.idleSince = now]
            /\ s'.conn # NoCentral /\ ~s'.link.accepted
                 => s'.tDrop \in Nat /\ s'.tDrop <= x.link.connectedAt + AbsoluteLimit
        BY <1>1, <1>2, <3>1, PduFacts
      <3>3. /\ s'.link.keys = s.link.keys /\ s'.link.accepted = s.link.accepted
            /\ s'.link.connectedAt = s.link.connectedAt /\ x.link = s.link
        BY <1>2, <3>2 DEF PolicyRecord, LinkRecord, Kept
      <3>4. /\ store' \in StoreRecord /\ store'.our \subseteq store.our
            /\ store'.peer = store.peer \ {c} /\ store'.orphans = store.orphans
        BY <1>1, <3>1, DeleteFacts DEF PolicyInv, PolicyType
      <3>5. /\ nim' \in HostRecord /\ nim'.peer = nim.peer /\ nim'.phase = "exchange"
            /\ nim'.enc = nim.enc /\ nim'.term = nim.term
        BY <2>1, <2>2 DEF PolicyInv, PolicyType, HostRecord
      <3>6. SameLink
        BY <1>1, <1>2, <3>2, <3>3, <3>5 DEF SameLink, SameSeen, Kept
      <3>7. DropInv'
        BY <1>1, <1>2, <3>2, <3>3, <3>6, DropRearmed DEF Kept
      <3> QED
        BY <1>1, <1>2, <3>2, <3>3, <3>4, <3>5, <3>7, PairingStep DEF Kept, Stored
    <2>3. CASE ~Retries(x, c)
      <3>1. /\ s' = schedule_disconnect(x, c) /\ store' = store
            /\ nim' = [nim EXCEPT !.phase = "idle"]
        BY <2>1, <2>3 DEF handle_repeat_pairing
      <3>2. SameHost /\ SameBonds
        BY <1>1, <3>1, QuietFacts DEF PolicyInv, PolicyType, HostRecord, SameHost
      <3>3. Near(s, x)
        BY <1>2 DEF Near, Kept
      <3> QED
        BY <1>1, <1>2, <3>1, <3>2, <3>3, ScheduleStep
    <2> QED
      BY <2>2, <2>3
  <1>4. CASE ~Stored(store, c)
    <2>1. /\ IF Full(store, "our") THEN StoreFull ELSE UNCHANGED <<s, store>>
          /\ nim' = [nim EXCEPT !.phase = IF Full(store, "our") /\ ~WindowOpen(s.closes, now)
                                          THEN "idle" ELSE "exchange"]
      BY <1>4 DEF PairingRequest, policy
    <2>2. /\ s' \in PolicyRecord /\ Kept(s, s') /\ s'.closes = s.closes /\ s'.slot # "stock"
          /\ store' \in StoreRecord /\ store'.orphans = store.orphans
          /\ store'.our \subseteq store.our /\ store'.peer \subseteq store.peer
      <3>1. CASE UNCHANGED <<s, store>>
        BY <3>1 DEF PolicyInv, PolicyType, Kept
      <3> QED
        BY <2>1, <3>1, StoreFullFacts
    <2>3. CASE nim' = [nim EXCEPT !.phase = "exchange"]
      <3>1. /\ nim' \in HostRecord /\ nim'.peer = nim.peer /\ nim'.phase = "exchange"
            /\ nim'.enc = nim.enc /\ nim'.term = nim.term
        BY <2>3 DEF PolicyInv, PolicyType, HostRecord
      <3>2. DropInv'
        BY <1>1, <2>2, <3>1, DropKept
      <3> QED
        BY <1>1, <1>4, <2>2, <3>1, <3>2, PairingStep DEF Kept, Stored
    <2>4. CASE nim' = [nim EXCEPT !.phase = "idle"] /\ Full(store, "our")
               /\ ~WindowOpen(s.closes, now)
      <3>1. UNCHANGED <<s, store>>
        BY <2>1, <2>4 DEF StoreFull, PolicyBecomes, on_store_status
      <3>2. SameHost /\ SameBonds
        BY <1>1, <2>4, <3>1, QuietFacts DEF PolicyInv, PolicyType, HostRecord, SameHost
      <3> QED
        BY <1>1, <2>2, <3>1, <3>2, EventStep
    <2> QED
      BY <2>1, <2>3, <2>4
  <1> QED
    BY <1>3, <1>4

LEMMA PairingCompleteStep == PolicyInv /\ PairingComplete => PolicyInv'
  <1> SUFFICES ASSUME PolicyInv, PairingComplete PROVE PolicyInv'
    OBVIOUS
  <1> DEFINE x == AtEvent
  <1>1. /\ nim.peer # NoCentral /\ s.conn = nim.peer /\ now \in Nat /\ ~Stored(store, nim.peer)
        /\ SameBudget /\ SameSeen /\ UNCHANGED <<now, store>> /\ store \in StoreRecord
    BY QuietFacts DEF PairingComplete, PolicyInv, PolicyType, TrustInv, HostInv, KeysInv
  <1>2. x \in PolicyRecord /\ Kept(s, x) /\ x.closes \in {s.closes, Never} /\ x.slot # "stock"
    BY EventFacts DEF PolicyInv
  <1>3. s' = accepted_pairing_pdu(x)
    BY <1>1, <1>2 DEF PairingComplete, Kept
  <1> HIDE DEF x
  <1>4. /\ s' \in PolicyRecord /\ s'.closes = x.closes /\ s'.slot = x.slot
        /\ s'.conn = x.conn /\ s'.refused = x.refused /\ s'.dropConn = x.dropConn
        /\ s'.tDisc = x.tDisc /\ s'.link = [x.link EXCEPT !.idleSince = now]
        /\ s'.conn # NoCentral /\ ~s'.link.accepted
             => s'.tDrop \in Nat /\ s'.tDrop <= x.link.connectedAt + AbsoluteLimit
    BY <1>1, <1>2, <1>3, PduFacts
  <1>5. /\ s'.link.keys = s.link.keys /\ s'.link.accepted = s.link.accepted
        /\ s'.link.connectedAt = s.link.connectedAt /\ x.link = s.link
    BY <1>2, <1>4 DEF PolicyRecord, LinkRecord, Kept
  <1>6. /\ nim' \in HostRecord /\ nim'.peer = nim.peer /\ nim'.phase = "persist"
        /\ nim'.enc = TRUE /\ nim'.term = nim.term
    BY DEF PairingComplete, PolicyInv, PolicyType, HostRecord
  <1>7. SameLink
    BY <1>1, <1>2, <1>4, <1>5, <1>6 DEF SameLink, SameSeen, Kept
  <1>8. DropInv'
    BY <1>1, <1>2, <1>4, <1>5, <1>7, DropRearmed DEF Kept
  <1> QED
    BY <1>1, <1>2, <1>4, <1>5, <1>6, <1>8, PairingStep DEF Kept, Stored

LEMMA RoomForOne ==
  ASSUME NEW S, NEW c, IsFiniteSet(S), NEW max \in Nat, Cardinality(S) < max
  PROVE  IsFiniteSet(S \cup {c}) /\ Cardinality(S \cup {c}) <= max
  <1>1. /\ IsFiniteSet(S \cup {c}) /\ Cardinality(S) \in Nat
        /\ Cardinality(S \cup {c}) = IF c \in S THEN Cardinality(S) ELSE Cardinality(S) + 1
    BY FS_AddElement, FS_CardinalityType
  <1> QED
    BY <1>1

LEMMA WriteFacts ==
  ASSUME NEW st \in StoreRecord, NEW kind \in {"addr", "our", "peer"}, NEW c \in Centrals,
         IsFiniteSet(st.our), Cardinality(st.our) <= MaxBonds,
         IsFiniteSet(st.peer), Cardinality(st.peer) <= MaxBonds, ~Full(st, kind)
  PROVE  LET w == Write(st, kind, c)
         IN  /\ w \in StoreRecord /\ w.orphans = st.orphans
             /\ IsFiniteSet(w.our) /\ Cardinality(w.our) <= MaxBonds
             /\ IsFiniteSet(w.peer) /\ Cardinality(w.peer) <= MaxBonds
  <1> DEFINE w == Write(st, kind, c)
  <1>0. /\ MaxBonds \in Nat /\ Cardinality(st.our) \in Nat /\ Cardinality(st.peer) \in Nat
    BY CompanionAssumption, FS_CardinalityType
  <1>1. CASE kind = "addr"
    BY <1>1 DEF Write
  <1>2. CASE kind = "our"
    <2>0. w = [st EXCEPT !.our = st.our \cup {c}]
      <3>1. Write(st, "our", c) = [st EXCEPT !.our = st.our \cup {c}]
        BY DEF Write, StoreRecord
      <3> QED
        BY <1>2, <3>1
    <2>1. /\ w \in StoreRecord /\ w.our = st.our \cup {c} /\ w.peer = st.peer
          /\ w.orphans = st.orphans
      BY <2>0 DEF StoreRecord
    <2>2. Cardinality(st.our) < MaxBonds
      BY <1>0, <1>2 DEF Full
    <2>3. IsFiniteSet(w.our) /\ Cardinality(w.our) <= MaxBonds
      <3>1. /\ IsFiniteSet(st.our \cup {c})
            /\ Cardinality(st.our \cup {c}) <= MaxBonds
        BY <1>0, <2>2, RoomForOne
      <3> QED
        BY <2>1, <3>1
    <2> HIDE DEF w
    <2>4. QED
      BY <2>1, <2>3 DEF w
  <1>3. CASE kind = "peer"
    <2>0. w = [st EXCEPT !.peer = st.peer \cup {c}]
      <3>1. Write(st, "peer", c) = [st EXCEPT !.peer = st.peer \cup {c}]
        BY DEF Write, StoreRecord
      <3> QED
        BY <1>3, <3>1
    <2>1. /\ w \in StoreRecord /\ w.peer = st.peer \cup {c} /\ w.our = st.our
          /\ w.orphans = st.orphans
      BY <2>0 DEF StoreRecord
    <2>2. Cardinality(st.peer) < MaxBonds
      BY <1>0, <1>3 DEF Full
    <2>3. IsFiniteSet(w.peer) /\ Cardinality(w.peer) <= MaxBonds
      <3>1. /\ IsFiniteSet(st.peer \cup {c})
            /\ Cardinality(st.peer \cup {c}) <= MaxBonds
        BY <1>0, <2>2, RoomForOne
      <3> QED
        BY <2>1, <3>1
    <2> HIDE DEF w
    <2>4. QED
      BY <2>1, <2>3 DEF w
  <1> QED
    BY <1>1, <1>2, <1>3

LEMMA LeftFacts ==
  ASSUME NEW left \in {<<"addr", "our", "peer">>, <<"our", "peer">>, <<"peer">>, <<>>},
         left # <<>>
  PROVE  /\ Head(left) \in {"addr", "our", "peer"}
         /\ Tail(left) \in {<<"addr", "our", "peer">>, <<"our", "peer">>, <<"peer">>, <<>>}
  <1>1. CASE left = <<"addr", "our", "peer">>
    <2>1. Head(left) = "addr" /\ Tail(left) = <<"our", "peer">>
      BY <1>1
    <2> QED
      BY <2>1
  <1>2. CASE left = <<"our", "peer">>
    <2>1. Head(left) = "our" /\ Tail(left) = <<"peer">>
      BY <1>2
    <2> QED
      BY <2>1
  <1>3. CASE left = <<"peer">>
    <2>1. Head(left) = "peer" /\ Tail(left) = <<>>
      BY <1>3
    <2> QED
      BY <2>1
  <1> QED
    BY <1>1, <1>2, <1>3

LEMMA PersistRecordStep == PolicyInv /\ PersistRecord => PolicyInv'
  <1> SUFFICES ASSUME PolicyInv, PersistRecord PROVE PolicyInv'
    OBVIOUS
  <1> DEFINE kind == Head(nim.left)
             c == nim.peer
  <1>1. /\ nim.phase = "persist" /\ nim.left # <<>> /\ c # NoCentral /\ c \in Centrals
        /\ s.conn = c /\ nim.enc = TRUE /\ now \in Nat
        /\ SameBudget /\ SameSeen /\ UNCHANGED now /\ s \in PolicyRecord /\ s.slot # "stock"
        /\ store \in StoreRecord /\ nim \in HostRecord
    BY QuietFacts DEF PersistRecord, PolicyInv, PolicyType, TrustInv, HostInv, HostRecord,
                      OptionalCentral
  <1>2. kind \in {"addr", "our", "peer"}
        /\ Tail(nim.left) \in {<<"addr", "our", "peer">>, <<"our", "peer">>, <<"peer">>, <<>>}
    BY <1>1, LeftFacts DEF HostRecord
  <1> DEFINE tail == Tail(nim.left)
             stores == s.slot = "stock" \/ (s.orig /\ WindowOpen(s.closes, now))
  <1>3. nim' = nim \/ nim' = [nim EXCEPT !.left = tail]
    BY DEF PersistRecord
  <1> HIDE DEF tail
  <1>4. /\ nim' \in HostRecord /\ nim'.peer = c /\ nim'.phase = "persist" /\ nim'.enc = TRUE
        /\ nim'.term = nim.term
    BY <1>1, <1>2, <1>3 DEF HostRecord, tail
  <1>5. \/ StoreFull
        \/ /\ ~(stores /\ Full(store, kind))
           /\ s' = guarded_store_write(s, store, kind, c)[1]
           /\ store' = guarded_store_write(s, store, kind, c)[2]
    BY DEF PersistRecord, PolicyBecomes
  <1>6. CASE StoreFull
    <2>1. /\ s' \in PolicyRecord /\ Kept(s, s') /\ s'.closes = s.closes /\ s'.slot # "stock"
          /\ store' \in StoreRecord /\ store'.orphans = store.orphans
          /\ store'.our \subseteq store.our /\ store'.peer \subseteq store.peer
      BY <1>6, StoreFullFacts
    <2>2. DropInv'
      BY <1>1, <1>4, <2>1, DropKept
    <2>3. Stored(store, c) => s.link.keys
      BY <1>1 DEF PolicyInv, TrustInv, KeysInv
    <2> QED
      BY <1>1, <1>4, <2>1, <2>2, <2>3, PairingStep DEF Kept
  <1>7. CASE ~s.orig /\ UNCHANGED <<s, store>>
    <2>1. SameHost /\ SameBonds /\ Kept(s, s')
      BY <1>1, <1>4, <1>7, QuietFacts DEF SameHost, Kept
    <2> QED
      BY <1>1, <1>7, <2>1, EventStep
  <1>8. CASE /\ ~WindowOpen(s.closes, now)
             /\ \/ s' = [s EXCEPT !.lvl = "reject", !.refused = c]
                   /\ store' = [store EXCEPT !.orphans = @ \cup {c}]
                \/ s' = [s EXCEPT !.lvl = "reject"] /\ store' = store
    <2>1. /\ s' \in PolicyRecord /\ s'.conn = c /\ s'.slot # "stock" /\ s'.closes = s.closes
          /\ s'.link = s.link /\ s'.dropConn = s.dropConn /\ s'.tDrop = s.tDrop
          /\ s'.tDisc = s.tDisc
      BY <1>1, <1>8, ZenonT(60) DEF PolicyRecord, OptionalCentral
    <2>2. /\ store' \in StoreRecord /\ store'.our = store.our /\ store'.peer = store.peer
      BY <1>1, <1>8 DEF StoreRecord
    <2>3. OrphanInv'
      <3>1. store.orphans \subseteq {c} /\ s.refused \in {NoCentral, c}
            /\ store.orphans \subseteq {s.refused}
        BY <1>1, CompanionAssumption DEF PolicyInv, TrustInv, OrphanInv, StoreRecord
      <3>2. \/ s'.refused = c /\ store'.orphans = store.orphans \cup {c}
            \/ s'.refused = s.refused /\ store'.orphans = store.orphans
        BY <1>1, <1>8 DEF PolicyRecord, StoreRecord
      <3> QED
        BY <1>4, <3>1, <3>2 DEF OrphanInv
    <2>4. KeysInv' /\ HostInv' /\ TrustedLinkHasBond' /\ WindowInv'
      BY <1>1, <1>4, <2>1, <2>2 DEF PolicyInv, TrustInv, KeysInv, HostInv, TrustedLinkHasBond,
         WindowInv, Stored, SameSeen
    <2>5. DropInv'
      BY <1>1, <1>4, <2>1 DEF PolicyInv, DropInv, Bound, Later, SameSeen
    <2>6. RoomInv' /\ PolicyType'
      BY <1>1, <1>4, <2>1, <2>2 DEF PolicyInv, RoomInv, PolicyType, SameBudget, SameSeen
    <2> QED
      BY <1>4, <2>1, <2>3, <2>4, <2>5, <2>6 DEF PolicyInv, TrustInv
  <1>9. CASE /\ s.orig /\ WindowOpen(s.closes, now) /\ ~Full(store, kind)
             /\ s' = [s EXCEPT !.link.keys = TRUE] /\ store' = Write(store, kind, c)
    <2> DEFINE link == [s.link EXCEPT !.keys = TRUE]
    <2>1. link \in LinkRecord /\ link.keys = TRUE /\ link.connectedAt = s.link.connectedAt
          /\ link.accepted = s.link.accepted
      BY <1>1 DEF PolicyRecord, LinkRecord
    <2>2. s' = [s EXCEPT !.link = link]
      BY <1>1, <1>9 DEF PolicyRecord
    <2> HIDE DEF link
    <2>3. /\ s' \in PolicyRecord /\ s'.conn = c /\ s'.slot # "stock" /\ s'.closes = s.closes
          /\ s'.link = link /\ s'.dropConn = s.dropConn /\ s'.tDrop = s.tDrop
          /\ s'.tDisc = s.tDisc /\ s'.refused = s.refused
      BY <1>1, <2>1, <2>2 DEF PolicyRecord
    <2>4. /\ store' \in StoreRecord /\ store'.orphans = store.orphans
          /\ IsFiniteSet(store'.our) /\ Cardinality(store'.our) <= MaxBonds
          /\ IsFiniteSet(store'.peer) /\ Cardinality(store'.peer) <= MaxBonds
      BY <1>1, <1>2, <1>9, WriteFacts DEF PolicyInv, RoomInv
    <2>5. KeysInv' /\ HostInv' /\ TrustedLinkHasBond' /\ WindowInv' /\ OrphanInv'
      BY <1>1, <1>4, <2>1, <2>3, <2>4 DEF PolicyInv, TrustInv, KeysInv, HostInv,
         TrustedLinkHasBond, WindowInv, OrphanInv, SameSeen
    <2>6. DropInv'
      BY <1>1, <1>4, <2>1, <2>3 DEF PolicyInv, DropInv, Bound, Later, SameSeen
    <2>7. RoomInv' /\ PolicyType'
      BY <1>1, <1>4, <2>3, <2>4 DEF PolicyInv, RoomInv, PolicyType, SameBudget, SameSeen
    <2> QED
      BY <1>4, <2>3, <2>5, <2>6, <2>7 DEF PolicyInv, TrustInv
  <1>10. CASE /\ ~(stores /\ Full(store, kind))
              /\ s' = guarded_store_write(s, store, kind, c)[1]
              /\ store' = guarded_store_write(s, store, kind, c)[2]
    <2>1. CASE ~s.orig
      BY <1>1, <1>7, <1>10, <2>1 DEF guarded_store_write
    <2>2. CASE s.orig /\ ~WindowOpen(s.closes, now)
      BY <1>1, <1>8, <1>10, <2>2 DEF guarded_store_write
    <2>3. CASE s.orig /\ WindowOpen(s.closes, now)
      BY <1>1, <1>9, <1>10, <2>3 DEF guarded_store_write
    <2> QED
      BY <2>1, <2>2, <2>3
  <1> QED
    BY <1>5, <1>6, <1>10

(* What the policy does with an encryption change: the bond is accepted, or *)
(* the link is to end and an exchange's keys are deleted.                   *)
EncGood ==
  /\ s'.link.accepted = TRUE /\ store' = store /\ s'.refused = s.refused
  /\ s'.dropConn = s.dropConn /\ s'.tDisc = s.tDisc /\ (s.link.keys => s'.closes = Never)
EncBad ==
  /\ s'.link.accepted = FALSE /\ s'.refused = NoCentral /\ store'.orphans = {}
  /\ store'.our \subseteq store.our
  /\ store'.peer = store.peer \/ (s.link.keys /\ store'.peer = store.peer \ {nim.peer})
  /\ s'.dropConn = s.conn /\ s'.tDisc = IF s.tDisc = Never THEN now ELSE s.tDisc

LEMMA EncryptionFacts ==
  ASSUME PolicyInv, NEW ok \in BOOLEAN, NEW full \in BOOLEAN, nim.peer # NoCentral,
         PolicyBecomes(handle_encryption_change(AtEvent, store, nim.peer, ok, TRUE, full))
  PROVE  /\ s' \in PolicyRecord /\ s'.conn = s.conn /\ s'.slot # "stock"
         /\ s'.closes \in {s.closes, Never}
         /\ s'.link.connectedAt = s.link.connectedAt /\ s'.link.keys = s.link.keys
         /\ store' \in StoreRecord
         /\ IF ok /\ full /\ Stored(store, nim.peer) THEN EncGood ELSE EncBad
  <1> DEFINE c == nim.peer
             x == AtEvent
             good == ok /\ TRUE /\ full /\ Stored(store, c)
             link == LinkEncrypted(x.link, good)
             y == [x EXCEPT !.link = link]
  <1>1. /\ c \in Centrals /\ s.conn = c /\ now \in Nat /\ s \in PolicyRecord
        /\ store \in StoreRecord /\ c \in OptionalCentral /\ good \in BOOLEAN
    BY DEF PolicyInv, PolicyType, HostRecord, OptionalCentral, Stored
  <1>2. /\ x \in PolicyRecord /\ Kept(s, x) /\ x.closes \in {s.closes, Never}
        /\ x.slot # "stock" /\ x.conn = c /\ x.link = s.link
    BY <1>1, EventFacts DEF PolicyInv, Kept
  <1>3. /\ s' = handle_encryption_change(x, store, c, ok, TRUE, full)[1]
        /\ store' = handle_encryption_change(x, store, c, ok, TRUE, full)[2]
    BY DEF PolicyBecomes
  <1> HIDE DEF x
  <1>4. /\ Verdict(x.link, good) = "NewBondAccepted" =>
             /\ s' = rearm_drop_timer(apply_window_state([y EXCEPT !.closes = Never]))
             /\ store' = store
        /\ Verdict(x.link, good) = "BondRestored" =>
             s' = rearm_drop_timer(y) /\ store' = store
        /\ Verdict(x.link, good) = "RejectedDeleteKeys" =>
             /\ s' = schedule_disconnect(RefusedForgotten(y), c)
             /\ store' = delete_refused_peer_records(x, DeletePeer(store, c))
        /\ Verdict(x.link, good) = "Rejected" =>
             /\ s' = schedule_disconnect(RefusedForgotten(y), c)
             /\ store' = delete_refused_peer_records(x, store)
    BY <1>2, <1>3 DEF handle_encryption_change, Verdict
  <1> HIDE DEF good
  <1>5. /\ link \in LinkRecord /\ link.connectedAt = s.link.connectedAt
        /\ link.keys = s.link.keys /\ link.accepted = good
    BY <1>1, <1>2 DEF LinkEncrypted, PolicyRecord, LinkRecord
  <1> HIDE DEF link
  <1>6. /\ y \in PolicyRecord /\ y.conn = c /\ y.slot # "stock" /\ y.closes = x.closes
        /\ y.link = link /\ y.refused = s.refused /\ y.dropConn = s.dropConn
        /\ y.tDisc = s.tDisc
    BY <1>1, <1>2, <1>5 DEF PolicyRecord, Kept
  <1> HIDE DEF y
  <1>7. CASE good
    <2>1. link.accepted = TRUE /\ x.link.keys \in BOOLEAN
      BY <1>2, <1>5, <1>7 DEF PolicyRecord, LinkRecord
    <2>2. CASE x.link.keys
      <3> DEFINE z == [y EXCEPT !.closes = Never]
                 w == apply_window_state(z)
      <3>1. s' = rearm_drop_timer(w) /\ store' = store
        BY <1>4, <1>7, <2>2 DEF Verdict
      <3>2. /\ z \in PolicyRecord /\ z.closes = Never /\ z.conn = c /\ z.slot # "stock"
            /\ z.link = link /\ z.refused = s.refused /\ z.dropConn = s.dropConn
            /\ z.tDisc = s.tDisc
        BY <1>6 DEF PolicyRecord, OptionalTime
      <3> HIDE DEF z
      <3>3. /\ w \in PolicyRecord /\ w.closes = Never /\ w.conn = c /\ w.slot # "stock"
            /\ w.link = link /\ w.refused = s.refused /\ w.dropConn = s.dropConn
            /\ w.tDisc = s.tDisc
        BY <1>1, <3>2, WindowFacts DEF Kept
      <3> HIDE DEF w
      <3>4. s' = [w EXCEPT !.tDrop = s'.tDrop] /\ s' \in PolicyRecord
        BY <3>1, <3>3, RearmFacts
      <3>5. /\ s'.closes = Never /\ s'.conn = c /\ s'.slot # "stock"
            /\ s'.link = link /\ s'.refused = s.refused /\ s'.dropConn = s.dropConn
            /\ s'.tDisc = s.tDisc
        BY <3>3, <3>4 DEF PolicyRecord
      <3> QED
        BY <1>1, <1>5, <1>7, <2>1, <3>1, <3>4, <3>5 DEF EncGood, good
    <2>3. CASE ~x.link.keys
      <3>1. s' = rearm_drop_timer(y) /\ store' = store
        BY <1>4, <1>7, <2>3 DEF Verdict
      <3>2. s' = [y EXCEPT !.tDrop = s'.tDrop] /\ s' \in PolicyRecord
        BY <1>6, <3>1, RearmFacts
      <3>3. /\ s'.closes = x.closes /\ s'.conn = c /\ s'.slot # "stock"
            /\ s'.link = link /\ s'.refused = s.refused /\ s'.dropConn = s.dropConn
            /\ s'.tDisc = s.tDisc
        BY <1>6, <3>2 DEF PolicyRecord
      <3> QED
        BY <1>1, <1>2, <1>5, <1>7, <2>1, <2>3, <3>1, <3>2, <3>3 DEF EncGood, good
    <2> QED
      BY <2>2, <2>3
  <1>8. CASE ~good
    <2> DEFINE z == RefusedForgotten(y)
    <2>1. s' = schedule_disconnect(z, c)
      BY <1>4, <1>8 DEF Verdict
    <2>2. /\ z \in PolicyRecord /\ z.closes = x.closes /\ z.conn = c /\ z.slot # "stock"
          /\ z.link = link /\ z.refused = NoCentral /\ z.tDisc = s.tDisc
      BY <1>6 DEF RefusedForgotten, PolicyRecord, OptionalCentral
    <2> HIDE DEF z
    <2>3. /\ s' \in PolicyRecord
          /\ s' = [z EXCEPT !.dropConn = c, !.tDisc = IF @ = Never THEN now ELSE @]
      BY <1>1, <2>1, <2>2, ScheduleFacts
    <2>4. /\ s'.closes = x.closes /\ s'.conn = c /\ s'.slot # "stock"
          /\ s'.link = link /\ s'.refused = NoCentral /\ s'.dropConn = c
          /\ s'.tDisc = IF s.tDisc = Never THEN now ELSE s.tDisc
      BY <2>2, <2>3 DEF PolicyRecord
    <2>5. link.accepted = FALSE /\ x.link.keys \in BOOLEAN
      BY <1>1, <1>2, <1>5, <1>8 DEF PolicyRecord, LinkRecord
    <2>6. /\ store' \in StoreRecord /\ store'.orphans = {} /\ store'.our \subseteq store.our
          /\ store'.peer = store.peer \/ (s.link.keys /\ store'.peer = store.peer \ {c})
      <3> DEFINE gone == DeletePeer(store, c)
      <3>1. /\ gone \in StoreRecord /\ gone.our = store.our \ {c}
            /\ gone.peer = store.peer \ {c} /\ gone.orphans = store.orphans
        BY <1>1, DeleteFacts
      <3> HIDE DEF gone
      <3>2. x.refused = s.refused /\ store.orphans \subseteq {s.refused}
            /\ (s.refused = NoCentral => store.orphans = {})
        BY <1>1, <1>2, CompanionAssumption DEF Kept, PolicyInv, TrustInv, OrphanInv, StoreRecord
      <3>3. CASE x.link.keys
        <4>1. store' = delete_refused_peer_records(x, gone)
          BY <1>4, <1>8, <3>3 DEF Verdict, gone
        <4> QED
          BY <1>1, <1>2, <3>1, <3>2, <3>3, <4>1 DEF delete_refused_peer_records, StoreRecord
      <3>4. CASE ~x.link.keys
        <4>1. store' = delete_refused_peer_records(x, store)
          BY <1>4, <1>8, <3>4 DEF Verdict
        <4> QED
          BY <1>1, <1>2, <3>2, <4>1 DEF delete_refused_peer_records, StoreRecord
      <3> QED
        BY <3>3, <3>4
    <2> QED
      BY <1>1, <1>2, <1>5, <1>8, <2>3, <2>4, <2>5, <2>6 DEF EncBad, good
  <1> QED
    BY <1>7, <1>8, <1>1

(* A judged encryption change leaves NimBLE idle, or restoring subscriptions. *)
LEMMA JudgedStep ==
  ASSUME PolicyInv, NEW ok \in BOOLEAN, NEW full \in BOOLEAN, NEW paired \in BOOLEAN,
         nim.peer # NoCentral, Encryption(ok, full), Judged(paired),
         nim' \in HostRecord, nim'.peer = nim.peer, nim'.term = nim.term,
         nim'.phase \in {"idle", "restoring"}, nim'.phase = "restoring" => nim'.enc,
         s.link.keys => nim'.enc,
         ok /\ full /\ Stored(store, nim.peer) => nim'.enc /\ (paired => s.link.keys),
         UNCHANGED <<now, budget>>
  PROVE  PolicyInv'
  <1> DEFINE good == ok /\ full /\ Stored(store, nim.peer)
  <1>1. /\ s' \in PolicyRecord /\ s'.conn = s.conn /\ s'.slot # "stock"
        /\ s'.closes \in {s.closes, Never}
        /\ s'.link.connectedAt = s.link.connectedAt /\ s'.link.keys = s.link.keys
        /\ store' \in StoreRecord
        /\ IF good THEN EncGood ELSE EncBad
    BY EncryptionFacts DEF Encryption
  <1> HIDE DEF good
  <1>2. /\ s.conn = nim.peer /\ now \in Nat /\ s \in PolicyRecord
    BY DEF PolicyInv, PolicyType
  <1>3. /\ seen' \in SeenRecord({seen'.waits}) /\ seen'.press = seen.press
        /\ seen'.linkAt = seen.linkAt
        /\ seen'.trusted = (IF s.link.accepted THEN now ELSE seen.trusted)
        /\ (paired /\ s'.link.accepted) \/ seen'.used = seen.used
    <2> DEFINE used == seen.used \/ (paired /\ s'.link.accepted)
               revoked == seen.revoked \/ (s.link.accepted /\ ~s'.link.accepted)
               trusted == IF s.link.accepted THEN now ELSE seen.trusted
    <2>1. used \in BOOLEAN /\ revoked \in BOOLEAN /\ trusted \in Nat
          /\ ((paired /\ s'.link.accepted) \/ used = seen.used)
      BY <1>2 DEF PolicyInv, PolicyType, SeenRecord
    <2>2. seen' = [seen EXCEPT !.used = used, !.revoked = revoked, !.trusted = trusted]
      BY DEF Judged, PolicyInv, PolicyType, SeenRecord
    <2>3. trusted = IF s.link.accepted THEN now ELSE seen.trusted
      OBVIOUS
    <2> HIDE DEF used, revoked, trusted
    <2>4. /\ seen' \in SeenRecord({seen'.waits}) /\ seen'.press = seen.press
          /\ seen'.linkAt = seen.linkAt /\ seen'.trusted = trusted /\ seen'.used = used
      BY <2>1, <2>2 DEF PolicyInv, PolicyType, SeenRecord
    <2> QED
      BY <2>1, <2>3, <2>4
  <1>4. s'.link.accepted \in BOOLEAN /\ s.link.accepted \in BOOLEAN
    BY <1>1, <1>2 DEF PolicyRecord, LinkRecord
  <1>5. SameLink
    BY <1>1, <1>3, <1>4 DEF SameLink
  <1>6. DropInv'
    <2>1. CASE good
      BY <1>1, <1>2, <1>5, <2>1, DropRearmed DEF EncGood
    <2>2. CASE ~good
      BY <1>1, <1>2, <1>5, <2>2, DropScheduled DEF EncBad
    <2> QED
      BY <2>1, <2>2
  <1>7. PolicyType'
    BY <1>1, <1>3 DEF PolicyInv, PolicyType
  <1>8. WindowInv'
    <2>1. CASE s'.closes = Never
      BY <2>1 DEF WindowInv
    <2>2. CASE s'.closes # Never
      <3>1. ~(paired /\ s'.link.accepted)
        BY <1>1, <1>4, <2>2 DEF EncGood, EncBad, good
      <3> QED
        BY <1>1, <1>3, <2>2, <3>1 DEF PolicyInv, TrustInv, WindowInv
    <2> QED
      BY <2>1, <2>2
  <1>9. KeysInv' /\ HostInv'
    BY <1>1 DEF KeysInv, HostInv
  <1>10. TrustedLinkHasBond'
    BY <1>1, <1>4 DEF TrustedLinkHasBond, EncGood, EncBad, good, Stored
  <1>11. OrphanInv'
    BY <1>1 DEF PolicyInv, TrustInv, OrphanInv, EncGood, EncBad
  <1>12. RoomInv'
    <2>1. store'.our \subseteq store.our /\ store'.peer \subseteq store.peer
      BY <1>1 DEF EncGood, EncBad
    <2> QED
      BY <2>1, RoomShrinks DEF PolicyInv
  <1> QED
    BY <1>1, <1>2, <1>6, <1>7, <1>8, <1>9, <1>10, <1>11, <1>12 DEF PolicyInv, TrustInv

LEMMA PairingEndsStep == PolicyInv /\ PairingEnds => PolicyInv'
  <1> SUFFICES ASSUME PolicyInv, PairingEnds PROVE PolicyInv'
    OBVIOUS
  <1>1. /\ nim.peer # NoCentral /\ nim.enc = TRUE /\ nim.fullKey \in BOOLEAN
        /\ Stored(store, nim.peer) => s.link.keys
    BY DEF PairingEnds, PolicyInv, PolicyType, TrustInv, HostInv, KeysInv, HostRecord
  <1>2. /\ nim' \in HostRecord /\ nim'.peer = nim.peer /\ nim'.term = nim.term
        /\ nim'.phase = "idle" /\ nim'.enc = TRUE
    BY <1>1 DEF PairingEnds, PolicyInv, PolicyType, HostRecord
  <1>3. Encryption(TRUE, nim.fullKey) /\ Judged(TRUE) /\ UNCHANGED <<now, budget>>
    BY DEF PairingEnds
  <1> QED
    BY <1>1, <1>2, <1>3, JudgedStep

LEMMA PairingFailsStep == PolicyInv /\ PairingFails => PolicyInv'
  <1> SUFFICES ASSUME PolicyInv, PairingFails PROVE PolicyInv'
    OBVIOUS
  <1>1. nim.peer # NoCentral /\ (s.link.keys => nim.enc)
    BY DEF PairingFails, PolicyInv, TrustInv, HostInv
  <1>2. /\ nim' \in HostRecord /\ nim'.peer = nim.peer /\ nim'.term = nim.term
        /\ nim'.phase = "idle" /\ nim'.enc = nim.enc
    BY DEF PairingFails, PolicyInv, PolicyType, HostRecord
  <1>3. Encryption(FALSE, FALSE) /\ Judged(FALSE) /\ UNCHANGED <<now, budget>>
    BY DEF PairingFails
  <1> QED
    BY <1>1, <1>2, <1>3, JudgedStep

LEMMA ReencryptStep == ASSUME NEW ok \in BOOLEAN PROVE PolicyInv /\ Reencrypt(ok) => PolicyInv'
  <1> SUFFICES ASSUME PolicyInv, Reencrypt(ok) PROVE PolicyInv'
    OBVIOUS
  <1>1. nim.peer # NoCentral /\ ~s.link.keys
    BY DEF Reencrypt, PolicyInv, TrustInv, HostInv
  <1> DEFINE phase == IF ok /\ store.subs[nim.peer] # {} THEN "restoring" ELSE "idle"
  <1>2. nim' = [nim EXCEPT !.enc = ok, !.phase = phase]
    BY DEF Reencrypt
  <1>3. phase \in {"idle", "restoring"} /\ (phase = "restoring" => ok)
    OBVIOUS
  <1> HIDE DEF phase
  <1>4. /\ nim' \in HostRecord /\ nim'.peer = nim.peer /\ nim'.term = nim.term
        /\ nim'.phase = phase /\ nim'.enc = ok
    BY <1>2, <1>3 DEF PolicyInv, PolicyType, HostRecord
  <1>5. Encryption(ok, TRUE) /\ Judged(FALSE) /\ UNCHANGED <<now, budget>>
    BY DEF Reencrypt
  <1> QED
    BY <1>1, <1>3, <1>4, <1>5, JudgedStep

-----------------------------------------------------------------------------
(* The registered attributes: a command is answered through the guard. *)
LEMMA Joined ==
  ASSUME NEW a, NEW b, NEW c, NEW d, NEW e, NEW f, NEW g, NEW h
  PROVE  LET t == <<a>> \o <<b, c, d>> \o <<e, f, g, h>>
         IN  /\ DOMAIN t = 1 .. 8 /\ Len(t) = 8
             /\ t[1] = a /\ t[2] = b /\ t[3] = c /\ t[4] = d
             /\ t[5] = e /\ t[6] = f /\ t[7] = g /\ t[8] = h
  OBVIOUS

Fits(x) ==  /\ x.attribute \in DOMAIN Profiles
          /\ x.flags = Profiles[x.attribute].flags
          /\ x.open = Profiles[x.attribute].open
LEMMA ProfilesFollowed ==
  /\ Fits(device_info_characteristic) /\ Fits(config_characteristic)
  /\ Fits(config_status_characteristic) /\ Fits(command_characteristic)
  /\ Fits(live_signals_characteristic) /\ Fits(signal_catalog_characteristic)
  /\ Fits(extensible_live_signals_characteristic) /\ Fits(output_catalog_characteristic)
  <1> USE DEF Fits, Profiles, Defined
  <1>1. Fits(device_info_characteristic) /\ Fits(config_characteristic)
    BY DEF device_info_characteristic, config_characteristic
  <1>2. Fits(config_status_characteristic) /\ Fits(command_characteristic)
    BY DEF config_status_characteristic, command_characteristic
  <1>3. Fits(live_signals_characteristic) /\ Fits(signal_catalog_characteristic)
    BY DEF live_signals_characteristic, signal_catalog_characteristic
  <1>4. Fits(extensible_live_signals_characteristic) /\ Fits(output_catalog_characteristic)
    BY DEF extensible_live_signals_characteristic, output_catalog_characteristic
  <1> QED
    BY <1>1, <1>2, <1>3, <1>4

LEMMA FittingServed ==
  ASSUME NEW t, Len(t) \in 1 .. kCompanionCharacteristicCount,
         \A i, j \in DOMAIN t : t[i].attribute = t[j].attribute => i = j,
         \A i \in DOMAIN t : Fits(t[i])
  PROVE  RegisterService(t) = {Registered(t[i]) : i \in DOMAIN t}
  <1>1. \A i \in DOMAIN t :
          /\ t[i].attribute \in DOMAIN Profiles
          /\ t[i].flags = Profiles[t[i].attribute].flags
          /\ t[i].open = Profiles[t[i].attribute].open
    BY DEF Fits
  <1> QED
    BY <1>1, Zenon DEF RegisterService

LEMMA CommandGuarded == "Command" \in Guarded
  <1> DEFINE t == ServiceTable(TRUE)
  <1>1. /\ DOMAIN t = 1 .. 8 /\ Len(t) = 8
        /\ t[1] = device_info_characteristic /\ t[2] = config_characteristic
        /\ t[3] = config_status_characteristic /\ t[4] = command_characteristic
        /\ t[5] = live_signals_characteristic /\ t[6] = signal_catalog_characteristic
        /\ t[7] = extensible_live_signals_characteristic /\ t[8] = output_catalog_characteristic
    BY Joined DEF ServiceTable
  <1> HIDE DEF t
  <1>2. \A i \in DOMAIN t : Fits(t[i])
    <2> HIDE DEF Fits
    <2> QED
      BY <1>1, ProfilesFollowed
  <1>3. \A i, j \in DOMAIN t : t[i].attribute = t[j].attribute => i = j
    BY <1>1 DEF Defined, device_info_characteristic, config_characteristic,
       config_status_characteristic, command_characteristic, live_signals_characteristic,
       signal_catalog_characteristic, extensible_live_signals_characteristic,
       output_catalog_characteristic
  <1>4. Len(t) \in 1 .. kCompanionCharacteristicCount
    BY <1>1 DEF kCompanionCharacteristicCount
  <1>5. AllRegistered = {Registered(t[i]) : i \in DOMAIN t}
    BY <1>2, <1>3, <1>4, FittingServed DEF AllRegistered, t
  <1>6. Registered(command_characteristic) \in AllRegistered
    BY <1>1, <1>5
  <1>7. /\ Registered(command_characteristic).guarded
        /\ Registered(command_characteristic).attribute = "Command"
    BY DEF Registered, command_characteristic, Defined
  <1> QED
    BY <1>6, <1>7 DEF Guarded

LEMMA ClearBondsStep ==
  PolicyInv /\ ClearBonds => PolicyInv' /\ s.link.accepted /\ ~s'.link.accepted
  <1> SUFFICES ASSUME PolicyInv, ClearBonds
               PROVE  PolicyInv' /\ s.link.accepted /\ ~s'.link.accepted
    OBVIOUS
  <1>1. /\ nim.peer # NoCentral /\ nim.phase \in {"idle", "exchange"} /\ s.conn = nim.peer
        /\ s \in PolicyRecord /\ store \in StoreRecord /\ now \in Nat /\ s.slot # "stock"
        /\ s.conn \in OptionalCentral /\ s.link \in LinkRecord
    BY DEF ClearBonds, Reached, PolicyInv, PolicyType, PolicyRecord
  <1>2. s.link.accepted = TRUE
    <2>1. Access(s.link, nim.enc, Stored(store, nim.peer)) = "Allow"
      BY CommandGuarded DEF ClearBonds, Reached, Answer
    <2> QED
      BY <1>1, <2>1 DEF Access, LinkRecord
  <1>3. SameBudget /\ UNCHANGED <<now, nim>> /\ seen' = [seen EXCEPT !.trusted = now, !.revoked = TRUE]
    BY SpendFacts DEF ClearBonds, PolicyInv
  <1> DEFINE v == check_protected_access
             link == [s.link EXCEPT !.accepted = FALSE]
             w == [v EXCEPT !.link = link]
             x == rearm_drop_timer(w)
  <1>4. PICK kept \in SUBSET store.peer :
          /\ s' = IF kept = {} THEN schedule_disconnect(x, nim.peer) ELSE x
          /\ store' = [store EXCEPT !.our = @ \cap kept, !.peer = kept,
                                    !.subs = [c \in Centrals |-> IF c \in kept THEN @[c] ELSE {}]]
    <2>1. v.link = s.link
      <3>1. v = rearm_drop_timer([s EXCEPT !.link = s.link])
        BY <1>1, <1>2 DEF check_protected_access, AccessChecked, Answer, Access
      <3>2. [s EXCEPT !.link = s.link] \in PolicyRecord
        BY <1>1 DEF PolicyRecord
      <3>3. v = [[s EXCEPT !.link = s.link] EXCEPT !.tDrop = v.tDrop]
        BY <3>1, <3>2, RearmFacts
      <3> QED
        BY <1>1, <3>3 DEF PolicyRecord
    <2>2. [v EXCEPT !.link.accepted = FALSE] = w
      BY <2>1
    <2> QED
      BY <2>2 DEF ClearBonds
  <1>5. /\ v \in PolicyRecord /\ v.closes = s.closes /\ v.slot = s.slot /\ v.conn = s.conn
        /\ v.refused = s.refused /\ v.dropConn = s.dropConn /\ v.tDisc = s.tDisc
    <2>1. v = rearm_drop_timer([s EXCEPT !.link = s.link])
      BY <1>1, <1>2 DEF check_protected_access, AccessChecked, Answer, Access
    <2>2. [s EXCEPT !.link = s.link] = s
      BY <1>1 DEF PolicyRecord
    <2>3. v = [s EXCEPT !.tDrop = v.tDrop] /\ v \in PolicyRecord
      BY <1>1, <2>1, <2>2, RearmFacts
    <2> QED
      BY <1>1, <2>3 DEF PolicyRecord
  <1> HIDE DEF v
  <1>6. /\ link \in LinkRecord /\ link.accepted = FALSE /\ link.keys = s.link.keys
        /\ link.connectedAt = s.link.connectedAt
    BY <1>1 DEF LinkRecord
  <1> HIDE DEF link
  <1>7. /\ w \in PolicyRecord /\ w.link = link /\ w.closes = s.closes /\ w.slot = s.slot
        /\ w.conn = s.conn /\ w.refused = s.refused /\ w.dropConn = s.dropConn
        /\ w.tDisc = s.tDisc
    BY <1>5, <1>6 DEF PolicyRecord
  <1> HIDE DEF w
  <1>8. /\ x = [w EXCEPT !.tDrop = x.tDrop] /\ x \in PolicyRecord
        /\ x.tDrop \in Nat /\ x.tDrop <= s.link.connectedAt + AbsoluteLimit
    BY <1>1, <1>6, <1>7, RearmFacts
  <1> HIDE DEF x
  <1>9. /\ x.link = link /\ x.closes = s.closes /\ x.slot = s.slot
        /\ x.conn = s.conn /\ x.refused = s.refused /\ x.dropConn = s.dropConn
        /\ x.tDisc = s.tDisc
    BY <1>7, <1>8 DEF PolicyRecord
  <1>10. /\ seen' \in SeenRecord({seen'.waits}) /\ seen'.press = seen.press
         /\ seen'.used = seen.used /\ seen'.linkAt = seen.linkAt /\ seen'.trusted = now
    BY <1>1, <1>3 DEF PolicyInv, PolicyType, SeenRecord
  <1>11. /\ store' \in StoreRecord /\ store'.our \subseteq store.our
         /\ store'.peer \subseteq store.peer /\ store'.orphans = store.orphans
    <2> DEFINE subs == [c \in Centrals |-> IF c \in kept THEN store.subs[c] ELSE {}]
               our == store.our \cap kept
    <2>1. /\ subs \in [Centrals -> SUBSET Streams] /\ our \in SUBSET Centrals
          /\ our \subseteq store.our /\ kept \in SUBSET Centrals
      BY <1>1 DEF StoreRecord
    <2>2. store' = [store EXCEPT !.our = our, !.peer = kept, !.subs = subs]
      BY <1>1, <1>4 DEF StoreRecord
    <2> HIDE DEF subs, our
    <2> QED
      BY <1>1, <2>1, <2>2 DEF StoreRecord
  <1>12. /\ s' \in PolicyRecord /\ s'.link = link /\ s'.closes = s.closes /\ s'.slot = s.slot
         /\ s'.conn = s.conn /\ s'.refused = s.refused
         /\ \/ s'.dropConn = s.conn /\ s'.tDisc = IF s.tDisc = Never THEN now ELSE s.tDisc
            \/ /\ s'.dropConn = s.dropConn /\ s'.tDisc = s.tDisc
               /\ s'.tDrop \in Nat /\ s'.tDrop <= s.link.connectedAt + AbsoluteLimit
    <2>1. CASE kept = {}
      <3>1. s' = schedule_disconnect(x, s.conn)
        BY <1>1, <1>4, <2>1
      <3>2. /\ s' \in PolicyRecord
            /\ s' = [x EXCEPT !.dropConn = s.conn, !.tDisc = IF @ = Never THEN now ELSE @]
        BY <1>1, <1>8, <3>1, ScheduleFacts
      <3> QED
        BY <1>8, <1>9, <3>2 DEF PolicyRecord
    <2>2. CASE kept # {}
      BY <1>4, <1>8, <1>9, <2>2
    <2> QED
      BY <2>1, <2>2
  <1>13. SameLink
    BY <1>3, <1>6, <1>10, <1>12 DEF SameLink
  <1>14. DropInv'
    BY <1>1, <1>12, <1>13, DropScheduled, DropRearmed
  <1>15. PolicyType'
    BY <1>3, <1>10, <1>11, <1>12 DEF PolicyInv, PolicyType, SameBudget
  <1>16. WindowInv' /\ HostInv' /\ OrphanInv'
    BY <1>3, <1>6, <1>10, <1>11, <1>12 DEF PolicyInv, TrustInv, WindowInv, HostInv, OrphanInv
  <1>17. KeysInv' /\ TrustedLinkHasBond'
    BY <1>1, <1>3, <1>6, <1>11, <1>12 DEF PolicyInv, TrustInv, KeysInv, TrustedLinkHasBond, Stored
  <1>18. RoomInv'
    BY <1>11, RoomShrinks DEF PolicyInv
  <1> QED
    BY <1>1, <1>2, <1>3, <1>6, <1>12, <1>14, <1>15, <1>16, <1>17, <1>18 DEF PolicyInv, TrustInv

LEMMA SubscribeStep ==
  ASSUME NEW k \in Streams, NEW on \in BOOLEAN PROVE PolicyInv /\ Subscribe(k, on) => PolicyInv'
  <1> SUFFICES ASSUME PolicyInv, Subscribe(k, on) PROVE PolicyInv'
    OBVIOUS
  <1>1. /\ nim.peer # NoCentral /\ s.conn = nim.peer /\ SameBudget /\ UNCHANGED now
    BY SpendFacts DEF Subscribe, PolicyInv
  <1>2. AtEvent \in PolicyRecord /\ Kept(s, AtEvent) /\ AtEvent.closes \in {s.closes, Never}
        /\ AtEvent.slot # "stock"
    BY EventFacts DEF PolicyInv
  <1>3. CASE link_has_accepted_bond(AtEvent, nim.peer)
    <2>1. s' = AtEvent /\ seen' = [seen EXCEPT !.waits = [h \in DOMAIN @ |-> 0]]
      BY <1>3 DEF Subscribe, Subscribed
    <2>2. SameSeen
      BY <2>1 DEF PolicyInv, PolicyType, SeenRecord, SameSeen
    <2> DEFINE sub == IF on THEN nim.sub \cup {k} ELSE nim.sub \ {k}
               kept == IF ~Stored(store, nim.peer) THEN store.subs[nim.peer] ELSE nim'.sub
               subs == [store.subs EXCEPT ![nim.peer] = kept]
    <2>3. nim' = [nim EXCEPT !.sub = sub] /\ sub \in SUBSET Streams
      BY <1>3 DEF Subscribe, PolicyInv, PolicyType, HostRecord
    <2>4. store' = [store EXCEPT !.subs = subs]
      BY <1>3 DEF Subscribe
    <2> HIDE DEF sub
    <2>5. SameHost /\ nim'.sub \in SUBSET Streams
      BY <2>3 DEF PolicyInv, PolicyType, HostRecord, SameHost
    <2>6. subs \in [Centrals -> SUBSET Streams]
      BY <2>5 DEF PolicyInv, PolicyType, StoreRecord
    <2> HIDE DEF subs
    <2>7. SameBonds
      BY <2>4, <2>6 DEF PolicyInv, PolicyType, StoreRecord, SameBonds
    <2> QED
      BY <1>1, <1>2, <2>1, <2>2, <2>5, <2>7, EventStep
  <1>4. CASE ~link_has_accepted_bond(AtEvent, nim.peer)
    <2>1. s' = schedule_disconnect(AtEvent, s.conn) /\ UNCHANGED <<nim, store, seen>>
      BY <1>1, <1>4 DEF Subscribe
    <2>2. Near(s, AtEvent)
      BY <1>2 DEF Kept, Near
    <2> QED
      BY <1>1, <1>2, <2>1, <2>2, QuietFacts, ScheduleStep
  <1> QED
    BY <1>3, <1>4

-----------------------------------------------------------------------------
LEMMA PolicyInit == Init => PolicyInv
  <1> SUFFICES ASSUME Init PROVE PolicyInv
    OBVIOUS
  <1> USE PolicyAssumption, CompanionAssumption
  <1>1. /\ budget \in BudgetType /\ IsFiniteSet(budget.bonds)
        /\ Cardinality(budget.bonds) <= MaxBonds
        /\ budget.bonds \in SUBSET Centrals /\ budget.subs \in SUBSET Streams
    <2>1. budget \in Budgets
      BY DEF Init
    <2> QED
      BY <2>1 DEF BudgetType, Streams
  <1>2. s \in PolicyRecord
    BY DEF Init, PolicyRecord, LinkRecord, NoLink, KeyAtBoot, OptionalTime, OptionalCentral
  <1>3. nim \in HostRecord
    BY DEF Init, HostRecord, OptionalCentral
  <1>4. store \in StoreRecord
    BY <1>1 DEF Init, StoreRecord
  <1>5. seen \in SeenRecord({seen.waits})
    BY DEF Init, SeenRecord, OptionalTime
  <1>6. now = 0 /\ now \in Nat /\ now <= budget.time
    BY <1>1 DEF Init, BudgetType
  <1>7. PolicyType
    BY <1>1, <1>2, <1>3, <1>4, <1>5, <1>6 DEF PolicyType
  <1>8. s.conn = nim.peer /\ s.slot # "stock" /\ nim.peer = NoCentral /\ s.closes = Never
        /\ nim.phase = "idle" /\ s.refused = NoCentral /\ s.tDisc = Never
        /\ store.orphans = {} /\ store.our = budget.bonds /\ store.peer = budget.bonds
        /\ seen.linkAt = 0 /\ seen.trusted = 0
    BY DEF Init
  <1>9. TrustInv
    BY <1>8 DEF TrustInv, WindowInv, KeysInv, HostInv, TrustedLinkHasBond, OrphanInv
  <1>10. RoomInv /\ DropInv
    BY <1>1, <1>6, <1>8 DEF RoomInv, DropInv
  <1> QED
    BY <1>7, <1>8, <1>9, <1>10 DEF PolicyInv

LEMMA PolicyNext == PolicyInv /\ [Next]_vars => PolicyInv'
  <1> SUFFICES ASSUME PolicyInv, [Next]_vars PROVE PolicyInv'
    OBVIOUS
  <1>1. CASE UNCHANGED vars
    BY <1>1 DEF vars, PolicyInv, PolicyType, TrustInv, WindowInv, KeysInv, HostInv,
       TrustedLinkHasBond, OrphanInv, RoomInv, DropInv, Bound, Stored
  <1>2. CASE BringUp \/ HostSync \/ HostReset \/ ConnectFails \/ Disconnect
    BY <1>2, BringUpStep, HostSyncStep, HostResetStep, ConnectFailsStep, DisconnectStep
  <1>3. CASE \/ \E c \in Centrals : Connect(c)
             \/ \E mtu \in Mtus : MtuAgreed(mtu)
    BY <1>3, ConnectStep, MtuStep
  <1>4. CASE \/ PairingRequest \/ PairingComplete \/ PersistRecord \/ PairingEnds \/ PairingFails
             \/ \E ok \in BOOLEAN : Reencrypt(ok)
    BY <1>4, PairingRequestStep, PairingCompleteStep, PersistRecordStep, PairingEndsStep,
       PairingFailsStep, ReencryptStep
  <1>5. CASE \E k \in Streams : Restore(k) \/ \E on \in BOOLEAN : Subscribe(k, on)
    BY <1>5, RestoreStep, SubscribeStep
  <1>6. CASE Refused \/ ClearBonds
    BY <1>6, RefusedStep, ClearBondsStep
  <1>7. CASE \E k \in Selectors, form \in {"ok", "length", "format"}, offset \in Pages :
               \E token \in 0 .. disc.next : SelectPage(k, form, token, offset)
    BY <1>7, SelectPageStep
  <1>8. CASE \E level \in {"Pressed", "Released"} : UserKey(level)
    BY <1>8, UserKeyStep
  <1>9. CASE WindowTimer \/ DropTimer \/ DisconnectTimer \/ SampleLive \/ SampleExt
    BY <1>9, WindowTimerStep, DropTimerStep, DisconnectTimerStep, SampleStep
  <1>10. CASE \/ \E id \in DOMAIN read.of, i \in DOMAIN Readings : Publish(id, i)
              \/ mark_telemetry_started \/ Tick
    BY <1>10, ReadingStep, TickStep
  <1> QED
    BY <1>1, <1>2, <1>3, <1>4, <1>5, <1>6, <1>7, <1>8, <1>9, <1>10 DEF Next

(* The policy's inductive invariant holds in every reachable state: the pairing *)
(* window, NimBLE's phase, the bond store and the drop timers agree             *)
(* (security.cpp).                                                              *)
THEOREM PolicyHolds == Spec => []PolicyInv
  BY PolicyInit, PolicyNext, PTL DEF Spec

-----------------------------------------------------------------------------
(* The bond store. *)
LEMMA WindowOpenMeans ==
  ASSUME PolicyInv, WindowOpen(s.closes, now)
  PROVE  seen.press # Never /\ now < seen.press + WindowPeriod /\ ~seen.used
  BY SMTT(60) DEF WindowOpen, PolicyInv, TrustInv, WindowInv

LEMMA BondStep == PolicyInv /\ [Next]_vars => BondNeedsPress /\ BondsKept
  <1> SUFFICES ASSUME PolicyInv, [Next]_vars PROVE BondNeedsPress /\ BondsKept
    OBVIOUS
  <1>0. store \in StoreRecord /\ s \in PolicyRecord /\ s.conn = nim.peer /\ s.slot # "stock"
    BY DEF PolicyInv, PolicyType
  <1>1. CASE store'.peer = store.peer
    BY <1>1 DEF BondNeedsPress, BondsKept
  <1>2. CASE store'.peer \subseteq store.peer /\ WindowOpen(s.closes, now)
    BY <1>2, WindowOpenMeans DEF BondNeedsPress, BondsKept
  <1>3. CASE StoreFull
    <2>1. store'.peer \subseteq store.peer
      BY <1>3, StoreFullFacts
    <2>2. WindowOpen(s.closes, now) \/ store' = store
      BY <1>3 DEF StoreFull, PolicyBecomes, on_store_status
    <2> QED
      BY <1>1, <1>2, <2>1, <2>2
  <1>4. CASE PairingRequest
    <2>1. CASE Stored(store, nim.peer)
      <3>1. store' = handle_repeat_pairing(AtEvent, store, nim.peer)[2]
        BY <1>4, <2>1 DEF PairingRequest, PolicyBecomes
      <3>2. CASE Retries(AtEvent, nim.peer)
        <4>1. store' = DeletePeer(store, nim.peer)
          BY <3>1, <3>2 DEF handle_repeat_pairing
        <4>2. store'.peer \subseteq store.peer
          BY <1>0, <4>1 DEF DeletePeer, StoreRecord
        <4>3. WindowOpen(s.closes, now)
          BY <3>2, EventFacts DEF Retries, WindowOpen, PolicyInv
        <4> QED
          BY <1>2, <4>2, <4>3
      <3>3. CASE ~Retries(AtEvent, nim.peer)
        BY <1>1, <3>1, <3>3 DEF handle_repeat_pairing
      <3> QED
        BY <3>2, <3>3
    <2>2. CASE ~Stored(store, nim.peer)
      BY <1>1, <1>3, <1>4, <2>2 DEF PairingRequest, policy
    <2> QED
      BY <2>1, <2>2
  <1>5. CASE PersistRecord
    <2> DEFINE kind == Head(nim.left)
    <2>1. CASE ~StoreFull
      <3>1. store' = guarded_store_write(s, store, kind, nim.peer)[2]
        BY <1>5, <2>1 DEF PersistRecord, PolicyBecomes
      <3>2. CASE s.orig /\ WindowOpen(s.closes, now)
        <4>1. store' = Write(store, kind, nim.peer)
          BY <1>0, <3>1, <3>2 DEF guarded_store_write
        <4>2. store'.peer \in {store.peer, store.peer \cup {nim.peer}}
          <5>1. nim.phase = "persist" /\ nim.left # <<>> /\ nim \in HostRecord
            BY <1>5 DEF PersistRecord, PolicyInv, PolicyType
          <5>2. kind \in {"addr", "our", "peer"}
            BY <5>1, LeftFacts DEF HostRecord
          <5>3. /\ Write(store, "addr", nim.peer).peer = store.peer
                /\ Write(store, "our", nim.peer).peer = store.peer
                /\ Write(store, "peer", nim.peer).peer = store.peer \cup {nim.peer}
            BY <1>0 DEF Write, StoreRecord
          <5> QED
            BY <4>1, <5>2, <5>3
        <4> QED
          BY <3>2, <4>2, WindowOpenMeans DEF BondNeedsPress, BondsKept
      <3>3. CASE ~(s.orig /\ WindowOpen(s.closes, now))
        <4>1. \/ store' = store
              \/ store' = [store EXCEPT !.orphans = @ \cup {nim.peer}]
          BY <1>0, <3>1, <3>3 DEF guarded_store_write
        <4>2. store'.peer = store.peer
          BY <1>0, <4>1 DEF StoreRecord
        <4> QED
          BY <1>1, <4>2
      <3> QED
        BY <3>2, <3>3
    <2> QED
      BY <1>3, <2>1
  <1>6. CASE ClearBonds
    <2>1. store'.peer \subseteq store.peer
      BY <1>0, <1>6 DEF ClearBonds, StoreRecord
    <2>2. s.link.accepted /\ ~s'.link.accepted
      BY <1>6, ClearBondsStep
    <2> QED
      BY <2>1, <2>2 DEF BondNeedsPress, BondsKept
  <1>7. ASSUME NEW ok \in BOOLEAN, NEW full \in BOOLEAN, Encryption(ok, full),
               nim.peer # NoCentral
        PROVE  store'.peer = store.peer \/ (s.link.keys /\ store'.peer = store.peer \ {nim.peer})
    BY <1>7, EncryptionFacts DEF Encryption, EncGood, EncBad
  <1>8. CASE PairingEnds
    <2>1. nim.peer # NoCentral /\ nim.fullKey \in BOOLEAN /\ Encryption(TRUE, nim.fullKey)
          /\ nim.phase = "persist"
      BY <1>8 DEF PairingEnds, PolicyInv, PolicyType, HostRecord, TrustInv, HostInv
    <2>2. store'.peer = store.peer \/ store'.peer = store.peer \ {nim.peer}
      BY <1>7, <2>1
    <2> QED
      BY <2>1, <2>2 DEF BondNeedsPress, BondsKept
  <1>9. CASE PairingFails
    <2>1. nim.peer # NoCentral /\ Encryption(FALSE, FALSE) /\ nim.peer \notin store.peer
      BY <1>9 DEF PairingFails, PolicyInv, TrustInv, HostInv, KeysInv, Stored
    <2>2. store'.peer = store.peer \/ store'.peer = store.peer \ {nim.peer}
      BY <1>7, <2>1
    <2> QED
      BY <1>1, <2>1, <2>2
  <1>10. CASE \E ok \in BOOLEAN : Reencrypt(ok)
    <2>1. PICK ok \in BOOLEAN : Reencrypt(ok)
      BY <1>10
    <2>2. nim.peer # NoCentral /\ Encryption(ok, TRUE) /\ ~s.link.keys
      BY <2>1 DEF Reencrypt, PolicyInv, TrustInv, HostInv
    <2> QED
      BY <1>1, <1>7, <2>2
  <1>11. CASE \/ \E c \in Centrals : Connect(c)
              \/ Disconnect \/ HostReset
    <2>1. store' = store \/ store' = delete_refused_peer_records(AtEvent, store)
      BY <1>11 DEF Connect, Disconnect, HostReset, LinkGone, PolicyBecomes, handle_connect,
                   handle_disconnect
    <2>2. store'.peer = store.peer
      BY <1>0, <2>1 DEF delete_refused_peer_records, StoreRecord
    <2> QED
      BY <1>1, <2>2
  <1>12. CASE \E k \in Streams, on \in BOOLEAN : Subscribe(k, on)
    <2>1. store'.peer = store.peer
      BY <1>0, <1>12 DEF Subscribe, StoreRecord
    <2> QED
      BY <1>1, <2>1
  <1>13. CASE UNCHANGED store
    BY <1>1, <1>13
  <1> QED
    BY <1>4, <1>5, <1>6, <1>8, <1>9, <1>10, <1>11, <1>12, <1>13
       DEF Next, vars, policy, BringUp, HostSync, ConnectFails, MtuAgreed, PairingComplete,
           Restore, Refused, SelectPage, UserKey, WindowTimer, DropTimer, DisconnectTimer,
           SampleLive, SampleExt, Publish, mark_telemetry_started, Tick

(* A bond is written only within the window of a key press that no bond has     *)
(* used, and goes only in such a window, by Clear bonds, or with its own        *)
(* rejected pairing (guarded_store_write, on_store_status,                      *)
(* handle_encryption_change).                                                   *)
THEOREM BondsGuarded == Spec => BondStoreGuarded
  <1>1. PolicyInv /\ [Next]_vars => [BondNeedsPress /\ BondsKept]_vars
    BY BondStep
  <1> QED
    BY <1>1, PolicyHolds, PTL DEF Spec, BondStoreGuarded

-----------------------------------------------------------------------------
(* The streams and the selectors follow the link. *)
LiveSeqs == {n \in Nat : n < 256}
ExtSeqs == {n \in Nat : n < 65536}
LiveRecord(mtu, accepted, attempt) ==
  [notify : BOOLEAN, secured : BOOLEAN, mtu : {mtu}, seq : LiveSeqs, accepted : {accepted},
   lastSample : OptionalTime, lastAttempt : {attempt}]
LiveTyped(st) == st \in LiveRecord(st.mtu, st.accepted, st.lastAttempt)
ExtRecord(mtu, token, next, accepted, emptyAt) ==
  [notify : BOOLEAN, secured : BOOLEAN, mtu : {mtu}, token : {token}, seq : ExtSeqs,
   next : {next}, accepted : {accepted}, emptyAt : {emptyAt}, lastSample : OptionalTime]
ExtTyped(st) == st \in ExtRecord(st.mtu, st.token, st.next, st.accepted, st.emptyAt)
Sampling(st) == st.lastSample # Never => st.lastSample <= now

(* The selectors follow NimBLE's link, with the token of this connection.  *)
SelectorInv ==
  /\ disc.conn = nim.peer /\ disc \in [conn : OptionalCentral, next : Nat]
  /\ sel \in [Selectors -> [conn : OptionalCentral, token : Nat, page : Nat]]
  /\ \A k \in Selectors : sel[k].conn = nim.peer
  /\ nim.peer # NoCentral =>
       /\ disc.next # 0 /\ \A k \in Selectors : sel[k].token = disc.next
       /\ sel["signal"].page = seen.page /\ seen.page <= DocumentLength
(* The streams follow NimBLE's link, and their notify flags its            *)
(* subscriptions.                                                          *)
SinkInv ==
  /\ sink = nim.peer /\ LiveTyped(live) /\ ExtTyped(ext) /\ due \in [Streams -> OptionalTime]
  /\ live.notify = ("live" \in nim.sub) /\ ext.notify = ("ext" \in nim.sub)
  /\ nim.peer = NoCentral => nim.sub = {}
  /\ ext.mtu = live.mtu /\ Sampling(live) /\ Sampling(ext)
(* While trust in the link lasts, a stream that may send is armed.         *)
ArmInv ==
  nim.peer # NoCentral /\ ~seen.revoked =>
    /\ ~s.link.accepted => nim.sub = {}
    /\ s.link.accepted /\ live.notify /\ live.mtu >= MinMtu => due["live"] # Never
    /\ s.link.accepted /\ ext.notify /\ live.mtu >= MinMtu /\ Available => due["ext"] # Never
    /\ nim.phase = "restoring" => s.link.accepted
(* No frame came too early, and none after the last sample.                *)
RateInv ==
  /\ ~seen.tooSoon
  /\ nim.peer # NoCentral =>
       /\ seen.frame["live"] # Never =>
            live.lastSample # Never /\ seen.frame["live"] <= live.lastSample
       /\ seen.frame["ext"] # Never =>
            ext.lastSample # Never /\ seen.frame["ext"] <= ext.lastSample

StreamInv == SelectorInv /\ SinkInv /\ ArmInv /\ RateInv

LEMMA DueFacts ==
  ASSUME now \in Nat, NEW holds \in BOOLEAN, NEW last \in OptionalTime
  PROVE  /\ NextDue(UntilSample(holds, last, now)) \in OptionalTime
         /\ holds => NextDue(UntilSample(holds, last, now)) # Never
  <1> USE PolicyAssumption, StreamsAssumption, OneNothing
  <1>1. holds => UntilSample(holds, last, now) \in Nat
    BY DEF UntilSample, Due, OptionalTime
  <1>2. ~holds => UntilSample(holds, last, now) = Never
    BY DEF UntilSample
  <1> QED
    BY <1>1, <1>2 DEF NextDue, OptionalTime

LEMMA FirstSeq == 0 \in LiveSeqs /\ 0 \in ExtSeqs
  BY DEF LiveSeqs, ExtSeqs

LEMMA NextSeq ==
  /\ \A q \in LiveSeqs : (q + 1) % 256 \in LiveSeqs
  /\ \A q \in ExtSeqs : (q + 1) % 65536 \in ExtSeqs
  BY DEF LiveSeqs, ExtSeqs

LEMMA LiveUpdatedFacts ==
  ASSUME NEW st, NEW new, LiveTyped(new)
  PROVE  LET l == LiveUpdated(st, new)
         IN  /\ LiveTyped(l) /\ l.notify = new.notify /\ l.secured = new.secured
             /\ l.mtu = new.mtu /\ l.lastSample = new.lastSample
  <1> DEFINE r == [new EXCEPT !.seq = 0, !.accepted = None]
  <1>1. /\ LiveTyped(r) /\ r.notify = new.notify /\ r.secured = new.secured
        /\ r.mtu = new.mtu /\ r.lastSample = new.lastSample
    BY FirstSeq DEF LiveTyped, LiveRecord
  <1>2. LiveUpdated(st, new) \in {r, new}
    BY DEF LiveUpdated
  <1> HIDE DEF r
  <1> QED
    BY <1>1, <1>2

LEMMA LiveGatedFacts ==
  ASSUME NEW st, LiveTyped(st), NEW x, NEW who
  PROVE  LET l == LiveGated(st, x, who)
         IN  /\ LiveTyped(l) /\ l.notify = st.notify /\ l.mtu = st.mtu
             /\ l.lastSample = st.lastSample
             /\ who # NoCentral => l.secured = link_has_accepted_bond(x, who)
  <1> DEFINE trusted == link_has_accepted_bond(x, who)
             new == [st EXCEPT !.secured = trusted]
  <1>1. trusted \in BOOLEAN
    BY DEF link_has_accepted_bond
  <1>2. LiveGated(st, x, who) = IF who = NoCentral THEN st ELSE LiveUpdated(st, new)
    BY DEF LiveGated
  <1>3. trusted = link_has_accepted_bond(x, who)
    OBVIOUS
  <1> HIDE DEF trusted
  <1>4. LiveTyped(new) /\ new.notify = st.notify /\ new.mtu = st.mtu
        /\ new.lastSample = st.lastSample /\ new.secured = trusted
    BY <1>1 DEF LiveTyped, LiveRecord
  <1> HIDE DEF new
  <1> QED
    BY <1>2, <1>3, <1>4, LiveUpdatedFacts

LEMMA ExtRestartedFacts ==
  ASSUME NEW st, ExtTyped(st)
  PROVE  LET e == ExtRestarted(st)
         IN  /\ ExtTyped(e) /\ e.notify = st.notify /\ e.secured = st.secured
             /\ e.mtu = st.mtu /\ e.lastSample = st.lastSample /\ e.token = st.token
  BY FirstSeq DEF ExtRestarted, ExtTyped, ExtRecord

LEMMA ExtUpdatedFacts ==
  ASSUME NEW st, NEW new, ExtTyped(new)
  PROVE  LET e == ExtUpdated(st, new)
         IN  /\ ExtTyped(e) /\ e.notify = new.notify /\ e.secured = new.secured
             /\ e.mtu = new.mtu /\ e.lastSample = new.lastSample
  <1>1. ExtUpdated(st, new) \in {ExtRestarted(new), new}
    BY DEF ExtUpdated
  <1> QED
    BY <1>1, ExtRestartedFacts

LEMMA ExtTokenFacts ==
  ASSUME NEW st, ExtTyped(st), NEW token
  PROVE  LET e == ExtTokenSet(st, token)
         IN  /\ ExtTyped(e) /\ e.notify = st.notify /\ e.secured = st.secured
             /\ e.mtu = st.mtu /\ e.lastSample = st.lastSample /\ e.token = token
  <1> DEFINE new == [st EXCEPT !.token = token]
  <1>1. /\ ExtTyped(new) /\ new.notify = st.notify /\ new.secured = st.secured
        /\ new.mtu = st.mtu /\ new.lastSample = st.lastSample /\ new.token = token
    BY DEF ExtTyped, ExtRecord
  <1>2. ExtTokenSet(st, token) = IF st.token = token THEN st ELSE ExtRestarted(new)
    BY DEF ExtTokenSet
  <1> HIDE DEF new
  <1> QED
    BY <1>1, <1>2, ExtRestartedFacts

LEMMA ExtGatedFacts ==
  ASSUME NEW st, ExtTyped(st), NEW x, NEW who, NEW sels
  PROVE  LET e == ExtGated(st, x, who, sels)
         IN  /\ ExtTyped(e) /\ e.notify = st.notify /\ e.mtu = st.mtu
             /\ e.lastSample = st.lastSample
             /\ who # NoCentral => /\ e.secured = link_has_accepted_bond(x, who)
                                   /\ e.token = TokenFor(sels["signal"], who)
  <1> DEFINE trusted == who # NoCentral /\ link_has_accepted_bond(x, who)
             token == IF who = NoCentral THEN 0 ELSE TokenFor(sels["signal"], who)
             new == [st EXCEPT !.secured = trusted]
             up == ExtUpdated(st, new)
  <1>1. trusted \in BOOLEAN
    OBVIOUS
  <1>2. ExtGated(st, x, who, sels) = ExtTokenSet(up, token)
    BY DEF ExtGated
  <1>3. /\ who # NoCentral => trusted = link_has_accepted_bond(x, who)
        /\ who # NoCentral => token = TokenFor(sels["signal"], who)
    BY DEF link_has_accepted_bond
  <1> HIDE DEF trusted, token
  <1>4. ExtTyped(new) /\ new.notify = st.notify /\ new.mtu = st.mtu
        /\ new.lastSample = st.lastSample /\ new.secured = trusted
    BY <1>1 DEF ExtTyped, ExtRecord
  <1> HIDE DEF new
  <1>5. ExtTyped(up) /\ up.notify = st.notify /\ up.mtu = st.mtu
        /\ up.lastSample = st.lastSample /\ up.secured = trusted
    BY <1>4, ExtUpdatedFacts
  <1> HIDE DEF up
  <1> QED
    BY <1>2, <1>3, <1>5, ExtTokenFacts

(* A stream after an event: started over, cleared, or with one condition changed. *)
LEMMA LiveStanding ==
  ASSUME NEW kind, NEW c, NEW arg, LiveTyped(live), kind = "live" => arg \in BOOLEAN,
         kind \notin {"connect", "disconnect"}, sink = c
  PROVE  LET l == StreamAfter("live", live, NewLive, kind, c, arg)
         IN  /\ LiveTyped(l)
             /\ l.notify = (IF kind = "live" THEN arg ELSE live.notify)
             /\ l.mtu = (IF kind = "mtu" THEN arg ELSE live.mtu)
             /\ l.lastSample = live.lastSample
  <1> DEFINE l == StreamAfter("live", live, NewLive, kind, c, arg)
  <1>1. CASE kind = "mtu" /\ sink = c
    <2> DEFINE new == [live EXCEPT !.mtu = arg]
    <2>1. LiveTyped(new) /\ new.notify = live.notify /\ new.mtu = arg
          /\ new.lastSample = live.lastSample
      BY DEF LiveTyped, LiveRecord
    <2>2. l = LiveUpdated(live, new)
      BY <1>1 DEF StreamAfter, StreamUpdated
    <2> HIDE DEF new, l
    <2> QED
      BY <1>1, <2>1, <2>2, LiveUpdatedFacts DEF l
  <1>2. CASE kind = "live" /\ sink = c
    <2> DEFINE new == [live EXCEPT !.notify = arg]
    <2>1. LiveTyped(new) /\ new.notify = arg /\ new.mtu = live.mtu
          /\ new.lastSample = live.lastSample
      BY <1>2 DEF LiveTyped, LiveRecord
    <2>2. l = LiveUpdated(live, new)
      BY <1>2 DEF StreamAfter, StreamUpdated
    <2> HIDE DEF new, l
    <2> QED
      BY <1>2, <2>1, <2>2, LiveUpdatedFacts DEF l
  <1>3. CASE kind \notin {"mtu", "live"}
    BY <1>3 DEF StreamAfter
  <1> QED
    BY <1>1, <1>2, <1>3

LEMMA NewLiveFacts ==
  /\ LiveTyped(NewLive) /\ NewLive.notify = FALSE /\ NewLive.mtu = 0
  /\ NewLive.lastSample = Never
  BY FirstSeq, OneNothing DEF NewLive, LiveTyped, LiveRecord, OptionalTime

LEMMA LiveLinked ==
  ASSUME NEW c, NEW arg, sink = NoCentral
  PROVE  LET l == StreamAfter("live", live, NewLive, "connect", c, arg)
         IN  /\ LiveTyped(l) /\ l.notify = FALSE /\ l.mtu = 23
             /\ l.lastSample = Never
  <1> DEFINE l == StreamAfter("live", live, NewLive, "connect", c, arg)
             new == [NewLive EXCEPT !.mtu = 23]
  <1>1. LiveTyped(new) /\ new.notify = FALSE /\ new.mtu = 23 /\ new.lastSample = Never
    BY NewLiveFacts DEF LiveTyped, LiveRecord
  <1>2. l = LiveUpdated(NewLive, new)
    BY DEF StreamAfter, StreamUpdated
  <1> HIDE DEF new, l
  <1> QED
    BY <1>1, <1>2, LiveUpdatedFacts DEF l

LEMMA LiveUnlinked ==
  ASSUME NEW c, NEW arg, sink = c
  PROVE  StreamAfter("live", live, NewLive, "disconnect", c, arg) = NewLive
  BY DEF StreamAfter

LEMMA ExtStanding ==
  ASSUME NEW kind, NEW c, NEW arg, ExtTyped(ext), kind = "ext" => arg \in BOOLEAN,
         kind \notin {"connect", "disconnect"}, sink = c
  PROVE  LET e == StreamAfter("ext", ext, NewExt, kind, c, arg)
         IN  /\ ExtTyped(e)
             /\ e.notify = (IF kind = "ext" THEN arg ELSE ext.notify)
             /\ e.mtu = (IF kind = "mtu" THEN arg ELSE ext.mtu)
             /\ e.lastSample = ext.lastSample
  <1> DEFINE e == StreamAfter("ext", ext, NewExt, kind, c, arg)
  <1>1. CASE kind = "mtu" /\ sink = c
    <2> DEFINE new == [ext EXCEPT !.mtu = arg]
    <2>1. ExtTyped(new) /\ new.notify = ext.notify /\ new.mtu = arg
          /\ new.lastSample = ext.lastSample
      BY DEF ExtTyped, ExtRecord
    <2>2. e = ExtUpdated(ext, new)
      BY <1>1 DEF StreamAfter, StreamUpdated
    <2> HIDE DEF new, e
    <2> QED
      BY <1>1, <2>1, <2>2, ExtUpdatedFacts DEF e
  <1>2. CASE kind = "ext" /\ sink = c
    <2> DEFINE new == [ext EXCEPT !.notify = arg]
    <2>1. ExtTyped(new) /\ new.notify = arg /\ new.mtu = ext.mtu
          /\ new.lastSample = ext.lastSample
      BY <1>2 DEF ExtTyped, ExtRecord
    <2>2. e = ExtUpdated(ext, new)
      BY <1>2 DEF StreamAfter, StreamUpdated
    <2> HIDE DEF new, e
    <2> QED
      BY <1>2, <2>1, <2>2, ExtUpdatedFacts DEF e
  <1>3. CASE kind \notin {"mtu", "ext"}
    BY <1>3 DEF StreamAfter
  <1> QED
    BY <1>1, <1>2, <1>3

LEMMA NewExtFacts ==
  /\ ExtTyped(NewExt) /\ NewExt.notify = FALSE /\ NewExt.mtu = 0
  /\ NewExt.lastSample = Never
  BY FirstSeq, OneNothing DEF NewExt, ExtTyped, ExtRecord, OptionalTime

LEMMA ExtLinked ==
  ASSUME NEW c, NEW arg, sink = NoCentral
  PROVE  LET e == StreamAfter("ext", ext, NewExt, "connect", c, arg)
         IN  /\ ExtTyped(e) /\ e.notify = FALSE /\ e.mtu = 23
             /\ e.lastSample = Never
  <1> DEFINE e == StreamAfter("ext", ext, NewExt, "connect", c, arg)
             new == [NewExt EXCEPT !.mtu = 23]
  <1>1. ExtTyped(new) /\ new.notify = FALSE /\ new.mtu = 23 /\ new.lastSample = Never
    BY NewExtFacts DEF ExtTyped, ExtRecord
  <1>2. e = ExtUpdated(NewExt, new)
    BY DEF StreamAfter, StreamUpdated
  <1> HIDE DEF new, e
  <1> QED
    BY <1>1, <1>2, ExtUpdatedFacts DEF e

LEMMA ExtUnlinked ==
  ASSUME NEW c, NEW arg, sink = c
  PROVE  StreamAfter("ext", ext, NewExt, "disconnect", c, arg) = NewExt
  BY DEF StreamAfter


-----------------------------------------------------------------------------
(* The listeners of a standing link leave the selectors and the stream       *)
(* sink alone and arm every stream whose conditions hold.                    *)
StandingKinds == {"mtu", "repeat", "complete", "enc", "live", "ext", "authorize"}
Armed(k, notify, mtu) ==
  s.link.accepted /\ notify /\ mtu >= MinMtu /\ (k = "ext" => Available) => due'[k] # Never

LEMMA StandingListeners ==
  ASSUME PolicyInv, StreamInv, nim.peer # NoCentral, NEW kind \in StandingKinds, NEW arg,
         kind \in Streams => arg \in BOOLEAN, Listeners(kind, nim.peer, arg)
  PROVE  /\ UNCHANGED <<disc, sel, sink>> /\ LiveTyped(live') /\ ExtTyped(ext')
         /\ due' \in [Streams -> OptionalTime]
         /\ live'.notify = (IF kind = "live" THEN arg ELSE live.notify)
         /\ ext'.notify = (IF kind = "ext" THEN arg ELSE ext.notify)
         /\ ext'.mtu = live'.mtu
         /\ live'.lastSample = live.lastSample /\ ext'.lastSample = ext.lastSample
         /\ Armed("live", live'.notify, live'.mtu) /\ Armed("ext", ext'.notify, live'.mtu)
  <1> DEFINE c == nim.peer
             la == StreamAfter("live", live, NewLive, kind, c, arg)
             ea == StreamAfter("ext", ext, NewExt, kind, c, arg)
             sels == IF budget.discoveryFirst THEN SelectorsAfter(kind, c) ELSE sel
  <1>1. /\ c # Never /\ sink = c /\ s.conn = c /\ now \in Nat
        /\ sel["signal"].conn = c /\ sel["signal"].token # 0 /\ s.link.accepted \in BOOLEAN
        /\ LiveTyped(live) /\ ExtTyped(ext) /\ ext.mtu = live.mtu
    BY DEF PolicyInv, PolicyType, PolicyRecord, LinkRecord, StreamInv, SinkInv, SelectorInv,
           Selectors
  <1>2. kind \notin {"connect", "disconnect"}
    BY DEF StandingKinds
  <1>3. SelectorsAfter(kind, c) = sel /\ SinkAfter(kind, c) = sink /\ DiscoveryAfter(kind, c) = disc
    BY <1>2 DEF SelectorsAfter, SinkAfter, DiscoveryAfter
  <1>4. /\ disc' = disc /\ sel' = sel /\ sink' = sink
        /\ live' = LiveGated(la, s, c) /\ ext' = ExtGated(ea, s, c, sel)
        /\ due' = [live |-> LiveDue(live'), ext |-> ExtDue(ext')]
    BY <1>1, <1>3 DEF Listeners
  <1>5. /\ LiveTyped(la) /\ la.notify = (IF kind = "live" THEN arg ELSE live.notify)
        /\ la.mtu = (IF kind = "mtu" THEN arg ELSE live.mtu) /\ la.lastSample = live.lastSample
    <2>1. kind = "live" => arg \in BOOLEAN
      BY DEF Streams
    <2> QED
      BY <1>1, <1>2, <2>1, LiveStanding
  <1>6. /\ ExtTyped(ea) /\ ea.notify = (IF kind = "ext" THEN arg ELSE ext.notify)
        /\ ea.mtu = (IF kind = "mtu" THEN arg ELSE ext.mtu) /\ ea.lastSample = ext.lastSample
    <2>1. kind = "ext" => arg \in BOOLEAN
      BY DEF Streams
    <2> QED
      BY <1>1, <1>2, <2>1, ExtStanding
  <1> HIDE DEF la, ea
  <1>7. /\ LiveTyped(live') /\ live'.notify = la.notify /\ live'.mtu = la.mtu
        /\ live'.lastSample = la.lastSample /\ live'.secured = link_has_accepted_bond(s, c)
    BY <1>1, <1>4, <1>5, LiveGatedFacts
  <1>8. /\ ExtTyped(ext') /\ ext'.notify = ea.notify /\ ext'.mtu = ea.mtu
        /\ ext'.lastSample = ea.lastSample /\ ext'.secured = link_has_accepted_bond(s, c)
        /\ ext'.token = TokenFor(sel["signal"], c)
    BY <1>1, <1>4, <1>6, ExtGatedFacts
  <1>9. s.link.accepted => link_has_accepted_bond(s, c)
    BY <1>1 DEF link_has_accepted_bond
  <1>10. Available => TokenFor(sel["signal"], c) # 0
    BY <1>1, OneNothing DEF TokenFor, Active
  <1>11. live'.lastSample \in OptionalTime /\ ext'.lastSample \in OptionalTime
    BY <1>7, <1>8 DEF LiveTyped, LiveRecord, ExtTyped, ExtRecord
  <1>12. /\ LiveDue(live') \in OptionalTime
         /\ LiveHolds(live') => LiveDue(live') # Never
    <2>1. LiveHolds(live') \in BOOLEAN
      BY DEF LiveHolds
    <2> QED
      BY <1>1, <1>11, <2>1, DueFacts DEF LiveDue
  <1>13. /\ ExtDue(ext') \in OptionalTime
         /\ ExtHolds(ext') => ExtDue(ext') # Never
    <2>1. ExtHolds(ext') \in BOOLEAN
      BY DEF ExtHolds
    <2> QED
      BY <1>1, <1>11, <2>1, DueFacts DEF ExtDue
  <1>14. due' \in [Streams -> OptionalTime] /\ due'["live"] = LiveDue(live')
         /\ due'["ext"] = ExtDue(ext')
    BY <1>4, <1>12, <1>13 DEF Streams
  <1>15. ext'.mtu = live'.mtu
    BY <1>1, <1>5, <1>6, <1>7, <1>8
  <1>16. Armed("live", live'.notify, live'.mtu)
    BY <1>7, <1>9, <1>12, <1>14 DEF Armed, LiveHolds
  <1>17. Armed("ext", ext'.notify, live'.mtu)
    BY <1>8, <1>9, <1>10, <1>13, <1>14, <1>15 DEF Armed, ExtHolds
  <1> QED
    BY <1>1, <1>4, <1>5, <1>6, <1>7, <1>8, <1>14, <1>15, <1>16, <1>17

(* What a step within a link keeps of the observer and the policy. *)
LinkKept ==
  /\ nim'.peer = nim.peer /\ s.conn = nim.peer /\ s'.link.accepted \in BOOLEAN
  /\ seen'.frame = seen.frame /\ seen'.tooSoon = seen.tooSoon /\ seen'.page = seen.page
  /\ seen.revoked => seen'.revoked
  /\ s.link.accepted /\ ~s'.link.accepted => seen'.revoked
  /\ nim'.phase = "restoring" => s'.link.accepted \/ seen'.revoked

LEMMA QuietStream ==
  ASSUME PolicyInv, StreamInv, LinkKept, UNCHANGED streams, nim'.sub = nim.sub,
         now' \in {now, now + 1}, s'.link.accepted => s.link.accepted
  PROVE  StreamInv'
  <1>0. now \in Nat
    BY DEF PolicyInv, PolicyType
  <1>1. SelectorInv'
    BY DEF StreamInv, SelectorInv, LinkKept, streams
  <1>2. LiveTyped(live') /\ ExtTyped(ext')
    BY DEF StreamInv, SinkInv, streams
  <1>3. Sampling(live)' /\ Sampling(ext)'
    <2>1. /\ live.lastSample # Never => live.lastSample \in Nat /\ live.lastSample <= now
          /\ ext.lastSample # Never => ext.lastSample \in Nat /\ ext.lastSample <= now
      BY DEF StreamInv, SinkInv, Sampling, LiveTyped, LiveRecord, ExtTyped, ExtRecord, OptionalTime
    <2> QED
      BY <1>0, <2>1 DEF Sampling, streams
  <1>4. SinkInv'
    BY <1>2, <1>3 DEF StreamInv, SinkInv, LinkKept, streams
  <1>5. ArmInv'
    BY DEF StreamInv, ArmInv, LinkKept, streams
  <1>6. RateInv'
    BY DEF StreamInv, RateInv, LinkKept, streams
  <1> QED
    BY <1>1, <1>4, <1>5, <1>6 DEF StreamInv

LEMMA StandingStep ==
  ASSUME PolicyInv, StreamInv, LinkKept, UNCHANGED now, nim.peer # NoCentral,
         NEW kind \in StandingKinds, NEW arg, kind \in Streams => arg \in BOOLEAN,
         Listeners(kind, nim.peer, arg),
         kind \in Streams /\ ~seen'.revoked => s.link.accepted,
         nim'.sub = IF kind \notin Streams THEN nim.sub
                    ELSE IF arg THEN nim.sub \cup {kind} ELSE nim.sub \ {kind}
  PROVE  StreamInv'
  <1>1. /\ UNCHANGED <<disc, sel, sink>> /\ LiveTyped(live') /\ ExtTyped(ext')
        /\ due' \in [Streams -> OptionalTime]
        /\ live'.notify = (IF kind = "live" THEN arg ELSE live.notify)
        /\ ext'.notify = (IF kind = "ext" THEN arg ELSE ext.notify)
        /\ ext'.mtu = live'.mtu
        /\ live'.lastSample = live.lastSample /\ ext'.lastSample = ext.lastSample
        /\ Armed("live", live'.notify, live'.mtu) /\ Armed("ext", ext'.notify, live'.mtu)
    BY StandingListeners
  <1>2. SelectorInv'
    BY <1>1 DEF StreamInv, SelectorInv, LinkKept
  <1>3. /\ live.notify = ("live" \in nim.sub) /\ ext.notify = ("ext" \in nim.sub)
    BY DEF StreamInv, SinkInv
  <1>4. live'.notify = ("live" \in nim'.sub)
    <2>1. CASE kind = "live"
      BY <1>1, <2>1 DEF Streams
    <2>2. CASE kind # "live"
      BY <1>1, <1>3, <2>2
    <2> QED
      BY <2>1, <2>2
  <1>5. ext'.notify = ("ext" \in nim'.sub)
    <2>1. CASE kind = "ext"
      BY <1>1, <2>1 DEF Streams
    <2>2. CASE kind # "ext"
      BY <1>1, <1>3, <2>2
    <2> QED
      BY <2>1, <2>2
  <1>6. SinkInv'
    BY <1>1, <1>4, <1>5 DEF StreamInv, SinkInv, LinkKept, Sampling
  <1>7. ArmInv'
    <2> SUFFICES ASSUME ~seen'.revoked PROVE ArmInv'
      BY DEF ArmInv
    <2>1. /\ ~seen.revoked /\ (s.link.accepted => s'.link.accepted)
          /\ kind \in Streams => s.link.accepted
          /\ nim'.phase = "restoring" => s'.link.accepted
      BY DEF LinkKept
    <2>2. CASE s.link.accepted
      BY <1>1, <2>1, <2>2 DEF ArmInv, Armed
    <2>3. CASE ~s.link.accepted
      <3>1. nim.sub = {} /\ nim'.sub = {}
        BY <2>1, <2>3 DEF StreamInv, ArmInv
      <3>2. ~live'.notify /\ ~ext'.notify
        BY <1>4, <1>5, <3>1
      <3> QED
        BY <2>1, <3>1, <3>2 DEF ArmInv
    <2> QED
      BY <2>2, <2>3
  <1>8. RateInv'
    BY <1>1 DEF StreamInv, RateInv, LinkKept
  <1> QED
    BY <1>2, <1>6, <1>7, <1>8 DEF StreamInv


-----------------------------------------------------------------------------
(* Steps that leave the streams alone. *)
HasLink(x) == "link" \in DOMAIN x

LEMMA LinkCarried ==
  ASSUME NEW x, HasLink(x)
  PROVE  /\ HasLink(ensure_store_guard(x)) /\ ensure_store_guard(x).link = x.link
         /\ HasLink(apply_window_state(x)) /\ apply_window_state(x).link = x.link
         /\ HasLink(rearm_drop_timer(x)) /\ rearm_drop_timer(x).link = x.link
         /\ \A c : /\ HasLink(schedule_disconnect(x, c))
                   /\ schedule_disconnect(x, c).link = x.link
  <1> USE DEF HasLink
  <1>1. HasLink(ensure_store_guard(x)) /\ ensure_store_guard(x).link = x.link
    BY DEF ensure_store_guard
  <1>2. HasLink(apply_window_state(x)) /\ apply_window_state(x).link = x.link
    BY <1>1 DEF apply_window_state
  <1>3. HasLink(rearm_drop_timer(x)) /\ rearm_drop_timer(x).link = x.link
    BY DEF rearm_drop_timer
  <1>4. ASSUME NEW c
        PROVE  /\ HasLink(schedule_disconnect(x, c))
               /\ schedule_disconnect(x, c).link = x.link
    BY DEF schedule_disconnect
  <1> QED
    BY <1>1, <1>2, <1>3, <1>4

LEMMA EventLink == PolicyInv => HasLink(s) /\ AtEvent.link = s.link /\ HasLink(AtEvent)
  <1> SUFFICES ASSUME PolicyInv PROVE HasLink(s) /\ AtEvent.link = s.link /\ HasLink(AtEvent)
    OBVIOUS
  <1>1. HasLink(s)
    BY DEF HasLink, PolicyInv, PolicyType, PolicyRecord
  <1> QED
    BY <1>1, LinkCarried DEF AtEvent

LEMMA CheckLink ==
  ASSUME PolicyInv
  PROVE  check_protected_access.link.accepted = s.link.accepted
  <1> DEFINE link == AccessChecked(s.link, now, nim.enc)
             y == [s EXCEPT !.link = link]
  <1>1. HasLink(s) /\ s.link \in LinkRecord
    BY EventLink DEF PolicyInv, PolicyType, PolicyRecord
  <1>2. link.accepted = s.link.accepted
    BY <1>1 DEF AccessChecked, LinkRecord
  <1> HIDE DEF link
  <1>3. HasLink(y) /\ y.link = link
    BY <1>1 DEF HasLink
  <1>4. check_protected_access = s \/ check_protected_access = schedule_disconnect(y, nim.peer)
        \/ check_protected_access = rearm_drop_timer(y)
    BY DEF check_protected_access, link
  <1> HIDE DEF y
  <1> QED
    BY <1>2, <1>3, <1>4, LinkCarried

SeenAside == /\ seen'.revoked = seen.revoked /\ seen'.frame = seen.frame
             /\ seen'.tooSoon = seen.tooSoon /\ seen'.page = seen.page

LEMMA QuietStep ==
  ASSUME PolicyInv, PolicyInv', StreamInv, UNCHANGED streams, now' \in {now, now + 1},
         nim'.peer = nim.peer, nim'.sub = nim.sub,
         nim'.phase = "restoring" => nim.phase = "restoring",
         s'.link.accepted = s.link.accepted, SeenAside
  PROVE  StreamInv'
  <1>1. s'.link.accepted \in BOOLEAN /\ s.conn = nim.peer
    BY DEF PolicyInv, PolicyType, PolicyRecord, LinkRecord
  <1>2. nim.phase = "restoring" => s.link.accepted \/ seen.revoked
    BY DEF PolicyInv, TrustInv, HostInv, StreamInv, ArmInv
  <1>3. LinkKept
    BY <1>1, <1>2 DEF LinkKept, SeenAside
  <1> QED
    BY <1>3, QuietStream

LEMMA StillSteps ==
  ASSUME PolicyInv, PolicyInv', StreamInv,
         \/ Refused \/ WindowTimer \/ DropTimer \/ DisconnectTimer \/ BringUp \/ HostSync
         \/ (\E level \in {"Pressed", "Released"} : UserKey(level))
         \/ (\E id, i : Publish(id, i)) \/ mark_telemetry_started \/ Tick
  PROVE  StreamInv'
  <1>0. HasLink(s) /\ nim \in HostRecord /\ seen \in SeenRecord({seen.waits})
    BY EventLink DEF PolicyInv, PolicyType
  <1>1. UNCHANGED streams /\ now' \in {now, now + 1}
    BY DEF Refused, WindowTimer, DropTimer, DisconnectTimer, BringUp, HostSync, UserKey, Publish,
           mark_telemetry_started, Tick
  <1>2. nim'.peer = nim.peer /\ nim'.sub = nim.sub /\ nim'.phase = nim.phase
    BY <1>0 DEF Refused, WindowTimer, DropTimer, DisconnectTimer, BringUp, HostSync, UserKey,
           Publish, mark_telemetry_started, Tick, HostRecord
  <1>3. SeenAside
    <2>1. seen' = seen \/ seen' = [seen EXCEPT !.press = now, !.used = FALSE]
      BY DEF Refused, WindowTimer, DropTimer, DisconnectTimer, BringUp, HostSync, UserKey,
             Publish, mark_telemetry_started, Tick
    <2> QED
      BY <1>0, <2>1 DEF SeenAside, SeenRecord
  <1>4. s'.link.accepted = s.link.accepted
    <2>1. CASE Refused
      BY <2>1, CheckLink DEF Refused
    <2>2. ASSUME NEW x, HasLink(x), x.link = s.link,
                 \/ s' = x \/ s' = apply_window_state(x) \/ s' = ensure_store_guard(x)
                 \/ s' = apply_window_state(ensure_store_guard(x)) \/ s' = rearm_drop_timer(x)
                 \/ s' = schedule_disconnect(x, s.conn)
          PROVE  s'.link.accepted = s.link.accepted
      BY <2>2, LinkCarried
    <2>3. CASE WindowTimer
      BY <1>0, <2>2, <2>3 DEF WindowTimer, HasLink
    <2>4. CASE DropTimer
      <3> DEFINE x == [s EXCEPT !.tDrop = Never]
      <3>1. HasLink(x) /\ x.link = s.link
        BY <1>0 DEF HasLink
      <3>2. s' = x \/ s' = rearm_drop_timer(x) \/ s' = schedule_disconnect(x, s.conn)
        BY <2>4 DEF DropTimer
      <3> QED
        BY <2>2, <3>1, <3>2
    <2>5. CASE DisconnectTimer
      BY <1>0, <2>5 DEF DisconnectTimer, HasLink
    <2>6. CASE BringUp \/ HostSync
      <3> DEFINE x == [s EXCEPT !.slot = "stock"]
      <3>1. HasLink(x) /\ x.link = s.link
        BY <1>0 DEF HasLink
      <3>2. s' = ensure_store_guard(x) \/ s' = apply_window_state(ensure_store_guard(x))
        BY <2>6 DEF BringUp, HostSync
      <3> QED
        BY <2>2, <3>1, <3>2
    <2>7. ASSUME NEW level \in {"Pressed", "Released"}, UserKey(level)
          PROVE  s'.link.accepted = s.link.accepted
      <3> DEFINE z == [s EXCEPT !.key = Sampled(s.key, level)]
                 x == ensure_store_guard(z)
                 y == [x EXCEPT !.closes = now + WindowPeriod]
      <3>1. HasLink(z) /\ z.link = s.link
        BY <1>0 DEF HasLink
      <3>2. HasLink(x) /\ x.link = s.link
        BY <3>1, LinkCarried
      <3>3. s' = apply_window_state(y) \/ s' = x \/ s' = z
        BY <2>7 DEF UserKey
      <3> HIDE DEF x, z
      <3>4. HasLink(y) /\ y.link = s.link
        BY <3>2 DEF HasLink
      <3> HIDE DEF y
      <3> QED
        BY <2>2, <3>1, <3>2, <3>3, <3>4
    <2>8. CASE (\E id, i : Publish(id, i)) \/ mark_telemetry_started \/ Tick
      BY <2>8 DEF Publish, mark_telemetry_started, Tick, policy
    <2> QED
      BY <2>1, <2>3, <2>4, <2>5, <2>6, <2>7, <2>8
  <1> QED
    BY <1>1, <1>2, <1>3, <1>4, QuietStep

LEMMA ClearBondsStream ==
  ASSUME PolicyInv, PolicyInv', StreamInv, ClearBonds PROVE StreamInv'
  <1>1. UNCHANGED streams /\ UNCHANGED <<now, nim>> /\ ~s'.link.accepted
    BY ClearBondsStep DEF ClearBonds
  <1>2. s'.link.accepted \in BOOLEAN /\ s.conn = nim.peer /\ seen \in SeenRecord({seen.waits})
    BY DEF PolicyInv, PolicyType, PolicyRecord, LinkRecord
  <1>3. /\ seen'.revoked = TRUE /\ seen'.frame = seen.frame /\ seen'.tooSoon = seen.tooSoon
        /\ seen'.page = seen.page
    BY <1>2 DEF ClearBonds, SeenRecord
  <1>4. LinkKept
    BY <1>1, <1>2, <1>3 DEF LinkKept
  <1> QED
    BY <1>1, <1>4, QuietStream

LEMMA PersistRecordStream ==
  ASSUME PolicyInv, PolicyInv', StreamInv, PersistRecord PROVE StreamInv'
  <1>1. UNCHANGED streams /\ UNCHANGED <<now, seen>>
    BY DEF PersistRecord
  <1>2. s \in PolicyRecord /\ nim \in HostRecord /\ nim.phase = "persist"
    BY DEF PersistRecord, PolicyInv, PolicyType
  <1>3. nim'.peer = nim.peer /\ nim'.sub = nim.sub /\ nim'.phase = "persist"
    BY <1>2 DEF PersistRecord, HostRecord
  <1>4. s'.link.accepted = s.link.accepted
    <2>1. CASE StoreFull
      BY <2>1, StoreFullFacts DEF Kept
    <2>2. CASE ~StoreFull
      <3>1. s' = guarded_store_write(s, store, Head(nim.left), nim.peer)[1]
        BY <2>2 DEF PersistRecord, PolicyBecomes
      <3>2. \/ s' = s \/ s' = [s EXCEPT !.link.keys = TRUE]
            \/ s' = [s EXCEPT !.lvl = "reject", !.refused = nim.peer]
            \/ s' = [s EXCEPT !.lvl = "reject"]
        BY <3>1 DEF guarded_store_write
      <3> QED
        BY <1>2, <3>2, ZenonT(60) DEF PolicyRecord, LinkRecord
    <2> QED
      BY <2>1, <2>2
  <1> QED
    BY <1>1, <1>3, <1>4, QuietStep DEF SeenAside


-----------------------------------------------------------------------------
(* Steps of a standing link that the listeners hear of. *)
LEMMA HeardStep ==
  ASSUME PolicyInv, PolicyInv', StreamInv, nim.peer # NoCentral, UNCHANGED now,
         NEW kind \in {"mtu", "repeat", "complete", "authorize"}, NEW arg,
         Listeners(kind, nim.peer, arg), nim'.peer = nim.peer, nim'.sub = nim.sub,
         nim'.phase = "restoring" => nim.phase = "restoring",
         s'.link.accepted = s.link.accepted, SeenAside
  PROVE  StreamInv'
  <1>1. s'.link.accepted \in BOOLEAN /\ s.conn = nim.peer
    BY DEF PolicyInv, PolicyType, PolicyRecord, LinkRecord
  <1>2. nim.phase = "restoring" => s.link.accepted \/ seen.revoked
    BY DEF PolicyInv, TrustInv, HostInv, StreamInv, ArmInv
  <1>3. LinkKept
    BY <1>1, <1>2 DEF LinkKept, SeenAside
  <1>4. kind \in StandingKinds /\ kind \notin Streams
    BY DEF StandingKinds, Streams
  <1> QED
    BY <1>3, <1>4, StandingStep

LEMMA PduLink ==
  ASSUME NEW x \in PolicyRecord
  PROVE  accepted_pairing_pdu(x).link.accepted = x.link.accepted
  <1> DEFINE link == [x.link EXCEPT !.idleSince = now]
             y == [x EXCEPT !.link = link]
  <1>1. link.accepted = x.link.accepted
    BY DEF PolicyRecord, LinkRecord
  <1>2. accepted_pairing_pdu(x) = rearm_drop_timer(y)
    BY DEF accepted_pairing_pdu, PolicyRecord
  <1> HIDE DEF link
  <1>3. HasLink(y) /\ y.link = link
    BY DEF HasLink, PolicyRecord
  <1> HIDE DEF y
  <1> QED
    BY <1>1, <1>2, <1>3, LinkCarried

LEMMA MtuStream ==
  ASSUME PolicyInv, PolicyInv', StreamInv, NEW mtu \in Mtus, MtuAgreed(mtu) PROVE StreamInv'
  BY HeardStep, EventLink DEF MtuAgreed, SeenAside

LEMMA PairingRequestStream ==
  ASSUME PolicyInv, PolicyInv', StreamInv, PairingRequest PROVE StreamInv'
  <1>1. /\ nim.peer # NoCentral /\ UNCHANGED <<now, seen>> /\ nim \in HostRecord
        /\ AtEvent \in PolicyRecord /\ AtEvent.link = s.link /\ HasLink(AtEvent)
    BY EventFacts, EventLink DEF PairingRequest, PolicyInv, PolicyType
  <1>2. nim'.peer = nim.peer /\ nim'.sub = nim.sub /\ nim'.phase \in {"idle", "exchange"}
    BY <1>1 DEF PairingRequest, HostRecord
  <1>3. CASE Stored(store, nim.peer)
    <2>1. /\ Listeners("repeat", nim.peer, 0)
          /\ s' = handle_repeat_pairing(AtEvent, store, nim.peer)[1]
      BY <1>3 DEF PairingRequest, PolicyBecomes
    <2>2. s' = accepted_pairing_pdu(AtEvent) \/ s' = schedule_disconnect(AtEvent, nim.peer)
      BY <2>1 DEF handle_repeat_pairing
    <2>3. s'.link.accepted = s.link.accepted
      BY <1>1, <2>2, PduLink, LinkCarried
    <2> QED
      BY <1>1, <1>2, <2>1, <2>3, HeardStep DEF SeenAside
  <1>4. CASE ~Stored(store, nim.peer)
    <2>1. UNCHANGED streams /\ (StoreFull \/ UNCHANGED s)
      BY <1>4 DEF PairingRequest, policy
    <2>2. s'.link.accepted = s.link.accepted
      BY <2>1, StoreFullFacts DEF Kept
    <2> QED
      BY <1>1, <1>2, <2>1, <2>2, QuietStep DEF SeenAside
  <1> QED
    BY <1>3, <1>4

LEMMA PairingCompleteStream ==
  ASSUME PolicyInv, PolicyInv', StreamInv, PairingComplete PROVE StreamInv'
  <1>1. /\ nim.peer # NoCentral /\ UNCHANGED <<now, seen>> /\ nim \in HostRecord
        /\ AtEvent \in PolicyRecord /\ AtEvent.link = s.link
        /\ Listeners("complete", nim.peer, 0)
    BY EventFacts, EventLink DEF PairingComplete, PolicyInv, PolicyType, TrustInv, HostInv
  <1>2. nim'.peer = nim.peer /\ nim'.sub = nim.sub /\ nim'.phase = "persist"
    BY <1>1 DEF PairingComplete, HostRecord
  <1>3. s' = accepted_pairing_pdu(AtEvent) \/ s' = AtEvent
    BY DEF PairingComplete
  <1>4. s'.link.accepted = s.link.accepted
    BY <1>1, <1>3, PduLink
  <1> QED
    BY <1>1, <1>2, <1>4, HeardStep DEF SeenAside

LEMMA EncryptionStream ==
  ASSUME PolicyInv, PolicyInv', StreamInv, nim.peer # NoCentral, UNCHANGED now,
         NEW ok \in BOOLEAN, NEW full \in BOOLEAN, NEW paired \in BOOLEAN,
         Encryption(ok, full), Judged(paired), nim'.peer = nim.peer, nim'.sub = nim.sub,
         nim'.phase = "restoring" => s'.link.accepted
  PROVE  StreamInv'
  <1>1. s'.link.accepted \in BOOLEAN /\ s.link.accepted \in BOOLEAN /\ s.conn = nim.peer
    BY DEF PolicyInv, PolicyType, PolicyRecord, LinkRecord
  <1>2. /\ seen'.revoked = (seen.revoked \/ (s.link.accepted /\ ~s'.link.accepted))
        /\ seen'.frame = seen.frame /\ seen'.tooSoon = seen.tooSoon /\ seen'.page = seen.page
    <2> DEFINE used == seen.used \/ (paired /\ s'.link.accepted)
               revoked == seen.revoked \/ (s.link.accepted /\ ~s'.link.accepted)
               trusted == IF s.link.accepted THEN now ELSE seen.trusted
    <2>1. seen' = [seen EXCEPT !.used = used, !.revoked = revoked, !.trusted = trusted]
          /\ seen \in SeenRecord({seen.waits})
      BY DEF Judged, PolicyInv, PolicyType, SeenRecord
    <2>2. revoked = (seen.revoked \/ (s.link.accepted /\ ~s'.link.accepted))
      OBVIOUS
    <2> HIDE DEF used, revoked, trusted
    <2>3. seen'.revoked = revoked
      BY <2>1 DEF SeenRecord
    <2>4. seen'.frame = seen.frame /\ seen'.tooSoon = seen.tooSoon /\ seen'.page = seen.page
      BY <2>1 DEF SeenRecord
    <2> QED
      BY <2>2, <2>3, <2>4
  <1>3. LinkKept
    BY <1>1, <1>2 DEF LinkKept
  <1>4. Listeners("enc", nim.peer, 0)
    BY DEF Encryption
  <1>5. "enc" \in StandingKinds /\ "enc" \notin Streams
    BY DEF StandingKinds, Streams
  <1> QED
    BY <1>3, <1>4, <1>5, StandingStep

LEMMA PairingEndsStream ==
  ASSUME PolicyInv, PolicyInv', StreamInv, PairingEnds PROVE StreamInv'
  <1>1. nim.peer # NoCentral /\ nim \in HostRecord /\ nim.fullKey \in BOOLEAN
    BY DEF PairingEnds, PolicyInv, PolicyType, TrustInv, HostInv, HostRecord
  <1>2. nim'.peer = nim.peer /\ nim'.sub = nim.sub /\ nim'.phase = "idle" /\ UNCHANGED now
    BY <1>1 DEF PairingEnds, HostRecord
  <1> QED
    BY <1>1, <1>2, EncryptionStream DEF PairingEnds

LEMMA PairingFailsStream ==
  ASSUME PolicyInv, PolicyInv', StreamInv, PairingFails PROVE StreamInv'
  <1>1. nim.peer # NoCentral /\ nim \in HostRecord
    BY DEF PairingFails, PolicyInv, PolicyType, TrustInv, HostInv
  <1>2. nim'.peer = nim.peer /\ nim'.sub = nim.sub /\ nim'.phase = "idle" /\ UNCHANGED now
    BY <1>1 DEF PairingFails, HostRecord
  <1> QED
    BY <1>1, <1>2, EncryptionStream DEF PairingFails

LEMMA ReencryptStream ==
  ASSUME PolicyInv, PolicyInv', StreamInv, NEW ok \in BOOLEAN, Reencrypt(ok) PROVE StreamInv'
  <1>1. nim.peer # NoCentral /\ nim \in HostRecord /\ Stored(store, nim.peer)
        /\ Encryption(ok, TRUE) /\ Judged(FALSE) /\ UNCHANGED now
    BY DEF Reencrypt, PolicyInv, PolicyType
  <1> DEFINE phase == IF ok /\ store.subs[nim.peer] # {} THEN "restoring" ELSE "idle"
  <1>2. nim'.peer = nim.peer /\ nim'.sub = nim.sub /\ nim'.phase = phase
    <2>1. nim' = [nim EXCEPT !.enc = ok, !.phase = phase]
      BY DEF Reencrypt
    <2> HIDE DEF phase
    <2> QED
      BY <1>1, <2>1 DEF HostRecord
  <1>3. phase = "restoring" => ok
    OBVIOUS
  <1>4. ok => s'.link.accepted
    BY <1>1, EncryptionFacts DEF Encryption, EncGood
  <1> QED
    BY <1>1, <1>2, <1>3, <1>4, EncryptionStream

LEMMA SubscribedStream ==
  ASSUME PolicyInv, PolicyInv', StreamInv, nim.peer # NoCentral, UNCHANGED now,
         NEW k \in Streams, NEW on \in BOOLEAN, Subscribed(k, on),
         s.link.accepted \/ seen.revoked, nim'.peer = nim.peer,
         nim'.sub = IF on THEN nim.sub \cup {k} ELSE nim.sub \ {k}
  PROVE  StreamInv'
  <1>1. s'.link.accepted \in BOOLEAN /\ s.conn = nim.peer /\ seen \in SeenRecord({seen.waits})
    BY DEF PolicyInv, PolicyType, PolicyRecord, LinkRecord
  <1>2. s'.link = s.link /\ Listeners(k, nim.peer, on)
    BY EventLink DEF Subscribed
  <1>3. SeenAside
    BY <1>1 DEF Subscribed, SeenAside, SeenRecord
  <1>4. LinkKept
    BY <1>1, <1>2, <1>3 DEF LinkKept, SeenAside
  <1>5. k \in StandingKinds
    BY DEF StandingKinds, Streams
  <1>6. ~seen'.revoked => s.link.accepted
    BY <1>3 DEF SeenAside
  <1> QED
    BY <1>2, <1>4, <1>5, <1>6, StandingStep

LEMMA RestoreStream ==
  ASSUME PolicyInv, PolicyInv', StreamInv, NEW k \in Streams, Restore(k) PROVE StreamInv'
  <1>1. nim.peer # NoCentral /\ (s.link.accepted \/ seen.revoked) /\ nim \in HostRecord
    BY DEF Restore, PolicyInv, PolicyType, TrustInv, HostInv, StreamInv, ArmInv
  <1>2. nim'.peer = nim.peer /\ nim'.sub = nim.sub \cup {k} /\ UNCHANGED now
    BY <1>1 DEF Restore, HostRecord
  <1> QED
    BY <1>1, <1>2, SubscribedStream DEF Restore

LEMMA SubscribeStream ==
  ASSUME PolicyInv, PolicyInv', StreamInv, NEW k \in Streams, NEW on \in BOOLEAN,
         Subscribe(k, on)
  PROVE  StreamInv'
  <1>1. nim.peer # NoCentral /\ nim \in HostRecord /\ UNCHANGED now
    BY DEF Subscribe, PolicyInv, PolicyType
  <1>2. CASE link_has_accepted_bond(AtEvent, nim.peer)
    <2>1. s.link.accepted
      BY <1>2, EventLink DEF link_has_accepted_bond
    <2>2. nim'.peer = nim.peer /\ nim'.sub = IF on THEN nim.sub \cup {k} ELSE nim.sub \ {k}
      BY <1>1, <1>2 DEF Subscribe, HostRecord
    <2> QED
      BY <1>1, <1>2, <2>1, <2>2, SubscribedStream DEF Subscribe
  <1>3. CASE ~link_has_accepted_bond(AtEvent, nim.peer)
    <2>1. /\ Listeners("authorize", nim.peer, 0) /\ UNCHANGED <<nim, seen>>
          /\ s' = schedule_disconnect(AtEvent, nim.peer)
      BY <1>3 DEF Subscribe
    <2>2. s'.link.accepted = s.link.accepted
      BY <2>1, EventLink, LinkCarried
    <2> QED
      BY <1>1, <2>1, <2>2, HeardStep DEF SeenAside
  <1> QED
    BY <1>2, <1>3

LEMMA SelectPageStream ==
  ASSUME PolicyInv, PolicyInv', StreamInv, NEW k \in Selectors,
         NEW form \in {"ok", "length", "format"}, NEW token, NEW offset \in Pages,
         SelectPage(k, form, token, offset)
  PROVE  StreamInv'
  <1>1. /\ nim.peer # NoCentral /\ UNCHANGED <<now, nim, disc, live, ext, sink, due>>
        /\ s' = check_protected_access /\ seen \in SeenRecord({seen.waits})
    BY DEF SelectPage, Reached, PolicyInv, PolicyType
  <1> DEFINE answer == SelectAnswer(sel[k], nim.peer, form, token, offset)
  <1>2. /\ sel \in [Selectors -> [conn : OptionalCentral, token : Nat, page : Nat]]
        /\ offset \in Nat /\ DocumentLength \in Nat
    BY CompanionAssumption, StreamsAssumption DEF StreamInv, SelectorInv
  <1>3. answer = "None" => offset <= DocumentLength
    BY <1>2 DEF SelectAnswer
  <1>4. /\ sel' = IF answer = "None" THEN [sel EXCEPT ![k].page = offset] ELSE sel
        /\ seen' = IF k = "signal" /\ answer = "None" THEN [seen EXCEPT !.page = offset]
                   ELSE seen
    <2>1. sel' = [sel EXCEPT ![k] = Selected(sel[k], nim.peer, form, token, offset)]
      BY DEF SelectPage
    <2>2. answer # "None" => Selected(sel[k], nim.peer, form, token, offset) = sel[k]
      BY DEF Selected
    <2>3. answer = "None" =>
            Selected(sel[k], nim.peer, form, token, offset) = [sel[k] EXCEPT !.page = offset]
      BY DEF Selected
    <2>4. seen' = IF k = "signal" /\ answer = "None" THEN [seen EXCEPT !.page = offset] ELSE seen
      BY DEF SelectPage
    <2> HIDE DEF answer
    <2> QED
      BY <1>2, <2>1, <2>2, <2>3, <2>4
  <1> HIDE DEF answer
  <1>5. SelectorInv'
    <2>1. CASE answer # "None"
      BY <1>1, <1>4, <2>1 DEF StreamInv, SelectorInv
    <2>2. CASE answer = "None"
      <3>1. sel' = [sel EXCEPT ![k].page = offset]
        BY <1>4, <2>2
      <3>2. /\ sel' \in [Selectors -> [conn : OptionalCentral, token : Nat, page : Nat]]
            /\ \A j \in Selectors : sel'[j].conn = sel[j].conn /\ sel'[j].token = sel[j].token
            /\ sel'["signal"].page = IF k = "signal" THEN offset ELSE sel["signal"].page
        BY <1>2, <3>1 DEF Selectors
      <3>3. seen'.page = IF k = "signal" THEN offset ELSE seen.page
        BY <1>1, <1>4, <2>2 DEF SeenRecord
      <3> QED
        BY <1>1, <1>3, <2>2, <3>2, <3>3 DEF StreamInv, SelectorInv
    <2> QED
      BY <2>1, <2>2
  <1>6. s'.link.accepted = s.link.accepted
    BY <1>1, CheckLink
  <1>7. seen'.revoked = seen.revoked /\ seen'.frame = seen.frame /\ seen'.tooSoon = seen.tooSoon
    BY <1>1, <1>4 DEF SeenRecord
  <1>8. SinkInv' /\ ArmInv' /\ RateInv'
    BY <1>1, <1>6, <1>7
       DEF StreamInv, SinkInv, ArmInv, RateInv, Sampling, LiveTyped, ExtTyped
  <1> QED
    BY <1>5, <1>8 DEF StreamInv


-----------------------------------------------------------------------------
(* Links begin and end. *)
LEMMA DueTyped ==
  ASSUME now \in Nat, NEW l, NEW e, LiveTyped(l), ExtTyped(e)
  PROVE  [live |-> LiveDue(l), ext |-> ExtDue(e)] \in [Streams -> OptionalTime]
  <1>1. l.lastSample \in OptionalTime /\ e.lastSample \in OptionalTime
    BY DEF LiveTyped, LiveRecord, ExtTyped, ExtRecord
  <1>2. LiveHolds(l) \in BOOLEAN /\ ExtHolds(e) \in BOOLEAN
    BY DEF LiveHolds, ExtHolds
  <1>3. LiveDue(l) \in OptionalTime /\ ExtDue(e) \in OptionalTime
    BY <1>1, <1>2, DueFacts DEF LiveDue, ExtDue
  <1> QED
    BY <1>3 DEF Streams

LEMMA Fresh ==
  ASSUME PolicyInv, PolicyInv', LiveTyped(live'), ExtTyped(ext'), sink' = nim'.peer,
         due' \in [Streams -> OptionalTime], nim'.sub = {}, ~live'.notify, ~ext'.notify,
         live'.notify \in BOOLEAN, ext'.notify \in BOOLEAN, ext'.mtu = live'.mtu,
         Sampling(live)', Sampling(ext)', ~s'.link.accepted \/ nim'.peer = NoCentral,
         nim'.phase = "idle"
  PROVE  SinkInv' /\ ArmInv'
  BY DEF SinkInv, ArmInv

LEMMA ConnectStream ==
  ASSUME PolicyInv, PolicyInv', StreamInv, NEW c \in Centrals, Connect(c) PROVE StreamInv'
  <1> DEFINE la == StreamAfter("live", live, NewLive, "connect", c, 0)
             ea == StreamAfter("ext", ext, NewExt, "connect", c, 0)
             sels == IF budget.discoveryFirst THEN SelectorsAfter("connect", c) ELSE sel
  <1>0. /\ nim.peer = Never /\ sink = Never /\ disc.conn = Never /\ disc.next \in Nat
        /\ c # Never /\ c \in OptionalCentral /\ now \in Nat /\ nim \in HostRecord
        /\ seen \in SeenRecord({seen.waits}) /\ LiveTyped(live) /\ ExtTyped(ext)
        /\ \A k \in Selectors : sel[k].conn = Never
        /\ disc \in [conn : OptionalCentral, next : Nat]
    BY CompanionAssumption
       DEF Connect, PolicyInv, PolicyType, StreamInv, SinkInv, SelectorInv, OptionalCentral
  <1>1. /\ SinkAfter("connect", c) = c
        /\ DiscoveryAfter("connect", c) = [conn |-> c, next |-> disc.next + 1]
        /\ SelectorsAfter("connect", c)
             = [k \in Selectors |-> [conn |-> c, token |-> disc.next + 1, page |-> 0]]
    BY <1>0, OneNothing DEF SinkAfter, DiscoveryAfter, SelectorsAfter, SelectorConnected
  <1>2. /\ disc' = [conn |-> c, next |-> disc.next + 1] /\ sink' = c
        /\ sel' = [k \in Selectors |-> [conn |-> c, token |-> disc.next + 1, page |-> 0]]
        /\ live' = LiveGated(la, s, c) /\ ext' = ExtGated(ea, s, c, sels)
        /\ due' = [live |-> LiveDue(live'), ext |-> ExtDue(ext')]
    BY <1>1 DEF Connect, Listeners
  <1>3. /\ LiveTyped(la) /\ la.notify = FALSE /\ la.mtu = 23 /\ la.lastSample = Never
        /\ ExtTyped(ea) /\ ea.notify = FALSE /\ ea.mtu = 23 /\ ea.lastSample = Never
    BY <1>0, LiveLinked, ExtLinked
  <1> HIDE DEF la, ea, sels
  <1>4. /\ LiveTyped(live') /\ live'.notify = FALSE /\ live'.mtu = 23
        /\ live'.lastSample = Never
        /\ ExtTyped(ext') /\ ext'.notify = FALSE /\ ext'.mtu = 23 /\ ext'.lastSample = Never
    BY <1>2, <1>3, LiveGatedFacts, ExtGatedFacts
  <1>5. nim'.peer = c /\ nim'.sub = {} /\ nim'.phase = "idle" /\ now' = now
    BY <1>0 DEF Connect, HostRecord
  <1>6. ~s'.link.accepted
    <2> DEFINE y == [RefusedForgotten(AtEvent) EXCEPT !.conn = c, !.dropConn = NoCentral,
                                                      !.link = LinkConnected(now)]
    <2>1. s' = rearm_drop_timer(y)
      BY DEF Connect, PolicyBecomes, handle_connect
    <2>2. HasLink(y) /\ y.link = LinkConnected(now)
      BY EventLink DEF HasLink, RefusedForgotten
    <2> HIDE DEF y
    <2>3. s'.link = LinkConnected(now)
      BY <2>1, <2>2, LinkCarried
    <2> QED
      BY <2>3 DEF LinkConnected, NoLink
  <1>7. /\ seen'.page = 0 /\ seen'.tooSoon = FALSE
        /\ seen'.frame = [k \in Streams |-> Never]
    BY <1>0 DEF Connect, SeenRecord
  <1>8. due' \in [Streams -> OptionalTime]
    BY <1>0, <1>2, <1>4, DueTyped
  <1>9. Sampling(live)' /\ Sampling(ext)'
    BY <1>4 DEF Sampling
  <1>10. SinkInv' /\ ArmInv'
    BY <1>2, <1>4, <1>5, <1>6, <1>8, <1>9, Fresh
  <1>11. SelectorInv'
    <2>1. disc.next + 1 \in Nat /\ disc.next + 1 # 0
      BY <1>0
    <2> QED
      BY <1>0, <1>2, <1>5, <1>7, <2>1, StreamsAssumption DEF SelectorInv, Selectors
  <1>12. RateInv'
    BY <1>7 DEF RateInv, Streams
  <1> QED
    BY <1>10, <1>11, <1>12 DEF StreamInv

LEMMA ConnectFailsStream ==
  ASSUME PolicyInv, PolicyInv', StreamInv, ConnectFails PROVE StreamInv'
  <1>0. /\ nim.peer = Never /\ sink = Never /\ now \in Nat /\ nim \in HostRecord
        /\ LiveTyped(live) /\ ExtTyped(ext) /\ UNCHANGED <<now, seen>>
    BY DEF ConnectFails, PolicyInv, PolicyType, StreamInv, SinkInv
  <1>1. /\ SinkAfter("failed", Never) = sink /\ DiscoveryAfter("failed", Never) = disc
        /\ SelectorsAfter("failed", Never) = sel
    BY DEF SinkAfter, DiscoveryAfter, SelectorsAfter
  <1>2. /\ StreamAfter("live", live, NewLive, "failed", Never, 0) = live
        /\ StreamAfter("ext", ext, NewExt, "failed", Never, 0) = ext
    BY DEF StreamAfter
  <1>3. /\ UNCHANGED <<disc, sel, sink>>
        /\ live' = LiveGated(live, s, sink) /\ ext' = ExtGated(ext, s, sink, sel)
        /\ due' = [live |-> LiveDue(live'), ext |-> ExtDue(ext')]
    BY <1>1, <1>2 DEF ConnectFails, Listeners
  <1>4. /\ LiveTyped(live') /\ live'.notify = live.notify /\ live'.mtu = live.mtu
        /\ live'.lastSample = live.lastSample
        /\ ExtTyped(ext') /\ ext'.notify = ext.notify /\ ext'.mtu = ext.mtu
        /\ ext'.lastSample = ext.lastSample
    BY <1>0, <1>3, LiveGatedFacts, ExtGatedFacts
  <1>5. nim'.peer = Never /\ nim'.sub = nim.sub
    BY <1>0 DEF ConnectFails, AdvertisingStarts, HostRecord
  <1>6. due' \in [Streams -> OptionalTime]
    BY <1>0, <1>3, <1>4, DueTyped
  <1>7. SelectorInv'
    BY <1>0, <1>3, <1>5 DEF StreamInv, SelectorInv
  <1>8. SinkInv'
    BY <1>0, <1>3, <1>4, <1>5, <1>6 DEF StreamInv, SinkInv, Sampling
  <1>9. ArmInv' /\ RateInv'
    BY <1>0, <1>5 DEF StreamInv, ArmInv, RateInv
  <1> QED
    BY <1>7, <1>8, <1>9 DEF StreamInv

LEMMA LinkGoneStream ==
  ASSUME PolicyInv, PolicyInv', StreamInv, nim.peer # NoCentral, NEW synced \in BOOLEAN,
         LinkGone(synced)
  PROVE  StreamInv'
  <1> DEFINE c == nim.peer
             la == StreamAfter("live", live, NewLive, "disconnect", c, 0)
             ea == StreamAfter("ext", ext, NewExt, "disconnect", c, 0)
             sels == IF budget.discoveryFirst THEN SelectorsAfter("disconnect", c) ELSE sel
  <1>0. /\ sink = c /\ disc.conn = c /\ disc.next \in Nat /\ UNCHANGED <<now, seen>>
        /\ c # Never /\ now \in Nat /\ nim \in HostRecord /\ LiveTyped(live) /\ ExtTyped(ext)
        /\ \A k \in Selectors : sel[k].conn = c
        /\ disc \in [conn : OptionalCentral, next : Nat]
    BY DEF LinkGone, PolicyInv, PolicyType, StreamInv, SinkInv, SelectorInv
  <1>1. /\ SinkAfter("disconnect", c) = Never
        /\ DiscoveryAfter("disconnect", c) = [disc EXCEPT !.conn = Never]
        /\ SelectorsAfter("disconnect", c) = [k \in Selectors |-> NoSelector]
    BY <1>0 DEF SinkAfter, DiscoveryAfter, SelectorsAfter, SelectorDisconnected
  <1>2. /\ disc' = [disc EXCEPT !.conn = Never] /\ sink' = Never
        /\ sel' = [k \in Selectors |-> NoSelector]
        /\ live' = LiveGated(la, s, Never) /\ ext' = ExtGated(ea, s, Never, sels)
        /\ due' = [live |-> LiveDue(live'), ext |-> ExtDue(ext')]
    BY <1>1 DEF LinkGone, Listeners
  <1>3. /\ LiveTyped(la) /\ la.notify = FALSE /\ la.mtu = 0 /\ la.lastSample = Never
        /\ ExtTyped(ea) /\ ea.notify = FALSE /\ ea.mtu = 0 /\ ea.lastSample = Never
    BY <1>0, LiveUnlinked, ExtUnlinked, NewLiveFacts, NewExtFacts
  <1> HIDE DEF la, ea, sels
  <1>4. /\ LiveTyped(live') /\ live'.notify = FALSE /\ live'.mtu = 0
        /\ live'.lastSample = Never
        /\ ExtTyped(ext') /\ ext'.notify = FALSE /\ ext'.mtu = 0 /\ ext'.lastSample = Never
    BY <1>2, <1>3, LiveGatedFacts, ExtGatedFacts
  <1>5. nim'.peer = Never /\ nim'.sub = {} /\ nim'.phase = "idle"
    <2>1. PICK on \in AdvertisingStarts :
            nim' = [nim EXCEPT !.peer = NoCentral, !.adv = on /\ synced, !.synced = synced,
                               !.enc = FALSE, !.phase = "idle", !.left = <<>>,
                               !.term = FALSE, !.sub = {}]
      BY DEF LinkGone
    <2> DEFINE adv == on /\ synced
    <2>2. nim' = [nim EXCEPT !.peer = NoCentral, !.adv = adv, !.synced = synced,
                             !.enc = FALSE, !.phase = "idle", !.left = <<>>,
                             !.term = FALSE, !.sub = {}]
      BY <2>1
    <2> HIDE DEF adv
    <2> QED
      BY <1>0, <2>2 DEF HostRecord
  <1>6. due' \in [Streams -> OptionalTime]
    BY <1>0, <1>2, <1>4, DueTyped
  <1>7. Sampling(live)' /\ Sampling(ext)'
    BY <1>4 DEF Sampling
  <1>8. SinkInv' /\ ArmInv'
    BY <1>2, <1>4, <1>5, <1>6, <1>7, Fresh
  <1>9. SelectorInv'
    BY <1>0, <1>2, <1>5, OneNothing DEF SelectorInv, Selectors, NoSelector, OptionalCentral
  <1>10. RateInv'
    BY <1>0, <1>5 DEF StreamInv, RateInv
  <1> QED
    BY <1>8, <1>9, <1>10 DEF StreamInv

LEMMA EndStream ==
  ASSUME PolicyInv, PolicyInv', StreamInv, Disconnect \/ HostReset PROVE StreamInv'
  <1>1. CASE nim.peer # NoCentral
    <2>1. LinkGone(TRUE) \/ LinkGone(FALSE)
      BY <1>1 DEF Disconnect, HostReset
    <2> QED
      BY <1>1, <2>1, LinkGoneStream
  <1>2. CASE nim.peer = NoCentral
    <2>1. /\ UNCHANGED <<now, s, seen, streams>> /\ nim \in HostRecord
          /\ nim' = [nim EXCEPT !.synced = FALSE, !.adv = FALSE]
      BY <1>2 DEF Disconnect, HostReset, PolicyInv, PolicyType
    <2>2. nim'.peer = nim.peer /\ nim'.sub = nim.sub /\ nim'.phase = nim.phase
      BY <2>1 DEF HostRecord
    <2> QED
      BY <2>1, <2>2, QuietStep DEF SeenAside
  <1> QED
    BY <1>1, <1>2


-----------------------------------------------------------------------------
(* The samples. *)
LEMMA LiveOfferedFacts ==
  ASSUME NEW st, LiveTyped(st), now \in Nat, NEW content, NEW queued \in BOOLEAN
  PROVE  LET l == LiveOffered(st, now, content, queued)
         IN  /\ LiveTyped(l) /\ l.notify = st.notify /\ l.secured = st.secured
             /\ l.mtu = st.mtu /\ l.lastSample \in {st.lastSample, now}
             /\ LiveSends(st, now, content) => l.lastSample = now
  <1> DEFINE late == [st EXCEPT !.lastSample = now]
             next == (st.seq + 1) % 256
             kept == IF queued THEN <<content>> ELSE st.accepted
             sent == [st EXCEPT !.lastSample = now, !.lastAttempt = now, !.seq = next,
                                !.accepted = kept]
             l == LiveOffered(st, now, content, queued)
  <1>1. now \in OptionalTime /\ next \in LiveSeqs
    BY NextSeq DEF OptionalTime, LiveTyped, LiveRecord
  <1>2. l = IF ~LiveHolds(st) \/ ~Due(st.lastSample, FrameInterval, now) THEN st
            ELSE IF ~FrameDue(st, now, content) THEN late ELSE sent
    BY DEF LiveOffered, LiveTyped, LiveRecord
  <1> HIDE DEF next, kept
  <1>3. /\ LiveTyped(late) /\ late.notify = st.notify /\ late.secured = st.secured
        /\ late.mtu = st.mtu /\ late.lastSample = now
    BY <1>1 DEF LiveTyped, LiveRecord
  <1>4. /\ LiveTyped(sent) /\ sent.notify = st.notify /\ sent.secured = st.secured
        /\ sent.mtu = st.mtu /\ sent.lastSample = now
    BY <1>1 DEF LiveTyped, LiveRecord
  <1> HIDE DEF late, sent, l
  <1>5. LiveSends(st, now, content) => l = sent
    BY <1>2 DEF LiveSends
  <1>6. l \in {st, late, sent}
    BY <1>2
  <1> QED
    BY <1>3, <1>4, <1>5, <1>6 DEF l

LEMMA ExtOfferedFacts ==
  ASSUME NEW st, ExtTyped(st), now \in Nat, NEW content, NEW queued \in BOOLEAN
  PROVE  LET e == ExtOffered(st, content, now, queued)
         IN  /\ ExtTyped(e) /\ e.notify = st.notify /\ e.secured = st.secured
             /\ e.mtu = st.mtu /\ e.token = st.token /\ e.lastSample \in {st.lastSample, now}
             /\ ExtSends(st, content, now) => e.lastSample = now
  <1> DEFINE late == [st EXCEPT !.lastSample = now]
             seq == (st.seq + 1) % 65536
             emptyAt == IF queued THEN now ELSE st.emptyAt
             beat == [st EXCEPT !.lastSample = now, !.seq = seq, !.emptyAt = emptyAt]
             p == Packed(st, content, now)
             records == {p.records[i] : i \in DOMAIN p.records}
             accepted == [h \in DOMAIN st.accepted |->
                            LET mine == {r \in records : r.handle = h}
                            IN IF queued /\ mine # {}
                               THEN [rec |-> <<CHOOSE r \in mine : TRUE>>, at |-> now]
                               ELSE st.accepted[h]]
             next == p.next
             sent == [st EXCEPT !.lastSample = now, !.seq = seq, !.next = next,
                                !.accepted = accepted]
             e == ExtOffered(st, content, now, queued)
  <1>1. now \in OptionalTime /\ seq \in ExtSeqs
    BY NextSeq DEF OptionalTime, ExtTyped, ExtRecord
  <1>2. e = IF ~ExtHolds(st) \/ ~Due(st.lastSample, FrameInterval, now) THEN st
            ELSE IF ~ExtSends(st, content, now) THEN late
            ELSE IF SignalCount = 0 THEN beat ELSE sent
    BY DEF ExtOffered, ExtTyped, ExtRecord
  <1> HIDE DEF seq, emptyAt, accepted, next
  <1>3. /\ ExtTyped(late) /\ late.notify = st.notify /\ late.secured = st.secured
        /\ late.mtu = st.mtu /\ late.token = st.token /\ late.lastSample = now
    BY <1>1 DEF ExtTyped, ExtRecord
  <1>4. /\ ExtTyped(beat) /\ beat.notify = st.notify /\ beat.secured = st.secured
        /\ beat.mtu = st.mtu /\ beat.token = st.token /\ beat.lastSample = now
    BY <1>1 DEF ExtTyped, ExtRecord
  <1>5. /\ ExtTyped(sent) /\ sent.notify = st.notify /\ sent.secured = st.secured
        /\ sent.mtu = st.mtu /\ sent.token = st.token /\ sent.lastSample = now
    BY <1>1 DEF ExtTyped, ExtRecord
  <1> HIDE DEF late, beat, sent, e
  <1>6. ExtSends(st, content, now) => e \in {beat, sent}
    BY <1>2 DEF ExtSends
  <1>7. e \in {st, late, beat, sent}
    BY <1>2
  <1> QED
    BY <1>3, <1>4, <1>5, <1>6, <1>7 DEF e

LEMMA DueLater ==
  ASSUME now \in Nat, NEW last \in OptionalTime, NEW frame \in OptionalTime,
         last # Never => last <= now, Due(last, FrameInterval, now),
         frame # Never => last # Never /\ frame <= last
  PROVE  frame # Never => ~(now < frame + FrameInterval)
  <1> SUFFICES ASSUME frame # Never PROVE ~(now < frame + FrameInterval)
    OBVIOUS
  <1>1. /\ frame \in Nat /\ last \in Nat /\ frame <= last /\ last <= now /\ FrameInterval \in Nat
        /\ now - last >= FrameInterval
    BY OneNothing, PolicyAssumption, StreamsAssumption DEF OptionalTime, Due
  <1> QED
    BY <1>1

(* A frame is sent on a trusted, subscribed link with room, when it is due. *)
Sendable(k) ==
  /\ nim.peer # NoCentral /\ s.link.accepted /\ k \in nim.sub /\ live.mtu >= MinMtu
  /\ ~(seen.frame[k] # Never /\ now < seen.frame[k] + FrameInterval)

LEMMA LiveSample ==
  ASSUME PolicyInv, StreamInv, SampleLive
  PROVE  /\ LiveTyped(live') /\ live'.notify = live.notify /\ live'.mtu = live.mtu
         /\ live'.lastSample \in {live.lastSample, now}
         /\ due' \in [Streams -> OptionalTime] /\ due'["ext"] = due["ext"]
         /\ nim.peer # NoCentral /\ s.link.accepted /\ live.notify /\ live.mtu >= MinMtu
              => due'["live"] # Never
         /\ \/ seen' = seen
            \/ /\ seen' = SentFrame("live", seen.waits) /\ Sendable("live")
               /\ live'.lastSample = now
  <1> DEFINE st == LiveGated(live, s, sink)
             content == LiveContent(read.started, read.of)
  <1>0. /\ now \in Nat /\ sink = nim.peer /\ s.conn = nim.peer /\ LiveTyped(live)
        /\ due \in [Streams -> OptionalTime] /\ live.notify = ("live" \in nim.sub)
        /\ nim.peer = NoCentral => nim.sub = {}
        /\ seen.frame \in [Streams -> OptionalTime] /\ Sampling(live)
    BY DEF PolicyInv, PolicyType, SeenRecord, StreamInv, SinkInv
  <1>1. /\ LiveTyped(st) /\ st.notify = live.notify /\ st.mtu = live.mtu
        /\ st.lastSample = live.lastSample
        /\ nim.peer # NoCentral => st.secured = link_has_accepted_bond(s, nim.peer)
    BY <1>0, LiveGatedFacts
  <1>2. PICK queued \in BOOLEAN : live' = LiveOffered(st, now, content, queued)
    BY DEF SampleLive
  <1>3. /\ due' = [due EXCEPT !["live"] = LiveDue(live')]
        /\ seen' = IF LiveSends(st, now, content) THEN SentFrame("live", seen.waits) ELSE seen
    BY DEF SampleLive
  <1> HIDE DEF st, content
  <1>4. /\ LiveTyped(live') /\ live'.notify = st.notify /\ live'.secured = st.secured
        /\ live'.mtu = st.mtu /\ live'.lastSample \in {st.lastSample, now}
        /\ LiveSends(st, now, content) => live'.lastSample = now
    BY <1>0, <1>1, <1>2, LiveOfferedFacts
  <1>5. LiveDue(live') \in OptionalTime /\ (LiveHolds(live') => LiveDue(live') # Never)
    <2>1. live'.lastSample \in OptionalTime /\ LiveHolds(live') \in BOOLEAN
      BY <1>4 DEF LiveTyped, LiveRecord, LiveHolds
    <2> QED
      BY <1>0, <2>1, DueFacts DEF LiveDue
  <1>6. due' \in [Streams -> OptionalTime] /\ due'["ext"] = due["ext"]
        /\ due'["live"] = LiveDue(live')
    BY <1>0, <1>3, <1>5 DEF Streams
  <1>7. nim.peer # NoCentral /\ s.link.accepted /\ live.notify /\ live.mtu >= MinMtu
          => LiveHolds(live')
    BY <1>0, <1>1, <1>4 DEF LiveHolds, link_has_accepted_bond
  <1>8. LiveSends(st, now, content) => Sendable("live")
    <2> SUFFICES ASSUME LiveSends(st, now, content) PROVE Sendable("live")
      OBVIOUS
    <2>1. st.notify /\ st.secured /\ st.mtu >= MinMtu /\ Due(st.lastSample, FrameInterval, now)
      BY DEF LiveSends, LiveHolds
    <2>2. "live" \in nim.sub /\ nim.peer # NoCentral /\ live.mtu >= MinMtu
      BY <1>0, <1>1, <2>1
    <2>3. s.link.accepted
      BY <1>1, <2>1, <2>2 DEF link_has_accepted_bond
    <2>4. live.lastSample \in OptionalTime /\ seen.frame["live"] \in OptionalTime
          /\ (live.lastSample # Never => live.lastSample <= now)
          /\ (seen.frame["live"] # Never =>
                live.lastSample # Never /\ seen.frame["live"] <= live.lastSample)
      BY <1>0, <2>2 DEF LiveTyped, LiveRecord, Streams, Sampling, StreamInv, RateInv
    <2>5. ~(seen.frame["live"] # Never /\ now < seen.frame["live"] + FrameInterval)
      BY <1>0, <1>1, <2>1, <2>4, DueLater
    <2> QED
      BY <2>2, <2>3, <2>5 DEF Sendable
  <1> QED
    BY <1>1, <1>3, <1>4, <1>5, <1>6, <1>7, <1>8

LEMMA ExtSample ==
  ASSUME PolicyInv, StreamInv, SampleExt
  PROVE  /\ ExtTyped(ext') /\ ext'.notify = ext.notify /\ ext'.mtu = ext.mtu
         /\ ext'.lastSample \in {ext.lastSample, now}
         /\ due' \in [Streams -> OptionalTime] /\ due'["live"] = due["live"]
         /\ nim.peer # NoCentral /\ s.link.accepted /\ ext.notify /\ live.mtu >= MinMtu
              /\ Available => due'["ext"] # Never
         /\ \/ seen' = seen
            \/ /\ \E waits : seen' = SentFrame("ext", waits)
               /\ Sendable("ext") /\ ext'.lastSample = now
  <1> DEFINE st == ExtGated(ext, s, sink, sel)
             content == read.of
  <1>0. /\ now \in Nat /\ sink = nim.peer /\ s.conn = nim.peer /\ ExtTyped(ext)
        /\ due \in [Streams -> OptionalTime] /\ ext.notify = ("ext" \in nim.sub)
        /\ nim.peer = NoCentral => nim.sub = {}
        /\ nim.peer # NoCentral => sel["signal"].conn = nim.peer /\ sel["signal"].token # 0
        /\ seen.frame \in [Streams -> OptionalTime] /\ Sampling(ext) /\ ext.mtu = live.mtu
    BY DEF PolicyInv, PolicyType, SeenRecord, StreamInv, SinkInv, SelectorInv, Selectors
  <1>1. /\ ExtTyped(st) /\ st.notify = ext.notify /\ st.mtu = ext.mtu
        /\ st.lastSample = ext.lastSample
        /\ nim.peer # NoCentral => /\ st.secured = link_has_accepted_bond(s, nim.peer)
                                   /\ st.token = TokenFor(sel["signal"], nim.peer)
    BY <1>0, ExtGatedFacts
  <1>2. PICK queued \in BOOLEAN : ext' = ExtOffered(st, content, now, queued)
    BY DEF SampleExt
  <1>3. /\ due' = [due EXCEPT !["ext"] = ExtDue(ext')]
        /\ \/ seen' = seen
           \/ ExtSends(st, content, now) /\ \E waits : seen' = SentFrame("ext", waits)
    BY DEF SampleExt
  <1> HIDE DEF st, content
  <1>4. /\ ExtTyped(ext') /\ ext'.notify = st.notify /\ ext'.secured = st.secured
        /\ ext'.mtu = st.mtu /\ ext'.token = st.token
        /\ ext'.lastSample \in {st.lastSample, now}
        /\ ExtSends(st, content, now) => ext'.lastSample = now
    BY <1>0, <1>1, <1>2, ExtOfferedFacts
  <1>5. ExtDue(ext') \in OptionalTime /\ (ExtHolds(ext') => ExtDue(ext') # Never)
    <2>1. ext'.lastSample \in OptionalTime /\ ExtHolds(ext') \in BOOLEAN
      BY <1>4 DEF ExtTyped, ExtRecord, ExtHolds
    <2> QED
      BY <1>0, <2>1, DueFacts DEF ExtDue
  <1>6. due' \in [Streams -> OptionalTime] /\ due'["live"] = due["live"]
        /\ due'["ext"] = ExtDue(ext')
    BY <1>0, <1>3, <1>5 DEF Streams
  <1>7. nim.peer # NoCentral /\ s.link.accepted /\ ext.notify /\ live.mtu >= MinMtu /\ Available
          => ExtHolds(ext')
    <2>1. nim.peer # NoCentral /\ Available => TokenFor(sel["signal"], nim.peer) # 0
      BY <1>0, OneNothing DEF TokenFor, Active
    <2> QED
      BY <1>0, <1>1, <1>4, <2>1 DEF ExtHolds, link_has_accepted_bond
  <1>8. ExtSends(st, content, now) => Sendable("ext")
    <2> SUFFICES ASSUME ExtSends(st, content, now) PROVE Sendable("ext")
      OBVIOUS
    <2>1. st.notify /\ st.secured /\ st.mtu >= MinMtu /\ Due(st.lastSample, FrameInterval, now)
      BY DEF ExtSends, ExtHolds
    <2>2. "ext" \in nim.sub /\ nim.peer # NoCentral /\ live.mtu >= MinMtu
      BY <1>0, <1>1, <2>1
    <2>3. s.link.accepted
      BY <1>1, <2>1, <2>2 DEF link_has_accepted_bond
    <2>4. ext.lastSample \in OptionalTime /\ seen.frame["ext"] \in OptionalTime
          /\ (ext.lastSample # Never => ext.lastSample <= now)
          /\ (seen.frame["ext"] # Never =>
                ext.lastSample # Never /\ seen.frame["ext"] <= ext.lastSample)
      BY <1>0, <2>2 DEF ExtTyped, ExtRecord, Streams, Sampling, StreamInv, RateInv
    <2>5. ~(seen.frame["ext"] # Never /\ now < seen.frame["ext"] + FrameInterval)
      BY <1>0, <1>1, <2>1, <2>4, DueLater
    <2> QED
      BY <2>2, <2>3, <2>5 DEF Sendable
  <1> QED
    BY <1>1, <1>3, <1>4, <1>5, <1>6, <1>7, <1>8


LEMMA SentFacts ==
  ASSUME PolicyInv, NEW k \in Streams, NEW waits, seen' = SentFrame(k, waits)
  PROVE  /\ seen'.frame = [seen.frame EXCEPT ![k] = now]
         /\ \A j \in Streams : j # k => seen'.sent[j] = seen.sent[j]
         /\ seen'.revoked = seen.revoked /\ seen'.page = seen.page
         /\ Sendable(k) /\ ~seen.tooSoon => ~seen'.tooSoon
  <1> DEFINE soon == seen.tooSoon \/ (seen.frame[k] # Never
                                        /\ now < seen.frame[k] + FrameInterval)
             frame == [seen.frame EXCEPT ![k] = now]
             sent == [seen.sent EXCEPT ![k] = @ + 1]
  <1>1. seen \in SeenRecord({seen.waits})
    BY DEF PolicyInv, PolicyType
  <1>2. seen' = [seen EXCEPT !.frame = frame, !.sent = sent, !.waits = waits, !.tooSoon = soon]
    BY <1>1 DEF SentFrame, SeenRecord
  <1>3. Sendable(k) /\ ~seen.tooSoon => ~soon
    BY DEF Sendable
  <1>4. \A j \in Streams : j # k => sent[j] = seen.sent[j]
    BY <1>1 DEF SeenRecord
  <1> HIDE DEF soon, sent
  <1>5. /\ seen'.frame = frame /\ seen'.sent = sent /\ seen'.tooSoon = soon
        /\ seen'.revoked = seen.revoked /\ seen'.page = seen.page
    BY <1>1, <1>2 DEF SeenRecord
  <1> QED
    BY <1>3, <1>4, <1>5

LEMMA SampleLiveStream ==
  ASSUME PolicyInv, PolicyInv', StreamInv, SampleLive PROVE StreamInv'
  <1>1. UNCHANGED <<now, s, nim, disc, sel, ext, sink>>
    BY DEF SampleLive, policy
  <1>2. /\ LiveTyped(live') /\ live'.notify = live.notify /\ live'.mtu = live.mtu
        /\ live'.lastSample \in {live.lastSample, now}
        /\ due' \in [Streams -> OptionalTime] /\ due'["ext"] = due["ext"]
        /\ nim.peer # NoCentral /\ s.link.accepted /\ live.notify /\ live.mtu >= MinMtu
              => due'["live"] # Never
        /\ \/ seen' = seen
           \/ /\ seen' = SentFrame("live", seen.waits) /\ Sendable("live")
              /\ live'.lastSample = now
    BY LiveSample
  <1>3. /\ now \in Nat /\ seen.frame \in [Streams -> OptionalTime] /\ "live" \in Streams
        /\ "ext" \in Streams /\ live.lastSample \in OptionalTime /\ ~seen.tooSoon
    BY DEF PolicyInv, PolicyType, SeenRecord, Streams, StreamInv, SinkInv, RateInv, LiveTyped,
           LiveRecord
  <1>4. /\ seen'.revoked = seen.revoked /\ seen'.page = seen.page /\ ~seen'.tooSoon
        /\ \/ seen'.frame = seen.frame
           \/ seen'.frame = [seen.frame EXCEPT !["live"] = now] /\ live'.lastSample = now
    BY <1>2, <1>3, SentFacts
  <1>5. SelectorInv'
    BY <1>1, <1>4 DEF StreamInv, SelectorInv
  <1>6. SinkInv'
    BY <1>1, <1>2, <1>3 DEF StreamInv, SinkInv, Sampling, ExtTyped
  <1>7. ArmInv'
    BY <1>1, <1>2, <1>4 DEF StreamInv, ArmInv
  <1>8. RateInv'
    <2> SUFFICES ASSUME nim.peer # NoCentral
                 PROVE  /\ seen'.frame["live"] # Never =>
                             live'.lastSample # Never /\ seen'.frame["live"] <= live'.lastSample
                        /\ seen'.frame["ext"] # Never =>
                             ext.lastSample # Never /\ seen'.frame["ext"] <= ext.lastSample
      BY <1>1, <1>4 DEF RateInv
    <2>1. seen'.frame["ext"] = seen.frame["ext"]
      BY <1>3, <1>4
    <2>2. /\ seen.frame["live"] # Never =>
               live.lastSample # Never /\ seen.frame["live"] <= live.lastSample
          /\ seen.frame["ext"] # Never =>
               ext.lastSample # Never /\ seen.frame["ext"] <= ext.lastSample
          /\ live.lastSample # Never => live.lastSample <= now
      BY DEF StreamInv, RateInv, SinkInv, Sampling
    <2>3. seen.frame["live"] \in OptionalTime /\ now # Never
      BY <1>3, PolicyAssumption
    <2>4. CASE live'.lastSample = live.lastSample /\ seen'.frame = seen.frame
      BY <2>1, <2>2, <2>4
    <2>5. CASE live'.lastSample = now /\ seen'.frame = seen.frame
      BY <1>3, <2>1, <2>2, <2>3, <2>5 DEF OptionalTime
    <2>6. CASE seen'.frame = [seen.frame EXCEPT !["live"] = now] /\ live'.lastSample = now
      BY <1>3, <2>1, <2>2, <2>3, <2>6
    <2> QED
      BY <1>2, <1>4, <2>4, <2>5, <2>6
  <1> QED
    BY <1>5, <1>6, <1>7, <1>8 DEF StreamInv

LEMMA SampleExtStream ==
  ASSUME PolicyInv, PolicyInv', StreamInv, SampleExt PROVE StreamInv'
  <1>1. UNCHANGED <<now, s, nim, disc, sel, live, sink>>
    BY DEF SampleExt, policy
  <1>2. /\ ExtTyped(ext') /\ ext'.notify = ext.notify /\ ext'.mtu = ext.mtu
        /\ ext'.lastSample \in {ext.lastSample, now}
        /\ due' \in [Streams -> OptionalTime] /\ due'["live"] = due["live"]
        /\ nim.peer # NoCentral /\ s.link.accepted /\ ext.notify /\ live.mtu >= MinMtu
             /\ Available => due'["ext"] # Never
        /\ \/ seen' = seen
           \/ /\ \E waits : seen' = SentFrame("ext", waits)
              /\ Sendable("ext") /\ ext'.lastSample = now
    BY ExtSample
  <1>3. /\ now \in Nat /\ seen.frame \in [Streams -> OptionalTime] /\ "live" \in Streams
        /\ "ext" \in Streams /\ ext.lastSample \in OptionalTime /\ ~seen.tooSoon
    BY DEF PolicyInv, PolicyType, SeenRecord, Streams, StreamInv, SinkInv, RateInv, ExtTyped,
           ExtRecord
  <1>4. /\ seen'.revoked = seen.revoked /\ seen'.page = seen.page /\ ~seen'.tooSoon
        /\ \/ seen'.frame = seen.frame
           \/ seen'.frame = [seen.frame EXCEPT !["ext"] = now] /\ ext'.lastSample = now
    BY <1>2, <1>3, SentFacts
  <1>5. SelectorInv'
    BY <1>1, <1>4 DEF StreamInv, SelectorInv
  <1>6. SinkInv'
    BY <1>1, <1>2, <1>3 DEF StreamInv, SinkInv, Sampling, LiveTyped
  <1>7. ArmInv'
    BY <1>1, <1>2, <1>4 DEF StreamInv, ArmInv
  <1>8. RateInv'
    <2> SUFFICES ASSUME nim.peer # NoCentral
                 PROVE  /\ seen'.frame["ext"] # Never =>
                             ext'.lastSample # Never /\ seen'.frame["ext"] <= ext'.lastSample
                        /\ seen'.frame["live"] # Never =>
                             live.lastSample # Never /\ seen'.frame["live"] <= live.lastSample
      BY <1>1, <1>4 DEF RateInv
    <2>1. seen'.frame["live"] = seen.frame["live"]
      BY <1>3, <1>4
    <2>2. /\ seen.frame["ext"] # Never =>
               ext.lastSample # Never /\ seen.frame["ext"] <= ext.lastSample
          /\ seen.frame["live"] # Never =>
               live.lastSample # Never /\ seen.frame["live"] <= live.lastSample
          /\ ext.lastSample # Never => ext.lastSample <= now
      BY DEF StreamInv, RateInv, SinkInv, Sampling
    <2>3. seen.frame["ext"] \in OptionalTime /\ now # Never
      BY <1>3, PolicyAssumption
    <2>4. CASE ext'.lastSample = ext.lastSample /\ seen'.frame = seen.frame
      BY <2>1, <2>2, <2>4
    <2>5. CASE ext'.lastSample = now /\ seen'.frame = seen.frame
      BY <1>3, <2>1, <2>2, <2>3, <2>5 DEF OptionalTime
    <2>6. CASE seen'.frame = [seen.frame EXCEPT !["ext"] = now] /\ ext'.lastSample = now
      BY <1>3, <2>1, <2>2, <2>3, <2>6
    <2> QED
      BY <1>2, <1>4, <2>4, <2>5, <2>6
  <1> QED
    BY <1>5, <1>6, <1>7, <1>8 DEF StreamInv

-----------------------------------------------------------------------------
(* The whole invariant and what it gives. *)
LEMMA StreamInit == Init => StreamInv
  <1> SUFFICES ASSUME Init PROVE StreamInv
    OBVIOUS
  <1> USE OneNothing
  <1>1. SelectorInv
    BY DEF Init, SelectorInv, NoSelector, OptionalCentral
  <1>2. SinkInv
    <2>1. LiveTyped(NewLive) /\ ExtTyped(NewExt) /\ NewLive.mtu = 0 /\ NewExt.mtu = 0
          /\ NewLive.notify = FALSE /\ NewExt.notify = FALSE
          /\ NewLive.lastSample = Never /\ NewExt.lastSample = Never
      BY NewLiveFacts, NewExtFacts
    <2>2. live = NewLive /\ ext = NewExt /\ sink = nim.peer /\ nim.sub = {} /\ nim.peer = Never
      BY DEF Init
    <2>3. due \in [Streams -> OptionalTime]
      BY DEF Init, OptionalTime
    <2>4. Sampling(live) /\ Sampling(ext)
      BY <2>1, <2>2 DEF Sampling
    <2>5. live.notify = ("live" \in nim.sub) /\ ext.notify = ("ext" \in nim.sub)
      <3>1. live.notify = FALSE /\ ext.notify = FALSE
        BY <2>1, <2>2
      <3>2. "live" \notin nim.sub /\ "ext" \notin nim.sub
        BY <2>2
      <3>3. ("live" \in nim.sub) = FALSE /\ ("ext" \in nim.sub) = FALSE
        BY <3>2
      <3> QED
        BY <3>1, <3>3
    <2>6. LiveTyped(live) /\ ExtTyped(ext) /\ ext.mtu = live.mtu /\ sink = nim.peer
      BY <2>1, <2>2
    <2> QED
      BY <2>2, <2>3, <2>4, <2>5, <2>6, Zenon DEF SinkInv
  <1>3. ArmInv /\ RateInv
    BY DEF Init, ArmInv, RateInv
  <1> QED
    BY <1>1, <1>2, <1>3 DEF StreamInv

LEMMA StreamNext == PolicyInv /\ StreamInv /\ [Next]_vars => PolicyInv' /\ StreamInv'
  <1> SUFFICES ASSUME PolicyInv, StreamInv, [Next]_vars PROVE PolicyInv' /\ StreamInv'
    OBVIOUS
  <1>0. PolicyInv'
    BY PolicyNext
  <1>1. CASE UNCHANGED vars
    BY <1>0, <1>1, QuietStep DEF vars, streams, SeenAside
  <1>2. CASE \/ Refused \/ WindowTimer \/ DropTimer \/ DisconnectTimer \/ BringUp \/ HostSync
             \/ (\E level \in {"Pressed", "Released"} : UserKey(level))
             \/ (\E id \in DOMAIN read.of, i \in DOMAIN Readings : Publish(id, i))
             \/ mark_telemetry_started \/ Tick
    BY <1>0, <1>2, StillSteps
  <1>3. CASE HostReset \/ ConnectFails \/ Disconnect \/ (\E c \in Centrals : Connect(c))
    BY <1>0, <1>3, EndStream, ConnectFailsStream, ConnectStream
  <1>4. CASE (\E mtu \in Mtus : MtuAgreed(mtu)) \/ PairingRequest \/ PairingComplete
             \/ PersistRecord \/ PairingEnds \/ PairingFails \/ ClearBonds
    BY <1>0, <1>4, MtuStream, PairingRequestStream, PairingCompleteStream, PersistRecordStream,
       PairingEndsStream, PairingFailsStream, ClearBondsStream
  <1>5. CASE (\E ok \in BOOLEAN : Reencrypt(ok))
             \/ (\E k \in Streams : Restore(k) \/ \E on \in BOOLEAN : Subscribe(k, on))
    BY <1>0, <1>5, ReencryptStream, RestoreStream, SubscribeStream
  <1>6. CASE \E k \in Selectors, form \in {"ok", "length", "format"}, offset \in Pages :
               \E token \in 0 .. disc.next : SelectPage(k, form, token, offset)
    BY <1>0, <1>6, SelectPageStream
  <1>7. CASE SampleLive \/ SampleExt
    BY <1>0, <1>7, SampleLiveStream, SampleExtStream
  <1> QED
    BY <1>0, <1>1, <1>2, <1>3, <1>4, <1>5, <1>6, <1>7 DEF Next

(* The streams and selectors agree with the policy and with NimBLE's link in    *)
(* every reachable state (apply_gap_event, refresh_link_gate,                   *)
(* DiscoveryConnection).                                                        *)
THEOREM CompanionHolds == Spec => [](PolicyInv /\ StreamInv)
  BY PolicyInit, PolicyNext, StreamInit, StreamNext, PTL DEF Spec

(* Trust in a link rests on a stored bond, NimBLE's link and the policy's      *)
(* never differ, the stores keep within their room, and a link without an      *)
(* accepted bond ends by its limits (security.cpp, LinkSecurity).              *)
THEOREM TrustBounded == Spec => []LinkTrustBounded
  <1>1. PolicyInv /\ StreamInv => LinkTrustBounded
    <2> SUFFICES ASSUME PolicyInv, StreamInv PROVE LinkTrustBounded
      OBVIOUS
    <2>1. TypeOK
      <3>1. /\ now \in 0 .. budget.time
            /\ s.lvl \in {"accept", "reject"} /\ s.slot \in {"none", "stock", "guard"}
            /\ {s.closes, s.tWindow, s.tDrop, s.tDisc} \subseteq OptionalTime
            /\ {s.conn, s.dropConn, s.refused, nim.peer} \subseteq OptionalCentral
            /\ s.conn = nim.peer
        BY DEF PolicyInv, PolicyType, BudgetType, PolicyRecord, HostRecord
      <3>2. /\ sink = nim.peer /\ disc.conn = nim.peer /\ due \in [Streams -> OptionalTime]
            /\ live.seq \in LiveSeqs /\ ext.seq \in ExtSeqs
        BY DEF StreamInv, SinkInv, SelectorInv, LiveTyped, LiveRecord, ExtTyped, ExtRecord
      <3>3. /\ store.our \cup store.peer \cup store.orphans \subseteq Centrals
            /\ Cardinality(store.our) <= MaxBonds /\ Cardinality(store.peer) <= MaxBonds
        BY DEF PolicyInv, PolicyType, StoreRecord, RoomInv
      <3> QED
        BY <3>1, <3>2, <3>3 DEF TypeOK, LiveSeqs, ExtSeqs
    <2>2. TrustedLinkHasBond
      BY DEF PolicyInv, TrustInv
    <2>3. UnbondedLinkBounded
      <3>1. Bound \in Nat /\ MaxLate \in Nat /\ now \in Nat
        <4>1. seen.linkAt \in Nat /\ seen.trusted \in Nat /\ AbsoluteLimit \in Nat
          BY PolicyAssumption DEF PolicyInv, PolicyType, SeenRecord
        <4> QED
          BY <4>1, CompanionAssumption DEF Bound, Later, PolicyInv, PolicyType
      <3>2. now <= Bound + MaxLate => now <= Bound + 2 * MaxLate
        BY <3>1, BoundPlus
      <3> QED
        BY <3>2 DEF UnbondedLinkBounded, PolicyInv, DropInv, Bound
    <2> QED
      BY <2>1, <2>2, <2>3 DEF LinkTrustBounded
  <1> QED
    BY <1>1, CompanionHolds, PTL

(* No record of a refused pairing and no page selection passes from one link   *)
(* to the next (delete_refused_peer_records, SignalCatalogSelector).           *)
THEOREM LinksStartClean == Spec => []NothingOutlivesLink
  <1>1. PolicyInv /\ StreamInv => NothingOutlivesLink
    <2> SUFFICES ASSUME PolicyInv, StreamInv PROVE NothingOutlivesLink
      OBVIOUS
    <2>1. NoOrphanRecords
      BY CompanionAssumption
         DEF NoOrphanRecords, PolicyInv, TrustInv, OrphanInv, PolicyType, StoreRecord
    <2>2. /\ sel["signal"].conn = nim.peer
          /\ nim.peer # NoCentral =>
               /\ sel["signal"].token = disc.next /\ disc.next # 0
               /\ sel["signal"].page = seen.page /\ seen.page <= DocumentLength
      BY DEF StreamInv, SelectorInv, Selectors
    <2>3. nim.peer # NoCentral /\ Available => ReadPage(sel["signal"], nim.peer) # None
      BY <2>2, OneNothing DEF ReadPage, Active, Page, None
    <2>4. ASSUME NEW c \in Centrals, ReadPage(sel["signal"], c) # None
          PROVE  /\ c = nim.peer
                 /\ Head(ReadPage(sel["signal"], c)).token = disc.next
                 /\ Head(ReadPage(sel["signal"], c)).offset = seen.page
      <3>1. Active(sel["signal"], c)
        BY <2>4 DEF ReadPage
      <3>2. c = nim.peer /\ nim.peer # NoCentral
        BY <2>2, <3>1, OneNothing DEF Active
      <3>3. ReadPage(sel["signal"], c)
              = <<[token |-> disc.next, length |-> DocumentLength, offset |-> seen.page,
                   count |-> Min2(DocumentLength - seen.page, PageBytes)]>>
        BY <2>2, <2>4, <3>1, <3>2 DEF ReadPage, Page
      <3> QED
        BY <3>2, <3>3
    <2> QED
      BY <2>1, <2>3, <2>4 DEF NothingOutlivesLink, PageBelongsToLink
  <1> QED
    BY <1>1, CompanionHolds, PTL

(* No frame is offered to the stack on a link that is not trusted at that      *)
(* moment, not subscribed, or too small (refresh_link_gate).                   *)
THEOREM FramesGuarded == Spec => FramesOnlyOnTrustedLink
  <1> DEFINE A == \A k \in Streams : seen'.sent[k] > seen.sent[k] =>
                    s.link.accepted /\ k \in nim.sub /\ live.mtu >= MinMtu
  <1>1. PolicyInv /\ StreamInv /\ [Next]_vars => A
    <2> SUFFICES ASSUME PolicyInv, StreamInv, [Next]_vars PROVE A
      OBVIOUS
    <2>0. seen \in SeenRecord({seen.waits}) /\ seen.sent \in [Streams -> Nat]
      BY DEF PolicyInv, PolicyType, SeenRecord
    <2>1. CASE SampleLive \/ SampleExt
      <3>1. \/ seen' = seen
            \/ \E k \in Streams : \E waits : seen' = SentFrame(k, waits) /\ Sendable(k)
        BY <2>1, LiveSample, ExtSample DEF Streams
      <3>2. CASE seen' = seen
        BY <2>0, <3>2
      <3>3. CASE \E k \in Streams : \E waits : seen' = SentFrame(k, waits) /\ Sendable(k)
        <4>0. PICK k \in Streams : \E waits : seen' = SentFrame(k, waits) /\ Sendable(k)
          BY <3>3
        <4>1. PICK waits : seen' = SentFrame(k, waits) /\ Sendable(k)
          BY <4>0
        <4>2. \A j \in Streams : j # k => seen'.sent[j] = seen.sent[j]
          BY <4>1, SentFacts
        <4>3. s.link.accepted /\ k \in nim.sub /\ live.mtu >= MinMtu
          BY <4>1 DEF Sendable
        <4>4. \A j \in Streams : j # k => ~(seen'.sent[j] > seen.sent[j])
          BY <2>0, <4>2
        <4> QED
          BY <4>3, <4>4
      <3> QED
        BY <3>1, <3>2, <3>3
    <2>2. CASE ~(SampleLive \/ SampleExt)
      <3>1. seen'.sent = seen.sent \/ seen'.sent = [k \in Streams |-> 0]
        BY <2>0, <2>2, ZenonT(60)
           DEF Next, vars, BringUp, HostSync, HostReset, LinkGone, ConnectFails, Disconnect,
               Connect, MtuAgreed, PairingRequest, PairingComplete, PersistRecord, PairingEnds,
               PairingFails, Reencrypt, Judged, Restore, Subscribe, Subscribed, Refused,
               SelectPage, ClearBonds, UserKey, WindowTimer, DropTimer, DisconnectTimer,
               Publish, mark_telemetry_started, Tick, SeenRecord
      <3> QED
        BY <2>0, <3>1, SMTT(60)
    <2> QED
      BY <2>1, <2>2
  <1> QED
    BY <1>1, CompanionHolds, PTL DEF Spec, FramesOnlyOnTrustedLink

(* A stream whose every condition holds has a sample due, and two frames of a  *)
(* stream are never closer than the frame interval (schedule_next_sample,      *)
(* Pacing::restart).                                                           *)
THEOREM StreamsArmedAndCapped == Spec => [](StreamArmed /\ RateCap)
  <1>1. PolicyInv /\ StreamInv => StreamArmed /\ RateCap
    BY DEF StreamInv, StreamArmed, RateCap, RateInv, ArmInv, SinkInv, Streams
  <1> QED
    BY <1>1, CompanionHolds, PTL

=============================================================================
