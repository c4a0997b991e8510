---------------------------- MODULE LiveStreams ----------------------------
(***************************************************************************)
(* What the companion sends about the vehicle (lib/companion_protocol):    *)
(* the signal catalog and its pages, the page selector of one connection,  *)
(* the fixed live-signal frame and the extensible packet with the streams  *)
(* that pace them.  Every operator is a function from records to records;  *)
(* module Companion keeps the state.                                       *)
(*                                                                         *)
(* A value is [type, v, finite], a reading [status, avail, value] with     *)
(* value a sequence of at most one value, and metadata [id, type, read,    *)
(* keyBytes, tokenBytes, validText, choices].  Numbers stand for their     *)
(* wire value before scaling; texts for their byte counts and validity.    *)
(***************************************************************************)
EXTENDS Integers, Sequences, FiniteSets
LOCAL INSTANCE SequencesExt

CONSTANTS
  Empty,              \* an empty optional time, handle or token
  Catalog,            \* the provider's catalog, in order
  WellFormed,         \* SignalCatalogView::well_formed
  Slots,              \* live_signal_slots: [key, type, scale, signed, codes, unset]
  MaxSignals,         \* kMaxSignalCatalogSignals
  MaxChoices,         \* kMaxSignalCatalogChoices
  MaxKeyBytes,        \* kMaxSignalCatalogKeyBytes
  MaxTokenBytes,      \* kMaxSignalCatalogTokenBytes
  MaxDocumentBytes,   \* kMaxSignalCatalogDocumentBytes
  PageBytes,          \* kSignalCatalogPageDataBytes
  FrameInterval,      \* kLiveFrameInterval
  HeartbeatInterval,  \* kLiveHeartbeatInterval
  MinMtu,             \* kMinLiveSignalsAttMtu
  MaxPacketBytes      \* kExtensibleLiveSignalMaxPacketBytes

SignalTypes == {"Number", "Boolean", "Enum"}
None == <<>>
Min2(a, b) == IF a <= b THEN a ELSE b
Total(f) ==
  LET upTo[i \in 0 .. Len(f)] == IF i = 0 THEN 0 ELSE upTo[i - 1] + f[i] IN upTo[Len(f)]

-----------------------------------------------------------------------------
(* SignalCatalogExport: the readable signals in catalog order, available   *)
(* as a whole or not at all.                                               *)
TextFits(bytes, limit, valid) == valid /\ bytes \in 1 .. limit

DescriptorBody(m) ==
  2 + (3 + m.keyBytes) + (3 + 1) + Total([i \in DOMAIN m.tokenBytes |-> 3 + m.tokenBytes[i]])
    + (IF m.type = "Enum"
       THEN 3 + 2 + Total([i \in DOMAIN m.choices |-> 2 + 1 + m.choices[i].keyBytes])
       ELSE 0)

Exportable(m) ==
  /\ TextFits(m.keyBytes, MaxKeyBytes, m.validText)
  /\ \A i \in DOMAIN m.tokenBytes : TextFits(m.tokenBytes[i], MaxTokenBytes, TRUE)
  /\ m.type = "Enum" =>
       /\ Len(m.choices) \in 1 .. MaxChoices
       /\ \A i \in DOMAIN m.choices :
            TextFits(m.choices[i].keyBytes, MaxKeyBytes, m.validText)
  /\ DescriptorBody(m) <= 65535

Entries == SelectSeq(Catalog, LAMBDA m : m.read /\ m.type \in SignalTypes)
DocumentLength == 3 + Total([i \in DOMAIN Entries |-> 2 + DescriptorBody(Entries[i])])
Available ==
  /\ WellFormed /\ Len(Entries) <= MaxSignals
  /\ \A i \in DOMAIN Entries : Exportable(Entries[i])
  /\ DocumentLength <= MaxDocumentBytes

(* A length summed from byte counts is a number, and so is the interval.   *)
ASSUME StreamsAssumption == DocumentLength \in Nat /\ FrameInterval \in Nat

SignalCount == IF Available THEN Len(Entries) ELSE 0
Metadata(handle) == Entries[handle]

(* encode_page: what a page says of itself; the data of a page is the      *)
(* document from offset on, count bytes of it.                             *)
Page(token, offset) ==
  IF Available /\ token # 0 /\ offset <= DocumentLength
  THEN <<[token |-> token, length |-> DocumentLength, offset |-> offset,
          count |-> Min2(DocumentLength - offset, PageBytes)]>>
  ELSE None

(* SignalCatalogSelector and OutputCatalogSelector, the same class twice.  *)
NoSelector == [conn |-> Empty, token |-> 0, page |-> 0]
Active(sel, conn) == sel.conn # Empty /\ conn = sel.conn /\ sel.token # 0
SelectorConnected(sel, conn, token) ==
  IF sel.conn # Empty \/ token = 0 THEN sel
  ELSE [conn |-> conn, token |-> token, page |-> 0]
MSelectorDisconnected(sel, conn) ==
  IF conn = sel.conn THEN [sel EXCEPT !.token = 0] ELSE sel
SelectorDisconnected(sel, conn) == IF conn = sel.conn THEN NoSelector ELSE sel
(* A selector write is well formed or names a wrong length or format.      *)
SelectAnswer(sel, conn, form, token, offset) ==
  CASE form = "length" -> "InvalidAttributeValueLength"
    [] form = "format" -> "UnsupportedOperation"
    [] form = "ok" /\ (~Active(sel, conn) \/ ~Available \/ token # sel.token) -> "InvalidState"
    [] form = "ok" /\ offset > DocumentLength -> "InvalidPdu"
    [] OTHER -> "None"
Selected(sel, conn, form, token, offset) ==
  IF SelectAnswer(sel, conn, form, token, offset) = "None"
  THEN [sel EXCEPT !.page = offset] ELSE sel
ReadPage(sel, conn) == IF Active(sel, conn) THEN Page(sel.token, sel.page) ELSE None
TokenFor(sel, conn) == IF Active(sel, conn) /\ Available THEN sel.token ELSE 0

-----------------------------------------------------------------------------
(* Both encodings share the status code; a slot whose freshness is unset   *)
(* is never Fresh.                                                         *)
FailureCode(status) ==
  IF status \in {"InvalidSignal", "UnsupportedCapability"} THEN "NotSupported" ELSE "ReadFailed"
AvailabilityCode(avail) ==
  IF avail \in {"NoData", "Fresh", "Stale", "FreshnessUnverified", "Unavailable"}
  THEN avail ELSE "ReadFailed"
ReportedCode(unset, avail) ==
  IF unset /\ AvailabilityCode(avail) = "Fresh" THEN "FreshnessUnverified"
  ELSE AvailabilityCode(avail)

ChoiceIndex(m, raw) == {i \in DOMAIN m.choices : m.choices[i].value = raw}

(* write_value: the 16-bit field of a number that fits it after scaling,   *)
(* the protocol code of a choice key that has one, or the flag.            *)
SlotValue(slot, m, value) ==
  CASE slot.type # value.type -> None
    [] slot.type = "Number" /\ value.type = "Number" ->
         IF value.finite
            /\ value.v * slot.scale \in (IF slot.signed THEN -32768 .. 32767 ELSE 0 .. 65535)
         THEN <<(value.v * slot.scale) % 65536>> ELSE None
    [] slot.type = "Enum" /\ value.type = "Enum" ->
         LET coded == {i \in ChoiceIndex(m, value.v) : m.choices[i].key \in DOMAIN slot.codes}
         IN IF coded = {} THEN None
            ELSE <<slot.codes[m.choices[CHOOSE i \in coded : \A j \in coded : i <= j].key]>>
    [] OTHER -> <<value.v>>

(* LiveSignalSampler: each slot's signal is resolved once, by key and type *)
(* among the readable ones; `read` gives the provider's reading of an id.  *)
Resolved(slot) ==
  {i \in DOMAIN Catalog :
     Catalog[i].key = slot.key /\ Catalog[i].type = slot.type /\ Catalog[i].read}
SlotContent(slot, read) ==
  IF Resolved(slot) = {} THEN [code |-> "NotSupported", value |-> None]
  ELSE LET m == Catalog[CHOOSE i \in Resolved(slot) : TRUE]
           reading == read[m.id]
       IN IF reading.status # "Ok" THEN [code |-> FailureCode(reading.status), value |-> None]
          ELSE [code  |-> ReportedCode(slot.unset, reading.avail),
                value |-> IF reading.value = None THEN None
                          ELSE SlotValue(slot, m, Head(reading.value))]
LiveContent(started, read) ==
  [started |-> started, slots |-> [i \in DOMAIN Slots |-> SlotContent(Slots[i], read)]]

(* The extensible record of a handle and its size on the wire.             *)
FreshnessUnset(m) ==
  \E i \in DOMAIN Slots : Slots[i].key = m.key /\ Slots[i].type = m.type /\ Slots[i].unset
EncodedValue(m, value) ==
  CASE value.type # m.type -> None
    [] value.type = "Number" /\ m.type = "Number" -> IF value.finite THEN <<value.v>> ELSE None
    [] value.type = "Enum" /\ m.type = "Enum" ->
         IF ChoiceIndex(m, value.v) = {} THEN None
         ELSE <<CHOOSE i \in ChoiceIndex(m, value.v) :
                  \A j \in ChoiceIndex(m, value.v) : i <= j>>
    [] OTHER -> <<value.v>>
Record(handle, read) ==
  LET m == Metadata(handle)
      reading == read[m.id]
  IN IF reading.status # "Ok"
     THEN [handle |-> handle, code |-> FailureCode(reading.status), value |-> None]
     ELSE [handle |-> handle, code |-> ReportedCode(FreshnessUnset(m), reading.avail),
           value |-> IF reading.value = None THEN None
                     ELSE EncodedValue(m, Head(reading.value))]
RecordBytes(rec) ==
  5 + (IF rec.value = None THEN 0
       ELSE CASE Metadata(rec.handle).type = "Boolean" -> 1
              [] Metadata(rec.handle).type = "Number" -> 4
              [] OTHER -> 2)
RecordRoom(mtu) == Min2(mtu - 3, MaxPacketBytes) - 8

-----------------------------------------------------------------------------
(* LiveSignalStream *)
NewLive == [notify |-> FALSE, secured |-> FALSE, mtu |-> 0, seq |-> 0,
            accepted |-> None, lastSample |-> Empty, lastAttempt |-> Empty]
LiveHolds(st) == st.notify /\ st.secured /\ st.mtu >= MinMtu
(* update_conditions: a stream that starts to hold restarts its sequence   *)
(* and its baseline, and keeps its sample and attempt times.               *)
LiveUpdated(st, new) ==
  IF LiveHolds(new) /\ ~LiveHolds(st) THEN [new EXCEPT !.seq = 0, !.accepted = None] ELSE new

Due(last, interval, t) == last = Empty \/ t < last \/ t - last >= interval
UntilSample(holds, last, t) ==
  IF ~holds THEN Empty ELSE IF Due(last, FrameInterval, t) THEN 0 ELSE last + FrameInterval - t

FrameDue(st, t, content) ==
  st.accepted # <<content>> \/ Due(st.lastAttempt, HeartbeatInterval, t)
LiveSends(st, t, content) ==
  LiveHolds(st) /\ Due(st.lastSample, FrameInterval, t) /\ FrameDue(st, t, content)
LiveOffered(st, t, content, queued) ==
  IF ~LiveHolds(st) \/ ~Due(st.lastSample, FrameInterval, t) THEN st
  ELSE IF ~FrameDue(st, t, content) THEN [st EXCEPT !.lastSample = t]
  ELSE [st EXCEPT !.lastSample = t, !.lastAttempt = t, !.seq = (@ + 1) % 256,
                  !.accepted = IF queued THEN <<content>> ELSE @]

-----------------------------------------------------------------------------
(* ExtensibleLiveSignalStream *)
NothingAccepted == [h \in 1 .. SignalCount |-> [rec |-> None, at |-> Empty]]
NewExt == [notify |-> FALSE, secured |-> FALSE, mtu |-> 0, token |-> 0, seq |-> 0,
           next |-> 1, accepted |-> NothingAccepted, emptyAt |-> Empty, lastSample |-> Empty]
ExtHolds(st) == Available /\ st.notify /\ st.secured /\ st.mtu >= MinMtu /\ st.token # 0
ExtRestarted(st) ==
  [st EXCEPT !.accepted = NothingAccepted, !.emptyAt = Empty, !.seq = 0, !.next = 1]
ExtUpdated(st, new) == IF ExtHolds(new) /\ ~ExtHolds(st) THEN ExtRestarted(new) ELSE new
ExtTokenSet(st, token) ==
  IF st.token = token THEN st ELSE ExtRestarted([st EXCEPT !.token = token])

RecordDue(st, rec, t) ==
  \/ st.accepted[rec.handle].rec # <<rec>>
  \/ Due(st.accepted[rec.handle].at, HeartbeatInterval, t)

NextHandle(handle) == IF handle >= SignalCount THEN 1 ELSE handle + 1
MVisitOrder(first) == [i \in 1 .. SignalCount |-> i]
VisitOrder(first) == [i \in 1 .. SignalCount |-> ((first + i - 2) % SignalCount) + 1]

(* offer's scan from the cursor: due records join the packet until one     *)
(* does not fit, and the cursor moves past the last that did.              *)
Packed(st, read, t) ==
  FoldLeft(LAMBDA p, h :
             LET rec == Record(h, read)
             IN IF p.full \/ RecordBytes(rec) > RecordRoom(st.mtu) \/ ~RecordDue(st, rec, t)
                THEN p
                ELSE IF p.room < RecordBytes(rec) THEN [p EXCEPT !.full = TRUE, !.next = h]
                ELSE [p EXCEPT !.records = Append(@, rec), !.next = NextHandle(h),
                               !.room = @ - RecordBytes(rec)],
           [records |-> <<>>, room |-> RecordRoom(st.mtu), next |-> st.next, full |-> FALSE],
           VisitOrder(st.next))

EmptyDue(st, t) == Due(st.emptyAt, HeartbeatInterval, t)
ExtSends(st, read, t) ==
  /\ ExtHolds(st) /\ Due(st.lastSample, FrameInterval, t)
  /\ IF SignalCount = 0 THEN EmptyDue(st, t) ELSE Packed(st, read, t).records # <<>>
ExtOffered(st, read, t, queued) ==
  IF ~ExtHolds(st) \/ ~Due(st.lastSample, FrameInterval, t) THEN st
  ELSE IF ~ExtSends(st, read, t) THEN [st EXCEPT !.lastSample = t]
  ELSE IF SignalCount = 0
  THEN [st EXCEPT !.lastSample = t, !.seq = (@ + 1) % 65536,
                  !.emptyAt = IF queued THEN t ELSE @]
  ELSE LET p == Packed(st, read, t)
           sent == {p.records[i] : i \in DOMAIN p.records}
       IN [st EXCEPT !.lastSample = t, !.seq = (@ + 1) % 65536, !.next = p.next,
                     !.accepted = [h \in DOMAIN @ |->
                        LET mine == {r \in sent : r.handle = h}
                        IN IF queued /\ mine # {}
                           THEN [rec |-> <<CHOOSE r \in mine : TRUE>>, at |-> t] ELSE @[h]]]
=============================================================================
