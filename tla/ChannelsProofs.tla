--------------------------- MODULE ChannelsProofs ---------------------------
(***************************************************************************)
(* Channel ids below 31 are delivered as they were signalled, for any      *)
(* number of PDs, channels, interrupts and pings, any priorities and any   *)
(* interleaving.  The bound on the ids is an assumption of the theorems:   *)
(* of a larger id the int shift of the badge is another bit (Badge).       *)
(***************************************************************************)
EXTENDS Channels, WellFoundedInduction, TLAPS

(* A badge is one bit, that of the id. *)
Exact(cap) == cap # NoCap => cap.badge = {cap.id}

CapsExact ==
    \A p \in PDs, id \in Ids : Exact(caps[p][id])

(* A PD in its event loop has bits in hand, and only then. *)
HandlesSome ==
    \A p \in PDs : pc[p] = "handle" <=> badge[p] # {}

IInv ==
    /\ TypeOK
    /\ CapsExact
    /\ HandlesSome
    /\ SignalsPending
    /\ MaskedIsPending

-----------------------------------------------------------------------------
(* For ids below 31 the shift is exact. *)
LEMMA BadgeExact ==
    ASSUME Ids \subseteq 0 .. 30, NEW id \in Ids
    PROVE  Badge(id) = {id}
<1>1. id \in 0 .. 30
    OBVIOUS
<1>2. id % 32 = id
    BY <1>1
<1> QED
    BY <1>1, <1>2 DEF Badge

LEMMA IdsAreBits ==
    ASSUME Ids \subseteq 0 .. 30
    PROVE  Ids \subseteq Bits
<1>1. 0 .. 30 \subseteq 0 .. 63
    OBVIOUS
<1> QED
    BY <1>1 DEF Bits

LEMMA MintedExact ==
    ASSUME Ids \subseteq 0 .. 30, NEW p \in PDs, NEW id \in Ids
    PROVE  /\ Minted(p, id) \in [to : PDs, id : Ids, badge : SUBSET Bits]
           /\ Exact(Minted(p, id))
<1>1. Badge(id) = {id} /\ {id} \in SUBSET Bits
    BY BadgeExact DEF Bits
<1> QED
    BY <1>1 DEF Minted, Exact

(* Signals through exact capabilities keep words and histories equal. *)
LEMMA SignalledAsSent ==
    ASSUME TypeOK, CapsExact, NEW invoked,
           invoked \subseteq {caps[p][id] : p \in PDs, id \in Ids},
           NEW p \in PDs, word[p] = sent[p]
    PROVE  /\ Signalled(invoked, word)[p] = Sending(invoked, sent)[p]
           /\ Signalled(invoked, word)[p] \in SUBSET Bits
           /\ Sending(invoked, sent)[p] \in SUBSET Ids
           /\ sent[p] \subseteq Sending(invoked, sent)[p]
<1> DEFINE to == {d \in invoked \ {NoCap} : d.to = p}
<1>1. \A c \in to : c \in [to : PDs, id : Ids, badge : SUBSET Bits] /\ c.badge = {c.id}
    BY DEF TypeOK, CapsExact, Exact
<1>2. UNION {c.badge : c \in to} = {c.id : c \in to}
    BY <1>1
<1>3. {c.id : c \in to} \subseteq Ids /\ UNION {c.badge : c \in to} \subseteq Bits
    BY <1>1
<1>4. /\ Signalled(invoked, word)[p] = word[p] \cup UNION {c.badge : c \in to}
      /\ Sending(invoked, sent)[p] = sent[p] \cup {c.id : c \in to}
    BY DEF Signalled, Sending
<1> QED
    BY <1>2, <1>3, <1>4 DEF TypeOK

(* Bits in hand without 62 and 63 are those of a call of notified(). *)
LEMMA LowestBit ==
    ASSUME NEW bits \in SUBSET Nat, bits # {}
    PROVE  \E id \in bits : \A b \in bits : id <= b
<1>1. IsWellFoundedOn(OpToRel(<, Nat), Nat)
    BY NatLessThanWellFounded
<1>2. PICK id \in bits : \A b \in bits : ~ (<<b, id>> \in OpToRel(<, Nat))
    BY <1>1, WFMin
<1>3. \A b \in bits : ~ (b < id)
    BY <1>2 DEF OpToRel
<1> QED
    BY <1>3

LEMMA CallsLowest ==
    ASSUME NEW bits \in SUBSET Ids, bits # {}, Ids \subseteq 0 .. 30
    PROVE  /\ Call(bits)[1] = "notified"
           /\ Call(bits)[2] \in bits
           /\ Channel(Call(bits)) = {Call(bits)[2]}
           /\ Call(bits) = <<"notified", Call(bits)[2]>>
<1>1. 62 \notin bits /\ 63 \notin bits
    OBVIOUS
<1> DEFINE lowest == CHOOSE id \in bits : \A b \in bits : id <= b
<1>2. lowest \in bits
    <2>1. bits \in SUBSET Nat
        OBVIOUS
    <2> QED
        BY <2>1, LowestBit
<1>3. Call(bits) = <<"notified", lowest>>
    BY <1>1 DEF Call
<1> QED
    BY <1>2, <1>3 DEF Channel

-----------------------------------------------------------------------------
(* The invariant. *)

LEMMA InitIInv ==
    ASSUME ChannelsAssumption
    PROVE  Init => IInv
<1> SUFFICES ASSUME Init PROVE IInv
    OBVIOUS
<1>1. TypeOK
    <2>1. table \in [PDs -> SUBSET (Wires \cup Interrupts)]
        BY DEF Init
    <2> QED
        BY <2>1 DEF Init, TypeOK, ChannelsAssumption
<1> QED
    BY <1>1 DEF Init, IInv, CapsExact, Exact, HandlesSome, SignalsPending, MaskedIsPending

(* Setting up a channel mints two exact capabilities. *)
LEMMA SetUpExact ==
    ASSUME ChannelsAssumption, Ids \subseteq 0 .. 30,
           TypeOK, CapsExact, NEW w \in Wires
    PROVE  /\ set_up_channel(caps, w)
                \in [PDs -> [Ids -> [to : PDs, id : Ids, badge : SUBSET Bits] \cup {NoCap}]]
           /\ \A p \in PDs, id \in Ids : Exact(set_up_channel(caps, w)[p][id])
<1> DEFINE Cap == [to : PDs, id : Ids, badge : SUBSET Bits] \cup {NoCap}
           there == Minted(w.b, w.idb)
           here == Minted(w.a, w.ida)
           one == [caps EXCEPT ![w.a][w.ida] = there]
<1>1. w.a \in PDs /\ w.b \in PDs /\ w.ida \in Ids /\ w.idb \in Ids
    BY DEF ChannelsAssumption
<1>2. there \in Cap /\ here \in Cap /\ Exact(there) /\ Exact(here)
    BY <1>1, MintedExact
<1> HIDE DEF there, here
<1>3. one \in [PDs -> [Ids -> Cap]] /\ \A p \in PDs, id \in Ids : Exact(one[p][id])
    BY <1>1, <1>2 DEF TypeOK, CapsExact
<1>4. set_up_channel(caps, w) = [one EXCEPT ![w.b][w.idb] = here]
    BY DEF set_up_channel, there, here
<1> HIDE DEF one
<1>5. /\ [one EXCEPT ![w.b][w.idb] = here] \in [PDs -> [Ids -> Cap]]
      /\ \A p \in PDs, id \in Ids : Exact([one EXCEPT ![w.b][w.idb] = here][p][id])
    BY <1>1, <1>2, <1>3
<1> QED
    BY <1>4, <1>5

(* Each step keeps the invariant. *)
LEMMA NextIInv ==
    ASSUME ChannelsAssumption, Ids \subseteq 0 .. 30, IInv, [Next]_vars
    PROVE  IInv'
<1> USE DEF IInv
<1>0. \A p \in PDs : badge[p] \subseteq Ids /\ word[p] \subseteq Ids
    BY DEF SignalsPending, TypeOK
<1>1. CASE UNCHANGED vars
    BY <1>1 DEF vars, TypeOK, CapsExact, Exact, HandlesSome, SignalsPending, MaskedIsPending
<1>2. \A i \in Lines : handler[i].pd \in PDs /\ handler[i].id \in Ids
    BY DEF TypeOK
<1>3. ASSUME NEW p \in PDs \ Static, SetUpChannel(p) PROVE IInv'
    <2>1. PICK w \in Wires : caps' = set_up_channel(caps, w) /\ table' = [table EXCEPT ![p] = @ \ {w}]
        BY <1>3 DEF SetUpChannel
    <2>2. CapsExact'
        BY <2>1, SetUpExact DEF CapsExact
    <2>3. TypeOK'
        BY <1>3, <2>1, SetUpExact DEF SetUpChannel, TypeOK
    <2> QED
        BY <1>3, <2>2, <2>3 DEF SetUpChannel, HandlesSome, SignalsPending, MaskedIsPending
<1>4. ASSUME NEW p \in PDs \ Static, SetUpIrq(p) PROVE IInv'
    <2>1. PICK r \in table[p] \cap Interrupts, i \in Lines :
              /\ handler' = [handler EXCEPT ![i] = [pd |-> p, id |-> r.id]]
              /\ table' = [table EXCEPT ![p] = @ \ {r}]
              /\ stranded' = stranded \cup ({i} \cap {j \in Lines : line[j] = "masked"})
        BY <1>4 DEF SetUpIrq
    <2>2. r.id \in Ids
        BY DEF ChannelsAssumption
    <2>3. handler' \in [Lines -> [pd : PDs, id : Ids]]
        BY <2>1, <2>2 DEF TypeOK
    <2>4. TypeOK'
        BY <1>4, <2>1, <2>3 DEF SetUpIrq, TypeOK
    <2>5. MaskedIsPending'
        <3> SUFFICES ASSUME NEW j \in Lines, line'[j] = "masked", j \notin stranded'
                     PROVE  handler'[j].id \in sent'[handler'[j].pd] \cup due'[handler'[j].pd]
            BY DEF MaskedIsPending
        <3>1. line[j] = "masked" /\ sent' = sent /\ due' = due
            BY <1>4 DEF SetUpIrq
        <3>2. j \notin stranded /\ j # i
            BY <2>1, <3>1
        <3>3. handler'[j] = handler[j]
            BY <2>1, <3>2 DEF TypeOK
        <3> QED
            BY <3>1, <3>2, <3>3 DEF MaskedIsPending
    <2> QED
        BY <1>4, <2>4, <2>5 DEF SetUpIrq, CapsExact, Exact, HandlesSome, SignalsPending
<1>5. ASSUME NEW p \in PDs \ Static, Start(p) PROVE IInv'
    BY <1>5 DEF Start, TypeOK, CapsExact, Exact, HandlesSome, SignalsPending, MaskedIsPending
<1>6. ASSUME NEW i \in Lines, Raise(i) PROVE IInv'
    <2>1. /\ handler[i].pd \in PDs /\ handler[i].id \in Ids
          /\ Badge(handler[i].id) = {handler[i].id} /\ handler[i].id \in Bits
        <3>1. handler[i].pd \in PDs /\ handler[i].id \in Ids
            BY <1>2
        <3>2. handler[i].id \in Bits
            BY <3>1, IdsAreBits
        <3>3. \A id \in Ids : Badge(id) = {id}
            BY BadgeExact
        <3>4. Badge(handler[i].id) = {handler[i].id}
            BY <3>1, <3>3, Zenon
        <3> QED
            BY <3>1, <3>2, <3>4, Zenon
    <2>2. TypeOK'
        BY <1>6, <2>1 DEF Raise, TypeOK
    <2>3. SignalsPending' /\ MaskedIsPending'
        BY <1>6, <2>1 DEF Raise, TypeOK, SignalsPending, MaskedIsPending
    <2> QED
        BY <1>6, <2>2, <2>3 DEF Raise, CapsExact, Exact, HandlesSome
<1>7. ASSUME NEW p \in PDs, StartPing(p) PROVE IInv'
    <2>1. PICK ch \in Ids : /\ pings[p][ch] > 0
                            /\ notify(p, ch)
                            /\ pings' = [pings EXCEPT ![p][ch] = @ - 1]
        BY <1>7 DEF StartPing
    <2> DEFINE invoked == {caps[p][ch]}
    <2>2. invoked \subseteq {caps[q][id] : q \in PDs, id \in Ids}
        OBVIOUS
    <2>3. word' = Signalled(invoked, word) /\ sent' = Sending(invoked, sent)
        BY <2>1 DEF notify
    <2> HIDE DEF invoked
    <2>4. \A q \in PDs : /\ word'[q] = sent'[q] /\ word'[q] \in SUBSET Bits
                         /\ sent'[q] \in SUBSET Ids /\ sent[q] \subseteq sent'[q]
        BY <2>2, <2>3, SignalledAsSent DEF SignalsPending
    <2>5. word' \in [PDs -> SUBSET Bits] /\ sent' \in [PDs -> SUBSET Ids]
        BY <2>3, <2>4 DEF Signalled, Sending
    <2>6. pings' \in [PDs -> [Ids -> Nat]]
        <3>1. pings \in [PDs -> [Ids -> Nat]]
            BY DEF TypeOK
        <3>2. pings[p][ch] - 1 \in Nat
            BY <2>1, <3>1
        <3> QED
            BY <2>1, <3>1, <3>2
    <2>7. TypeOK'
        BY <1>7, <2>5, <2>6 DEF StartPing, TypeOK
    <2>8. MaskedIsPending'
        BY <1>2, <1>7, <2>4 DEF StartPing, MaskedIsPending
    <2>9. SignalsPending'
        BY <1>7, <2>4 DEF StartPing, SignalsPending
    <2> QED
        BY <1>7, <2>7, <2>8, <2>9 DEF StartPing, CapsExact, Exact, HandlesSome
<1>8. ASSUME NEW p \in PDs, EnterLoop(p) PROVE IInv'
    BY <1>8 DEF EnterLoop, TypeOK, CapsExact, Exact, HandlesSome, SignalsPending, MaskedIsPending
<1>9. ASSUME NEW p \in PDs, Receive(p) PROVE IInv'
    <2>1. badge' = [badge EXCEPT ![p] = word[p]]
        BY <1>9 DEF Receive, Taken
    <2>2. TypeOK'
        BY <1>9, <2>1 DEF Receive, TypeOK
    <2>3. \A q \in PDs : pc[q] # "handle" \/ q # p
        BY <1>9 DEF Receive
    <2>4. HandlesSome' /\ SignalsPending'
        BY <1>9, <2>1 DEF Receive, TypeOK, HandlesSome, SignalsPending
    <2>5. MaskedIsPending'
        <3> SUFFICES ASSUME NEW i \in Lines, line'[i] = "masked", i \notin stranded'
                     PROVE  handler'[i].id \in sent'[handler'[i].pd] \cup due'[handler'[i].pd]
            BY DEF MaskedIsPending
        <3>1. handler'[i] = handler[i] /\ handler[i].pd \in PDs
            BY <1>2, <1>9 DEF Receive
        <3>2. handler[i].id \in sent[handler[i].pd] \cup due[handler[i].pd]
            BY <1>9 DEF Receive, MaskedIsPending
        <3>3. badge[p] = {} => due[p] = {}
            BY DEF SignalsPending
        <3>4. due[p] = {}
            BY <1>9, <3>3 DEF Receive, HandlesSome
        <3> QED
            BY <1>9, <3>1, <3>2, <3>4 DEF Receive, TypeOK
    <2> QED
        BY <1>9, <2>2, <2>4, <2>5 DEF Receive, CapsExact, Exact
<1>10. ASSUME NEW p \in PDs, Dispatch(p) PROVE IInv'
    <2> DEFINE call == Call(badge[p])
               rest == IF call[1] = "notified" THEN badge[p] \ {call[2]} ELSE {}
               invoked == Answer(p, Channel(call))
               acknowledged == Acknowledged(p, Channel(call))
    <2>1. badge[p] \subseteq Ids /\ badge[p] # {}
        BY <1>0, <1>10 DEF Dispatch, HandlesSome
    <2>2. /\ call[1] = "notified" /\ call[2] \in badge[p]
          /\ Channel(call) = {call[2]}
          /\ call = <<"notified", call[2]>>
        BY <2>1, CallsLowest
    <2>3. rest = badge[p] \ {call[2]}
        BY <2>2
    <2>4. /\ badge' = [badge EXCEPT ![p] = badge[p] \ {call[2]}]
          /\ due' = [due EXCEPT ![p] = due[p] \ {call[2]}]
        BY <1>10, <2>2, <2>3 DEF Dispatch
    <2>15. PICK new \in {{}} \cup {{q} : q \in Completed(p, acknowledged)} :
              pc' = [q \in PDs |-> IF q \in new THEN "table"
                                   ELSE IF q # p THEN pc[q]
                                   ELSE IF rest = {} THEN "wait" ELSE "handle"]
        BY <1>10 DEF Dispatch
    <2>16. \A q \in new : q \in PDs \ Static /\ pc[q] = "file"
        BY DEF Completed
    <2>17. pc[p] = "handle"
        BY <1>10 DEF Dispatch
    <2>18. \A q \in new : pc'[q] = "table" /\ q # p /\ badge[q] = {}
        BY <2>15, <2>16, <2>17 DEF HandlesSome
    <2>5. word' = Signalled(invoked, word) /\ sent' = Sending(invoked, sent)
        BY <1>10 DEF Dispatch
    <2>6. /\ line' = [i \in Lines |-> IF i \in acknowledged THEN "armed" ELSE line[i]]
          /\ stranded' = stranded \ acknowledged /\ handler' = handler
        BY <1>10 DEF Dispatch
    <2>7. invoked \subseteq {caps[q][id] : q \in PDs, id \in Ids}
        BY DEF Answer
    <2>8. acknowledged = {i \in Lines : handler[i].pd = p /\ handler[i].id = call[2]}
        BY <2>2 DEF Acknowledged
    <2> HIDE DEF call, invoked, acknowledged
    <2>9. \A q \in PDs : /\ word'[q] = sent'[q] /\ word'[q] \in SUBSET Bits
                         /\ sent'[q] \in SUBSET Ids /\ sent[q] \subseteq sent'[q]
        BY <2>5, <2>7, SignalledAsSent DEF SignalsPending
    <2>10. word' \in [PDs -> SUBSET Bits] /\ sent' \in [PDs -> SUBSET Ids]
        BY <2>5, <2>9 DEF Signalled, Sending
    <2>11. TypeOK'
        <3>1. badge' \in [PDs -> SUBSET Bits] /\ due' \in [PDs -> SUBSET Ids]
            BY <2>4 DEF TypeOK
        <3>2. pc' \in [PDs -> {"file", "table", "init", "wait", "handle"}]
            BY <2>15 DEF TypeOK
        <3>3. line' \in [Lines -> {"armed", "masked"}]
            BY <2>6 DEF TypeOK
        <3>4. entered' = [entered EXCEPT ![p] = call]
            BY <1>10 DEF Dispatch, call
        <3>5. call \in {"notified"} \X Bits
            <4>1. call[2] \in Bits
                BY <2>1, <2>2, IdsAreBits
            <4>2. PICK id \in Bits : call = <<"notified", id>>
                BY <2>2, <4>1, Zenon
            <4> QED
                BY <4>2
        <3>6. entered' \in [PDs -> {None, <<"fault">>, <<"protected">>} \cup ({"notified"} \X Bits)]
            BY <3>4, <3>5 DEF TypeOK
        <3> QED
            BY <1>10, <2>6, <2>10, <3>1, <3>2, <3>3, <3>6 DEF Dispatch, TypeOK
    <2>12. HandlesSome'
        <3> SUFFICES ASSUME NEW q \in PDs PROVE pc'[q] = "handle" <=> badge'[q] # {}
            BY DEF HandlesSome
        <3>1. CASE q = p
            BY <2>3, <2>4, <2>15, <2>18, <3>1 DEF TypeOK
        <3>2. CASE q \in new
            BY <2>4, <2>18, <3>2 DEF TypeOK
        <3>3. CASE q # p /\ q \notin new
            BY <2>4, <2>15, <3>3 DEF TypeOK, HandlesSome
        <3> QED
            BY <3>1, <3>2, <3>3
    <2>13. SignalsPending'
        BY <2>4, <2>9 DEF SignalsPending, TypeOK
    <2>14. MaskedIsPending'
        <3> SUFFICES ASSUME NEW i \in Lines, line'[i] = "masked", i \notin stranded'
                     PROVE  handler[i].id \in sent'[handler[i].pd] \cup due'[handler[i].pd]
            BY <2>6 DEF MaskedIsPending
        <3>1. handler[i].pd \in PDs
            BY <1>2
        <3>2. i \notin acknowledged /\ line[i] = "masked" /\ i \notin stranded
            BY <2>6
        <3>3. handler[i].id \in sent[handler[i].pd] \cup due[handler[i].pd]
            BY <3>2 DEF MaskedIsPending
        <3>4. handler[i].pd = p => handler[i].id # call[2]
            BY <2>8, <3>2
        <3> QED
            BY <2>4, <2>9, <3>1, <3>3, <3>4 DEF TypeOK
    <2> QED
        BY <1>10, <2>11, <2>12, <2>13, <2>14 DEF Dispatch, CapsExact, Exact
<1> QED
    BY <1>1, <1>2, <1>3, <1>4, <1>5, <1>6, <1>7, <1>8, <1>9, <1>10 DEF Next, Create, Step

-----------------------------------------------------------------------------
(* The theorems. *)

(* With ids below 31 the notification words and the event loops of all PDs  *)
(* hold exactly what was signalled.                                         *)
THEOREM AlwaysSignalsPending ==
    ASSUME ChannelsAssumption, Ids \subseteq 0 .. 30
    PROVE  Spec => []SignalsPending
<1>1. Init => IInv
    BY InitIInv
<1>2. IInv /\ [Next]_vars => IInv'
    BY NextIInv
<1>3. IInv => SignalsPending
    BY DEF IInv
<1> QED
    BY <1>1, <1>2, <1>3, PTL DEF Spec

(* With ids below 31 a masked interrupt line has its notification on the    *)
(* way to the PD that can acknowledge it, unless it was masked when its     *)
(* handler was handed on.                                                   *)
THEOREM AlwaysMaskedIsPending ==
    ASSUME ChannelsAssumption, Ids \subseteq 0 .. 30
    PROVE  Spec => []MaskedIsPending
<1>1. Init => IInv
    BY InitIInv
<1>2. IInv /\ [Next]_vars => IInv'
    BY NextIInv
<1>3. IInv => MaskedIsPending
    BY DEF IInv
<1> QED
    BY <1>1, <1>2, <1>3, PTL DEF Spec

(* Only Dispatch makes a call, and then of notified() on a channel due. *)
LEMMA NextEnters ==
    ASSUME ChannelsAssumption, Ids \subseteq 0 .. 30, IInv, [Next]_vars,
           NEW p \in PDs, entered'[p] \notin {entered[p], None}
    PROVE  \E id \in due[p] : entered'[p] = <<"notified", id>>
<1>1. entered \in [PDs -> {None, <<"fault">>, <<"protected">>} \cup ({"notified"} \X Bits)]
    BY DEF IInv, TypeOK
<1>2. entered' # entered
    OBVIOUS
<1>3. ASSUME NEW q \in PDs, Receive(q) PROVE FALSE
    BY <1>1, <1>3 DEF Receive
<1>4. PICK q \in PDs : Dispatch(q)
    BY <1>2, <1>3 DEF Next, Step, Create, SetUpChannel, SetUpIrq, Start, Raise,
        StartPing, EnterLoop, vars
<1>5. entered' = [entered EXCEPT ![q] = Call(badge[q])]
    BY <1>4 DEF Dispatch
<1>6. q = p
    BY <1>1, <1>5
<1>7. badge[p] \subseteq Ids /\ badge[p] # {} /\ badge[p] = due[p]
    BY <1>4, <1>6 DEF Dispatch, IInv, HandlesSome, SignalsPending, TypeOK
<1>8. Call(badge[p])[2] \in due[p] /\ Call(badge[p]) = <<"notified", Call(badge[p])[2]>>
    BY <1>7, CallsLowest
<1> QED
    BY <1>1, <1>5, <1>6, <1>8

(* With ids below 31 the event loop of a PD calls nothing but notified() on *)
(* a channel that was signalled to it.                                      *)
THEOREM AlwaysEntersAsSignalled ==
    ASSUME ChannelsAssumption, Ids \subseteq 0 .. 30
    PROVE  Spec => EntersAsSignalled
<1>1. Init => IInv
    BY InitIInv
<1>2. IInv /\ [Next]_vars => IInv'
    BY NextIInv
<1> DEFINE Enters ==
      \A p \in PDs :
          entered'[p] \notin {entered[p], None}
              => \E id \in due[p] : entered'[p] = <<"notified", id>>
<1>3. IInv /\ [Next]_vars => [Enters]_vars
    BY NextEnters
<1>4. EntersAsSignalled <=> [][Enters]_vars
    BY PTL DEF EntersAsSignalled
<1> QED
    BY <1>1, <1>2, <1>3, <1>4, PTL DEF Spec
=============================================================================
