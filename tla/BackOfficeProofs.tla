-------------------------- MODULE BackOfficeProofs --------------------------
(***************************************************************************)
(* What the desks promise, proved of the specification that is checked,    *)
(* for every value of the constants.  At a desk the behaviour does not     *)
(* follow nothing happens, so each promise needs its invariant at its own  *)
(* desk only.  Sums are sizes of sets (Counting), so one more booking is   *)
(* one more element and no induction is needed.                            *)
(***************************************************************************)
EXTENDS BackOffice, ReviewProofs, SessionProofs

-----------------------------------------------------------------------------
(* Counting in units.                                                      *)

\* A unit stands for a place and a number up to its count.
LEMMA UnitsMember ==
    ASSUME NEW K, NEW f \in [K -> Nat], NEW b
    PROVE  b \in Units(f) <=> \E x \in K : \E i \in 1..f[x] : b = <<x, i>>
<1>1. DOMAIN f = K
  OBVIOUS
<1>2. \A x \in K : b \in {x} \X (1..f[x]) <=> \E i \in 1..f[x] : b = <<x, i>>
  OBVIOUS
<1> QED
  BY <1>1, <1>2 DEF Units

OneMore(f, x) == [f EXCEPT ![x] = f[x] + 1]
OneLess(f, x) == [f EXCEPT ![x] = f[x] - 1]

LEMMA OneMoreValues ==
    ASSUME NEW K, NEW f \in [K -> Nat], NEW x \in K
    PROVE  /\ OneMore(f, x) \in [K -> Nat]
           /\ OneMore(f, x)[x] = f[x] + 1
           /\ \A y \in K \ {x} : OneMore(f, x)[y] = f[y]
BY DEF OneMore

LEMMA OneLessValues ==
    ASSUME NEW K, NEW f \in [K -> Nat], NEW x \in K, f[x] > 0
    PROVE  /\ OneLess(f, x) \in [K -> Nat]
           /\ OneLess(f, x)[x] = f[x] - 1
           /\ \A y \in K \ {x} : OneLess(f, x)[y] = f[y]
BY DEF OneLess

\* One more is one unit more ...
LEMMA UnitsUp ==
    ASSUME NEW K, NEW f \in [K -> Nat], NEW x \in K
    PROVE  /\ Units(OneMore(f, x)) = Units(f) \cup {<<x, f[x] + 1>>}
           /\ <<x, f[x] + 1>> \notin Units(f)
<1> DEFINE g == OneMore(f, x)
<1>1. g \in [K -> Nat] /\ \A y \in K : g[y] = IF y = x THEN f[x] + 1 ELSE f[y]
  BY OneMoreValues
<1> HIDE DEF g
<1>2. f[x] \in Nat /\ 1..(f[x] + 1) = 1..f[x] \cup {f[x] + 1}
  <2>1. f[x] \in Nat
    OBVIOUS
  <2> QED
    BY <2>1
<1>3. ASSUME NEW b \in Units(g)
      PROVE  b \in Units(f) \cup {<<x, f[x] + 1>>}
  <2>1. PICK y \in K : \E i \in 1..g[y] : b = <<y, i>>
    BY <1>1, UnitsMember
  <2>2. PICK i \in 1..g[y] : b = <<y, i>>
    BY <2>1
  <2>3. i \in 1..f[y] \/ (y = x /\ i = f[x] + 1)
    BY <1>1, <1>2
  <2>4. i \in 1..f[y] => b \in Units(f)
    BY <2>2, UnitsMember
  <2> QED
    BY <2>2, <2>3, <2>4
<1>4. ASSUME NEW b \in Units(f)
      PROVE  b \in Units(g)
  <2>1. PICK y \in K : \E i \in 1..f[y] : b = <<y, i>>
    BY UnitsMember
  <2>2. PICK i \in 1..f[y] : b = <<y, i>>
    BY <2>1
  <2>3. i \in 1..g[y]
    BY <1>1, <1>2
  <2> QED
    BY <1>1, <2>2, <2>3, UnitsMember
<1>5. <<x, f[x] + 1>> \in Units(g)
  <2>1. f[x] + 1 \in 1..g[x]
    BY <1>1, <1>2
  <2> QED
    BY <1>1, <2>1, UnitsMember
<1>6. <<x, f[x] + 1>> \notin Units(f)
  <2>1. \A y, i : <<y, i>> = <<x, f[x] + 1>> => y = x /\ i = f[x] + 1
    OBVIOUS
  <2> QED
    BY <1>2, <2>1, UnitsMember
<1> QED
  BY <1>3, <1>4, <1>5, <1>6 DEF g

\* ... and one less is one unit less.
LEMMA UnitsDown ==
    ASSUME NEW K, NEW f \in [K -> Nat], NEW x \in K, f[x] > 0
    PROVE  /\ Units(OneLess(f, x)) = Units(f) \ {<<x, f[x]>>}
           /\ <<x, f[x]>> \in Units(f)
<1> DEFINE g == OneLess(f, x)
<1>1. g \in [K -> Nat] /\ g[x] + 1 = f[x]
  <2>1. f[x] \in Nat
    OBVIOUS
  <2> QED
    BY <2>1, OneLessValues
<1>2. f = OneMore(g, x)
  <2>1. f = [g EXCEPT ![x] = g[x] + 1]
    BY <1>1 DEF OneLess
  <2> QED
    BY <2>1 DEF OneMore
<1> HIDE DEF g
<1>3. Units(f) = Units(g) \cup {<<x, g[x] + 1>>} /\ <<x, g[x] + 1>> \notin Units(g)
  BY <1>1, <1>2, UnitsUp
<1> QED
  BY <1>1, <1>3 DEF g

\* With no units every count is zero, and conversely.
LEMMA UnitsNone ==
    ASSUME NEW K, NEW f \in [K -> Nat]
    PROVE  /\ \A x \in K : f[x] > 0 => Units(f) # {}
           /\ (\A x \in K : f[x] = 0) => Units(f) = {}
<1>1. ASSUME NEW x \in K, f[x] > 0
      PROVE  Units(f) # {}
  <2>1. 1 \in 1..f[x]
    BY <1>1
  <2>2. <<x, 1>> \in Units(f)
    BY <2>1, UnitsMember
  <2> QED
    BY <2>2
<1>2. ASSUME \A x \in K : f[x] = 0
      PROVE  Units(f) = {}
  <2>1. ASSUME NEW b \in Units(f) PROVE FALSE
    <3>1. PICK x \in K : \E i \in 1..f[x] : b = <<x, i>>
      BY <2>1, UnitsMember
    <3>2. f[x] = 0
      BY <1>2
    <3> QED
      BY <3>1, <3>2
  <2> QED
    BY <2>1
<1> QED
  BY <1>1, <1>2

LEMMA TotalType ==
    ASSUME NEW f, IsFiniteSet(Units(f))
    PROVE  Total(f) \in Nat
BY FS_CardinalityType DEF Total

\* Units at x come and go: f has none there, g is f elsewhere.
LEMMA TotalAdded ==
    ASSUME NEW K, NEW f \in [K -> Nat], NEW g \in [K -> Nat], NEW x \in K, f[x] = 0,
           \A y \in K \ {x} : g[y] = f[y], IsFiniteSet(Units(f)) \/ IsFiniteSet(Units(g))
    PROVE  /\ IsFiniteSet(Units(f)) /\ IsFiniteSet(Units(g))
           /\ Total(g) = Total(f) + g[x]
<1> DEFINE new == {x} \X (1..g[x])
<1>1. ASSUME NEW b \in Units(f)
      PROVE  b \in Units(g) /\ b \notin new
  <2>1. PICK y \in K : \E i \in 1..f[y] : b = <<y, i>>
    BY UnitsMember
  <2>2. PICK i \in 1..f[y] : b = <<y, i>>
    BY <2>1
  <2>3. y # x
    BY <2>2
  <2>4. i \in 1..g[y]
    BY <2>3
  <2>5. b \in Units(g)
    BY <2>2, <2>4, UnitsMember
  <2> QED
    BY <2>2, <2>3, <2>5
<1>2. ASSUME NEW b \in Units(g)
      PROVE  b \in Units(f) \cup new
  <2>1. PICK y \in K : \E i \in 1..g[y] : b = <<y, i>>
    BY UnitsMember
  <2>2. PICK i \in 1..g[y] : b = <<y, i>>
    BY <2>1
  <2>3. CASE y = x
    BY <2>2, <2>3
  <2>4. CASE y # x
    <3>1. i \in 1..f[y]
      BY <2>4
    <3>2. b \in Units(f)
      BY <2>2, <3>1, UnitsMember
    <3> QED
      BY <3>2
  <2> QED
    BY <2>3, <2>4
<1>3. ASSUME NEW b \in new
      PROVE  b \in Units(g)
  <2>1. PICK i \in 1..g[x] : b = <<x, i>>
    OBVIOUS
  <2> QED
    BY <2>1, UnitsMember
<1>4. IsFiniteSet(new) /\ Cardinality(new) = g[x]
  <2>1. IsFiniteSet({x}) /\ Cardinality({x}) = 1
    BY FS_Singleton
  <2>2. g[x] \in Nat
    OBVIOUS
  <2>3. IsFiniteSet(1..g[x]) /\ Cardinality(1..g[x]) = g[x]
    BY <2>2, FS_Interval
  <2>4. IsFiniteSet({x} \X (1..g[x]))
        /\ Cardinality({x} \X (1..g[x])) = Cardinality({x}) * Cardinality(1..g[x])
    BY <2>1, <2>3, FS_Product
  <2> QED
    BY <2>1, <2>2, <2>3, <2>4
<1> HIDE DEF new
<1>5. Units(g) = Units(f) \cup new /\ Units(f) \cap new = {} /\ Units(f) \subseteq Units(g)
  BY <1>1, <1>2, <1>3
<1>6. IsFiniteSet(Units(f))
  BY <1>5, FS_Subset
<1>7. IsFiniteSet(Units(g)) /\ Cardinality(Units(g)) = Cardinality(Units(f)) + Cardinality(new) - Cardinality({})
  BY <1>4, <1>5, <1>6, FS_Union
<1>8. Cardinality(Units(f)) \in Nat
  BY <1>6, FS_CardinalityType
<1> QED
  BY <1>4, <1>6, <1>7, <1>8, FS_EmptySet DEF Total

\* The total when all units are at one place.
LEMMA TotalAtOne ==
    ASSUME NEW K, NEW f \in [K -> Nat], NEW x \in K, \A y \in K \ {x} : f[y] = 0
    PROVE  Total(f) = f[x]
<1> DEFINE none == [y \in K |-> 0]
<1>1. none \in [K -> Nat] /\ \A y \in K : none[y] = 0
  OBVIOUS
<1> HIDE DEF none
<1>2. Units(none) = {}
  BY <1>1, UnitsNone
<1>3. IsFiniteSet(Units(none)) /\ Total(none) = 0
  BY <1>2, FS_EmptySet DEF Total
<1>4. Total(f) = Total(none) + f[x]
  BY <1>1, <1>3, TotalAdded
<1> QED
  BY <1>3, <1>4

\* What one more or one less does to the number of units.
LEMMA OneMoreUnit ==
    ASSUME NEW K, NEW f \in [K -> Nat], IsFiniteSet(Units(f)), NEW x \in K
    PROVE  /\ IsFiniteSet(Units(OneMore(f, x)))
           /\ Total(OneMore(f, x)) = Total(f) + 1
<1>1. Units(OneMore(f, x)) = Units(f) \cup {<<x, f[x] + 1>>} /\ <<x, f[x] + 1>> \notin Units(f)
  BY UnitsUp
<1> QED
  BY <1>1, FS_AddElement DEF Total

LEMMA OneUnitLess ==
    ASSUME NEW K, NEW f \in [K -> Nat], IsFiniteSet(Units(f)), NEW x \in K, f[x] > 0
    PROVE  /\ IsFiniteSet(Units(OneLess(f, x)))
           /\ Total(OneLess(f, x)) = Total(f) - 1
<1>1. Units(OneLess(f, x)) = Units(f) \ {<<x, f[x]>>} /\ <<x, f[x]>> \in Units(f)
  BY UnitsDown
<1> QED
  BY <1>1, FS_RemoveElement DEF Total

-----------------------------------------------------------------------------
(* Assisted drafts.                                                        *)

DraftRow == [status: DraftStatuses, party: Parties, method: Methods]

DraftTypes ==
    /\ draft \in [Drafts -> DraftRow]
    /\ converted \in [Drafts -> Seq([seats: Parties, live: BOOLEAN])]
    /\ call \in [Calls -> {Idle} \cup DraftWork]

\* Only an unbooked draft is about to be deleted or approved; a handler that read
\* a booked one read it after a late write had taken it out of CONVERTED.
ReadersInv ==
    \A x \in Calls : call[x] # Idle /\ call[x].booked =>
        /\ call[x].op \notin {"delete", "approve"}
        /\ Booked(call[x].d)
        /\ draft[call[x].d].status # "CONVERTED"

BookedExists == \A d \in Drafts : Booked(d) => draft[d].status # "absent"

DraftInv == DraftTypes /\ ReadersInv /\ BookedExists /\ DraftsBookOnce

\* A handler reads a draft, and finds it CONVERTED or booked only as said above.
DraftReads(c, op, d, party) ==
    /\ Start(c, Work(op, d, party))
    /\ op \in {"update", "delete", "submit", "revise", "reject", "approve"}
    /\ party \in Parties
    /\ draft[d].status # "CONVERTED"
    /\ op \in {"delete", "approve"} => ~Booked(d)
    /\ UNCHANGED draftVars

LEMMA DraftReadsStep ==
    ASSUME DraftInv, NEW c \in Calls, NEW d \in Drafts, NEW op, NEW party,
           DraftReads(c, op, d, party)
    PROVE  DraftInv'
<1>1. Work(op, d, party) \in DraftWork
  BY DEF DraftReads, Work, DraftWork, Booked
<1>2. /\ call' \in [Calls -> {Idle} \cup DraftWork]
      /\ call'[c] = Work(op, d, party)
      /\ \A x \in Calls \ {c} : call'[x] = call[x]
  BY <1>1 DEF DraftReads, Start, DraftInv, DraftTypes
<1>3. UNCHANGED <<draft, converted>>
  BY DEF DraftReads, draftVars
<1>4. ASSUME NEW x \in Calls, call'[x] # Idle, call'[x].booked
      PROVE  /\ call'[x].op \notin {"delete", "approve"}
             /\ Booked(call'[x].d)
             /\ draft[call'[x].d].status # "CONVERTED"
  <2>1. CASE x = c
    BY <1>2, <1>4, <2>1 DEF DraftReads, Work
  <2>2. CASE x # c
    BY <1>2, <1>4, <2>2 DEF DraftInv, ReadersInv
  <2> QED
    BY <2>1, <2>2
<1>5. ReadersInv'
  BY <1>3, <1>4 DEF ReadersInv, Booked
<1> QED
  BY <1>2, <1>3, <1>5 DEF DraftInv, DraftTypes, BookedExists, DraftsBookOnce, Booked

LEMMA DraftAnyReadStep ==
    ASSUME DraftInv, NEW c \in Calls, NEW d \in Drafts,
           \/ UpdateRead(c, d) \/ DeleteRead(c, d) \/ SubmitRead(c, d)
           \/ ReviewRead(c, d) \/ ApproveRead(c, d)
    PROVE  \E op, party : DraftReads(c, op, d, party)
<1>0. draft[d].party \in Parties /\ 0 \in Parties
  BY PartiesAssumption DEF DraftInv, DraftTypes, DraftRow
<1>1. CASE UpdateRead(c, d)
  BY <1>1 DEF UpdateRead, DraftReads, Editable
<1>2. CASE DeleteRead(c, d)
  BY <1>0, <1>2 DEF DeleteRead, DraftReads, Editable
<1>3. CASE SubmitRead(c, d)
  BY <1>0, <1>3 DEF SubmitRead, DraftReads, Editable
<1>4. CASE ReviewRead(c, d)
  BY <1>0, <1>4 DEF ReviewRead, DraftReads
<1>5. CASE ApproveRead(c, d)
  BY <1>0, <1>5 DEF ApproveRead, DraftReads, Editable
<1> QED
  BY <1>1, <1>2, <1>3, <1>4, <1>5

\* What a write by id leaves behind.
LEMMA WriteTypes ==
    ASSUME DraftTypes, NEW d \in Drafts
    PROVE  /\ \A v \in Parties : Write(d, "party", v) =>
                /\ draft' \in [Drafts -> DraftRow]
                /\ draft'[d].status = draft[d].status
                /\ \A k \in Drafts \ {d} : draft'[k] = draft[k]
           /\ \A v \in DraftStatuses : Write(d, "status", v) =>
                /\ draft' \in [Drafts -> DraftRow]
                /\ draft'[d].status = v
                /\ \A k \in Drafts \ {d} : draft'[k] = draft[k]
BY DEF DraftTypes, DraftRow, Write

\* The handler's draft, its writes, and the statuses it may leave.
Ends(c) ==
    /\ call[c] # Idle
    /\ call' = [call EXCEPT ![c] = Idle]
    /\ draft' \in [Drafts -> DraftRow]
    /\ \A k \in Drafts \ {call[c].d} : draft'[k] = draft[k]
    /\ call[c].op # "approve" => converted' = converted
    /\ draft[call[c].d].status = "DELETED" => draft' = draft
    /\ draft'[call[c].d].status \in {"absent", "CONVERTED"} =>
            draft'[call[c].d].status = draft[call[c].d].status \/ call[c].op = "approve"
    /\ draft'[call[c].d].status = "DELETED" =>
            draft[call[c].d].status = "DELETED" \/ call[c].op = "delete"

LEMMA UpdateWriteEnds ==
    ASSUME DraftInv, NEW c \in Calls, UpdateWrite(c)
    PROVE  Ends(c) /\ call[c].op = "update"
<1>1. call[c].op = "update" /\ call[c] # Idle /\ call[c].d \in Drafts /\ call[c].party \in Parties
  BY DEF UpdateWrite, DraftInv, DraftTypes, DraftWork, Doing, Idle
<1>2. Write(call[c].d, "party", call[c].party) \/ draft' = draft
  BY DEF UpdateWrite
<1>3. /\ draft' \in [Drafts -> DraftRow]
      /\ draft'[call[c].d].status = draft[call[c].d].status
      /\ \A k \in Drafts \ {call[c].d} : draft'[k] = draft[k]
  BY <1>1, <1>2, WriteTypes DEF DraftInv, DraftTypes
<1>4. draft[call[c].d].status = "DELETED" => draft' = draft
  BY DEF UpdateWrite, Exists
<1> QED
  BY <1>1, <1>3, <1>4 DEF UpdateWrite, Finish, Ends

LEMMA StatusWriteEnds ==
    ASSUME DraftInv, NEW c \in Calls, StatusWrite(c)
    PROVE  Ends(c) /\ call[c].op \in {"delete", "submit", "revise", "reject"}
<1>1. PICK step \in {<<"delete", "DELETED">>, <<"submit", "PENDING_APPROVAL">>,
                      <<"revise", "NEEDS_REVISION">>, <<"reject", "REJECTED">>} :
        /\ Doing(c, step[1])
        /\ IF Exists(call[c].d) THEN Write(call[c].d, "status", step[2]) ELSE UNCHANGED draft
        /\ Finish(c)
        /\ UNCHANGED <<converted, departure>>
  BY DEF StatusWrite
<1>2. /\ step[2] \in DraftStatuses \ {"absent", "CONVERTED"}
      /\ step[2] = "DELETED" => step[1] = "delete"
      /\ step[1] \in {"delete", "submit", "revise", "reject"}
  BY DEF DraftStatuses, Editable
<1>3. call[c].op = step[1] /\ call[c] # Idle /\ call[c].d \in Drafts
  BY <1>1, <1>2 DEF DraftInv, DraftTypes, DraftWork, Doing, Idle
<1>4. Write(call[c].d, "status", step[2]) \/ draft' = draft
  BY <1>1
<1>5. /\ draft' \in [Drafts -> DraftRow]
      /\ draft'[call[c].d].status \in {draft[call[c].d].status, step[2]}
      /\ \A k \in Drafts \ {call[c].d} : draft'[k] = draft[k]
  BY <1>2, <1>3, <1>4, WriteTypes DEF DraftInv, DraftTypes
<1>6. draft[call[c].d].status = "DELETED" => draft' = draft
  BY <1>1 DEF Exists
<1> QED
  BY <1>1, <1>2, <1>3, <1>5, <1>6 DEF Finish, Ends

\* An approval makes the booking of a draft that has none, or does nothing.
LEMMA ApproveWriteEnds ==
    ASSUME DraftInv, NEW c \in Calls, ApproveWrite(c)
    PROVE  /\ Ends(c) /\ call[c].op = "approve" /\ call[c].d \in Drafts
           /\ \/ draft' = draft /\ converted' = converted
              \/ /\ ~Booked(call[c].d)
                 /\ draft'[call[c].d].status = "CONVERTED"
                 /\ converted' = [converted EXCEPT ![call[c].d] =
                                    Append(@, [seats |-> call[c].party, live |-> TRUE])]
<1>1. /\ call[c].op = "approve" /\ call[c] # Idle
      /\ call[c].d \in Drafts /\ call[c].party \in Parties
  BY DEF ApproveWrite, DraftInv, DraftTypes, DraftWork, Doing, Idle
<1>2. CASE draft' = draft /\ converted' = converted
  BY <1>1, <1>2 DEF ApproveWrite, Finish, Ends, DraftInv, DraftTypes
<1>3. CASE ApprovedBy(c) /\ ~Booked(call[c].d) /\ Exists(call[c].d)
  <2>1. "CONVERTED" \in DraftStatuses
    BY DEF DraftStatuses
  <2>2. /\ draft' \in [Drafts -> DraftRow]
        /\ draft'[call[c].d].status = "CONVERTED"
        /\ \A k \in Drafts \ {call[c].d} : draft'[k] = draft[k]
    BY <1>1, <1>3, <2>1, WriteTypes DEF ApprovedBy, DraftInv
  <2> QED
    BY <1>1, <1>3, <2>2 DEF ApproveWrite, ApprovedBy, Exists, Finish, Ends
<1> QED
  BY <1>2, <1>3 DEF ApproveWrite, draftVars

\* What BookedDraftChangesByEarlyReaderOnly says of a step.
EarlyReaderOnly ==
    \A d \in Drafts :
        /\ Booked(d)
        /\ draft[d].status = "CONVERTED" \/ draft'[d].status = "DELETED"
        /\ draft'[d] # draft[d]
        => \E c \in Calls : call[c] # Idle /\ call'[c] = Idle /\ call[c].d = d /\ ~call[c].booked

LEMMA EndsStep ==
    ASSUME DraftInv, NEW c \in Calls, Ends(c), call[c].d \in Drafts,
           \/ converted' = converted /\ (call[c].op = "approve" => draft' = draft)
           \/ /\ ~Booked(call[c].d)
              /\ draft'[call[c].d].status = "CONVERTED"
              /\ call[c].party \in Parties
              /\ converted' = [converted EXCEPT ![call[c].d] =
                                 Append(@, [seats |-> call[c].party, live |-> TRUE])]
    PROVE  DraftInv' /\ EarlyReaderOnly
<1> DEFINE e == call[c].d
<1>1. /\ call' \in [Calls -> {Idle} \cup DraftWork]
      /\ call'[c] = Idle
      /\ \A x \in Calls \ {c} : call'[x] = call[x]
  BY DEF Ends, DraftInv, DraftTypes
<1>2. /\ converted' \in [Drafts -> Seq([seats: Parties, live: BOOLEAN])]
      /\ \A d \in Drafts : Len(converted'[d]) <= 1
      /\ \A d \in Drafts : Booked(d) => Booked(d)' /\ converted'[d] = converted[d]
      /\ \A d \in Drafts : Booked(d)' =>
            Booked(d) \/ (d = e /\ draft'[d].status = "CONVERTED")
  <2>1. CASE converted' = converted
    BY <2>1 DEF DraftInv, DraftTypes, DraftsBookOnce, Booked
  <2>2. CASE /\ ~Booked(e)
             /\ draft'[e].status = "CONVERTED"
             /\ call[c].party \in Parties
             /\ converted' = [converted EXCEPT ![e] =
                                Append(@, [seats |-> call[c].party, live |-> TRUE])]
    <3> DEFINE made == [seats |-> call[c].party, live |-> TRUE]
    <3>1. made \in [seats: Parties, live: BOOLEAN] /\ converted[e] = <<>>
      BY <2>2 DEF Booked
    <3>2. Append(converted[e], made) \in Seq([seats: Parties, live: BOOLEAN])
      BY <3>1 DEF DraftInv, DraftTypes
    <3>3. Len(Append(converted[e], made)) = 1
      BY <3>1
    <3>4. converted' = [converted EXCEPT ![e] = Append(converted[e], made)]
      BY <2>2
    <3> HIDE DEF made, e
    <3>5. /\ converted' \in [Drafts -> Seq([seats: Parties, live: BOOLEAN])]
          /\ \A d \in Drafts \ {e} : converted'[d] = converted[d]
          /\ Len(converted'[e]) = 1
      BY <3>2, <3>3, <3>4 DEF DraftInv, DraftTypes, e
    <3>6. ~Booked(e) /\ draft'[e].status = "CONVERTED"
      BY <2>2
    <3>7. \A d \in Drafts : Len(converted'[d]) <= 1
      <4>1. \A d \in Drafts : Len(converted[d]) <= 1
        BY DEF DraftInv, DraftsBookOnce
      <4> QED
        BY <3>5, <4>1
    <3>8. \A d \in Drafts \ {e} : Booked(d)' <=> Booked(d)
      BY <3>5 DEF Booked
    <3> QED
      BY <3>5, <3>6, <3>7, <3>8
  <2> QED
    BY <2>1, <2>2
<1>3. \A d \in Drafts : draft'[d] # draft[d] => d = e
  BY DEF Ends
<1>4. Booked(e) =>
        /\ draft'[e].status = "CONVERTED" => draft[e].status = "CONVERTED"
        /\ draft'[e].status = "absent" => draft[e].status = "absent"
  BY DEF Ends
<1>5. ReadersInv'
  <2> SUFFICES ASSUME NEW x \in Calls, call'[x] # Idle, call'[x].booked
               PROVE  /\ call'[x].op \notin {"delete", "approve"}
                      /\ Booked(call[x].d)'
                      /\ draft'[call'[x].d].status # "CONVERTED"
    BY DEF ReadersInv
  <2>1. x # c /\ call'[x] = call[x] /\ call[x].d \in Drafts
    BY <1>1 DEF DraftInv, DraftTypes, DraftWork
  <2>2. /\ call[x].op \notin {"delete", "approve"}
        /\ Booked(call[x].d)
        /\ draft[call[x].d].status # "CONVERTED"
    BY <2>1 DEF DraftInv, ReadersInv
  <2>3. draft'[call[x].d].status # "CONVERTED"
    BY <1>3, <1>4, <2>1, <2>2
  <2> QED
    BY <1>2, <2>1, <2>2, <2>3 DEF Booked
<1>6. BookedExists'
  <2> SUFFICES ASSUME NEW d \in Drafts, Booked(d)', draft'[d].status = "absent"
               PROVE  FALSE
    BY DEF BookedExists, Booked
  <2>1. Booked(d)
    BY <1>2
  <2>2. draft[d].status # "absent"
    BY <2>1 DEF DraftInv, BookedExists
  <2> QED
    BY <1>3, <1>4, <2>1, <2>2
<1>7. DraftInv'
  BY <1>1, <1>2, <1>5, <1>6 DEF DraftInv, DraftTypes, DraftsBookOnce, Ends
<1>8. EarlyReaderOnly
  <2> SUFFICES ASSUME NEW d \in Drafts, Booked(d),
                      draft[d].status = "CONVERTED" \/ draft'[d].status = "DELETED",
                      draft'[d] # draft[d]
               PROVE  call[c] # Idle /\ call'[c] = Idle /\ call[c].d = d /\ ~call[c].booked
    BY DEF EarlyReaderOnly
  <2>1. d = e /\ call[c] # Idle /\ call'[c] = Idle
    BY <1>1, <1>3 DEF Ends
  <2>2. ASSUME call[c].booked PROVE FALSE
    <3>1. call[c].op # "delete" /\ draft[d].status # "CONVERTED"
      BY <2>1, <2>2 DEF DraftInv, ReadersInv
    <3>2. draft'[d].status = "DELETED" /\ draft[d].status = "DELETED"
      BY <2>1, <3>1 DEF Ends
    <3> QED
      BY <3>2, <2>1 DEF Ends
  <2> QED
    BY <2>1, <2>2
<1> QED
  BY <1>7, <1>8

LEMMA CreateDraftStep ==
    ASSUME DraftInv, NEW d \in Drafts, CreateDraft(d)
    PROVE  DraftInv' /\ EarlyReaderOnly
<1>1. PICK party \in Parties, method \in Methods :
        draft' = [draft EXCEPT ![d] = [status |-> "DRAFT", party |-> party, method |-> method]]
  BY DEF CreateDraft
<1>2. UNCHANGED <<call, converted>> /\ ~Booked(d)
  BY DEF CreateDraft, DraftInv, BookedExists
<1>3. /\ draft' \in [Drafts -> DraftRow]
      /\ draft'[d].status = "DRAFT"
      /\ \A k \in Drafts \ {d} : draft'[k] = draft[k]
  BY <1>1 DEF DraftInv, DraftTypes, DraftRow, DraftStatuses, Editable
<1>4. ReadersInv'
  BY <1>2, <1>3 DEF DraftInv, DraftTypes, DraftWork, ReadersInv, Booked
<1>5. BookedExists'
  BY <1>2, <1>3 DEF DraftInv, BookedExists, Booked
<1>6. EarlyReaderOnly
  BY <1>2, <1>3 DEF EarlyReaderOnly
<1> QED
  BY <1>2, <1>3, <1>4, <1>5, <1>6 DEF DraftInv, DraftTypes, DraftsBookOnce

LEMMA EndBookingStep ==
    ASSUME DraftInv, NEW d \in Drafts, EndBooking(d)
    PROVE  DraftInv' /\ EarlyReaderOnly
<1>1. PICK i \in DOMAIN converted[d] : converted' = [converted EXCEPT ![d][i].live = FALSE]
  BY DEF EndBooking
<1>2. UNCHANGED <<call, draft>>
  BY DEF EndBooking
<1> DEFINE Rows == [seats: Parties, live: BOOLEAN]
<1>3. converted[d] \in Seq(Rows) /\ Len(converted[d]) <= 1
  BY DEF DraftInv, DraftTypes, DraftsBookOnce
<1>4. converted[d][i] \in Rows
  <2>1. i \in 1..Len(converted[d])
    BY <1>1, <1>3
  <2> HIDE DEF Rows
  <2> QED
    BY <1>3, <2>1
<1> DEFINE row == [converted[d][i] EXCEPT !.live = FALSE]
<1>5. row \in Rows
  BY <1>4
<1> DEFINE made == [converted[d] EXCEPT ![i] = row]
<1>6. converted' = [converted EXCEPT ![d] = made]
  BY <1>1
<1> HIDE DEF row
<1>7. made \in Seq(Rows) /\ Len(made) = Len(converted[d])
  BY <1>3, <1>5
<1> HIDE DEF made
<1>8. /\ converted' \in [Drafts -> Seq(Rows)]
      /\ converted'[d] = made
      /\ \A k \in Drafts \ {d} : converted'[k] = converted[k]
  BY <1>6, <1>7 DEF DraftInv, DraftTypes
<1>9. converted[d] # <<>> /\ made # <<>>
  BY <1>3, <1>7
<1>10. \A k \in Drafts : Booked(k)' <=> Booked(k)
  BY <1>8, <1>9 DEF Booked
<1>11. DraftsBookOnce'
  BY <1>3, <1>7, <1>8 DEF DraftInv, DraftsBookOnce
<1>12. ReadersInv' /\ BookedExists'
  BY <1>2, <1>10 DEF DraftInv, DraftTypes, DraftWork, ReadersInv, BookedExists, Booked
<1> QED
  BY <1>2, <1>8, <1>11, <1>12 DEF DraftInv, DraftTypes, EarlyReaderOnly

LEMMA DraftsUnchanged ==
    ASSUME DraftInv, UNCHANGED <<call, draft, converted>>
    PROVE  DraftInv' /\ EarlyReaderOnly
BY DEF DraftInv, DraftTypes, ReadersInv, BookedExists, DraftsBookOnce, Booked, EarlyReaderOnly

LEMMA DraftStep ==
    ASSUME DraftInv, [DraftNext]_<<call, draftVars>>
    PROVE  DraftInv' /\ EarlyReaderOnly
<1>1. ASSUME NEW c \in Calls, NEW d \in Drafts,
             \/ UpdateRead(c, d) \/ DeleteRead(c, d) \/ SubmitRead(c, d)
             \/ ReviewRead(c, d) \/ ApproveRead(c, d)
      PROVE  DraftInv' /\ EarlyReaderOnly
  <2>1. PICK op, party : DraftReads(c, op, d, party)
    BY <1>1, DraftAnyReadStep
  <2>2. draft' = draft
    BY <2>1 DEF DraftReads, draftVars
  <2> QED
    BY <2>1, <2>2, DraftReadsStep DEF EarlyReaderOnly
<1>2. ASSUME NEW c \in Calls, UpdateWrite(c) \/ StatusWrite(c)
      PROVE  DraftInv' /\ EarlyReaderOnly
  <2>1. Ends(c) /\ call[c].op # "approve" /\ call[c] # Idle
    BY <1>2, UpdateWriteEnds, StatusWriteEnds DEF Ends
  <2>2. call[c].d \in Drafts
    BY <2>1 DEF DraftInv, DraftTypes, DraftWork
  <2>3. converted' = converted
    BY <2>1 DEF Ends
  <2> QED
    BY <2>1, <2>2, <2>3, EndsStep
<1>3. ASSUME NEW c \in Calls, ApproveWrite(c)
      PROVE  DraftInv' /\ EarlyReaderOnly
  <2>1. call[c].party \in Parties
    BY <1>3 DEF ApproveWrite, Doing, DraftInv, DraftTypes, DraftWork, Idle
  <2> QED
    BY <1>3, <2>1, ApproveWriteEnds, EndsStep
<1>4. CASE OthersBook \/ OthersCancel \/ SwitchDeparture \/ UNCHANGED <<call, draftVars>>
  BY <1>4, DraftsUnchanged DEF OthersBook, OthersCancel, SwitchDeparture, draftVars
<1> QED
  BY <1>1, <1>2, <1>3, <1>4, CreateDraftStep, EndBookingStep DEF DraftNext

LEMMA DraftsInitially ==
    ASSUME DraftInit, call = [c \in Calls |-> Idle]
    PROVE  DraftInv
<1>1. DraftTypes
  BY PartiesAssumption DEF DraftInit, DraftTypes, DraftRow, DraftStatuses, Methods
<1> QED
  BY <1>1 DEF DraftInit, DraftInv, ReadersInv, BookedExists, DraftsBookOnce, Booked

-----------------------------------------------------------------------------
(* Support tickets.                                                        *)

SupportTypes ==
    SupportTypeOK /\ call = [x \in Calls |-> call[x]]

\* What ReplyKeepsTheOwner says of a step.
OwnerKept ==
    (\E c \in Calls : Replying(c) /\ call[c].owner = ticket.owner /\ ticket.owner # Nobody)
        => ticket'.owner = ticket.owner

TicketWorkTypes == \A x \in Calls : call[x].op \in {"reply", "note"} =>
    call[x].by \in Staff /\ call[x].owner \in Staff \cup {Nobody}

SupportInv == SupportTypes /\ TicketWorkTypes

LEMMA SupportStep ==
    ASSUME SupportInv, [SupportNext]_<<call, ticket>>
    PROVE  SupportInv' /\ OwnerKept
<1>0. Idle.op = "idle"
  BY DEF Idle
<1>1. CASE call' = call
  <2>1. ticket' \in [status: TicketStatuses, owner: Staff \cup {Nobody}, rated: BOOLEAN]
    BY <1>1
    DEF SupportInv, SupportTypes, SupportTypeOK, SupportNext, CreateFromContact, UpdateStatus,
        AssignTicket, ReplyTicketRead, ResolvedRead, ReplyTicketWrite, NoteWrite, RateWrite,
        ReopenWrite, Start, Finish, Doing, TicketStatuses, Idle, TicketWorkTypes
  <2>2. OwnerKept
    BY <1>0, <1>1 DEF OwnerKept, Replying
  <2> QED
    BY <1>1, <2>1, <2>2 DEF SupportInv, SupportTypes, SupportTypeOK, TicketWorkTypes
<1>2. ASSUME NEW c \in Calls, NEW work, Start(c, work), ticket' = ticket,
             work.op \in {"reply", "note"} =>
                work.by \in Staff /\ work.owner \in Staff \cup {Nobody}
      PROVE  SupportInv' /\ OwnerKept
  BY <1>2 DEF Start, SupportInv, SupportTypes, SupportTypeOK, TicketWorkTypes, OwnerKept
<1>3. ASSUME NEW c \in Calls, ReplyTicketWrite(c) \/ NoteWrite(c) \/ RateWrite(c) \/ ReopenWrite(c)
      PROVE  SupportInv' /\ OwnerKept
  <2>1. /\ call' = [x \in Calls |-> IF x = c THEN Idle ELSE call[x]]
        /\ call[c].op \in {"reply", "note"} =>
                call[c].by \in Staff /\ call[c].owner \in Staff \cup {Nobody}
    BY <1>3
    DEF ReplyTicketWrite, NoteWrite, RateWrite, ReopenWrite, Finish, SupportInv, SupportTypes,
        TicketWorkTypes
  <2>2. ticket' \in [status: TicketStatuses, owner: Staff \cup {Nobody}, rated: BOOLEAN]
    BY <1>3, <2>1
    DEF ReplyTicketWrite, NoteWrite, RateWrite, ReopenWrite, Doing, SupportInv, SupportTypes,
        SupportTypeOK, TicketStatuses
  <2>3. SupportInv'
    BY <1>0, <2>1, <2>2 DEF SupportInv, SupportTypes, SupportTypeOK, TicketWorkTypes
  <2>4. ASSUME NEW x \in Calls, Replying(x), call[x].owner = ticket.owner, ticket.owner # Nobody
        PROVE  ticket'.owner = ticket.owner
    <3>1. x = c
      BY <1>0, <2>1, <2>4 DEF Replying
    <3> QED
      BY <1>3, <2>4, <3>1
      DEF ReplyTicketWrite, NoteWrite, RateWrite, ReopenWrite, Replying, Doing, SupportInv,
          SupportTypes, SupportTypeOK
  <2> QED
    BY <2>3, <2>4 DEF OwnerKept
<1>4. ASSUME NEW c \in Calls, NEW s \in Staff, ReplyTicketRead(c, s)
      PROVE  SupportInv' /\ OwnerKept
  <2>1. PICK op \in {"reply", "note"} : Start(c, [op |-> op, by |-> s, owner |-> ticket.owner])
    BY <1>4 DEF ReplyTicketRead
  <2>2. ticket' = ticket /\ ticket.owner \in Staff \cup {Nobody}
    BY <1>4 DEF ReplyTicketRead, SupportInv, SupportTypes, SupportTypeOK
  <2> QED
    BY <1>2, <2>1, <2>2
<1>5. ASSUME NEW c \in Calls, ResolvedRead(c)
      PROVE  SupportInv' /\ OwnerKept
  BY <1>2, <1>5 DEF ResolvedRead
<1>6. (CreateFromContact \/ UpdateStatus \/ \E s \in Staff : AssignTicket(s)) => call' = call
  BY DEF CreateFromContact, UpdateStatus, AssignTicket
<1> QED
  BY <1>1, <1>3, <1>4, <1>5, <1>6 DEF SupportNext

LEMMA SupportInitially ==
    ASSUME SupportInit, call = [c \in Calls |-> Idle]
    PROVE  SupportInv
BY DEF SupportInit, SupportInv, SupportTypes, SupportTypeOK, TicketStatuses, TicketWorkTypes, Idle

-----------------------------------------------------------------------------
(* Vouchers.                                                               *)

VoucherTypes == VoucherTypeOK /\ call \in [Calls -> {Idle} \cup VoucherWork]

Counted == IsFiniteSet(Units(held)) /\ IsFiniteSet(Units(forgotten))

\* A rename or a removal under way found the voucher unused.
EarlyChecks == \A c \in Calls : Doing(c, "rename") \/ Doing(c, "remove") => call[c].used = 0

Claims(c, u) == Doing(c, "claim") /\ call[c].u = u

\* As long as no rename or removal has cut bookings off from the voucher: it knows all
\* of them, they carry its code, and one in the making is within the customer's limit.
Together ==
    /\ voucher.used = Bookings
    /\ \A u \in Users, k \in Codes : held[<<u, k>>] > 0 => IsFor(k)
    /\ ~voucher.exists => voucher.used = 0
    /\ \A u \in Users \ raced, k \in Codes :
        /\ held[<<u, k>>] <= PerUser
        /\ (\E c \in Calls : Claims(c, u)) => held[<<u, k>>] < PerUser
    /\ \A u \in Users : wallet[u] = "used" => forgotten[u] > 0 \/ \E k \in Codes : held[<<u, k>>] > 0

VoucherInv == VoucherTypes /\ Counted /\ EarlyChecks /\ (cutOff \/ Together)

LEMMA VoucherWorkOf ==
    ASSUME VoucherTypes, NEW c \in Calls
    PROVE  /\ Doing(c, "claim") => call[c].u \in Users /\ call[c].code \in Codes
           /\ Doing(c, "save") => call[c].u \in Users
           /\ Doing(c, "rename") => call[c].code \in Codes
           /\ Doing(c, "toggle") => call[c].active \in BOOLEAN
           /\ \A op \in {"claim", "save", "rename", "remove", "toggle"} :
                Doing(c, op) => call[c] # Idle
BY DEF VoucherTypes, VoucherWork, Doing, Idle

LEMMA VoucherFinish ==
    ASSUME VoucherTypes, NEW c \in Calls, Finish(c)
    PROVE  /\ call' \in [Calls -> {Idle} \cup VoucherWork]
           /\ \A x \in Calls, op \in {"claim", "rename", "remove"} :
                Doing(x, op)' => x # c /\ Doing(x, op) /\ call'[x] = call[x]
BY DEF VoucherTypes, Finish, Doing, Idle

\* With no use counted nobody holds a booking.
LEMMA UnusedIsEmpty ==
    ASSUME VoucherTypes, Counted, Together, voucher.used = 0
    PROVE  /\ \A u \in Users, k \in Codes : held[<<u, k>>] = 0
           /\ \A u \in Users : forgotten[u] = 0
<1>1. Total(held) \in Nat /\ Total(forgotten) \in Nat
  BY TotalType DEF Counted
<1>2. Total(held) = 0 /\ Total(forgotten) = 0
  <2>1. Total(held) + Total(forgotten) = 0
    BY DEF Together, Bookings
  <2> QED
    BY <1>1, <2>1
<1>3. Units(held) = {} /\ Units(forgotten) = {}
  BY <1>2, FS_EmptySet DEF Counted, Total
<1>4. held \in [Users \X Codes -> Nat] /\ forgotten \in [Users -> Nat]
  BY DEF VoucherTypes, VoucherTypeOK
<1>5. \A p \in Users \X Codes : held[p] = 0
  <2>1. \A p \in Users \X Codes : held[p] \in Nat /\ ~(held[p] > 0)
    BY <1>3, <1>4, UnitsNone
  <2> QED
    BY <2>1
<1>6. \A u \in Users : forgotten[u] = 0
  <2>1. \A u \in Users : forgotten[u] \in Nat /\ ~(forgotten[u] > 0)
    BY <1>3, <1>4, UnitsNone
  <2> QED
    BY <2>1
<1> QED
  BY <1>5, <1>6

\* The live uses of a customer, as long as they all carry the voucher's code.
LEMMA LiveUsesAre ==
    ASSUME VoucherTypes, Together, NEW u \in Users
    PROVE  /\ LiveUses(u) \in Nat
           /\ (\A k \in Codes : held[<<u, k>>] <= PerUser) => LiveUses(u) <= PerUser
           /\ (\E k \in Codes : held[<<u, k>>] > 0) => LiveUses(u) > 0
<1> DEFINE own == [k \in Codes |-> held[<<u, k>>]]
<1>1. voucher.code \in Codes /\ \A k \in Codes : held[<<u, k>>] \in Nat
  BY DEF VoucherTypes, VoucherTypeOK
<1>2. own \in [Codes -> Nat] /\ \A k \in Codes : own[k] = held[<<u, k>>]
  BY <1>1
<1>3. ASSUME NEW k \in Codes \ {voucher.code}
      PROVE  held[<<u, k>>] = 0
  <2>1. ~(held[<<u, k>>] > 0)
    BY DEF Together, IsFor
  <2> QED
    BY <1>1, <2>1
<1> HIDE DEF own
<1>4. Total(own) = own[voucher.code]
  <2>1. \A k \in Codes \ {voucher.code} : own[k] = 0
    BY <1>2, <1>3
  <2> DEFINE k0 == voucher.code
  <2>2. k0 \in Codes
    BY <1>1
  <2> HIDE DEF k0
  <2>3. Total(own) = own[k0]
    BY ONLY <1>2, <2>1, <2>2, TotalAtOne DEF k0
  <2> QED
    BY <2>3 DEF k0
<1>5. LiveUses(u) = held[<<u, voucher.code>>]
  BY <1>1, <1>2, <1>4 DEF LiveUses, own
<1>6. ASSUME NEW k \in Codes, held[<<u, k>>] > 0
      PROVE  held[<<u, voucher.code>>] > 0
  <2>1. CASE k = voucher.code
    BY <1>6, <2>1
  <2>2. CASE k # voucher.code
    <3>1. held[<<u, k>>] = 0
      BY <1>3, <2>2
    <3> QED
      BY <1>6, <3>1
  <2> QED
    BY <2>1, <2>2
<1> QED
  BY <1>1, <1>5, <1>6

\* What the three promises say follows from the invariant.
LEMMA VoucherPromises ==
    ASSUME VoucherInv
    PROVE  UsesAccountedFor /\ PerUserLimitKept /\ UsedMarkIsBacked
<1>1. CASE cutOff
  BY <1>1 DEF UsesAccountedFor, PerUserLimitKept, UsedMarkIsBacked
<1>2. CASE Together
  <2>1. VoucherTypes /\ forgotten \in [Users -> Nat]
    BY DEF VoucherInv, VoucherTypes, VoucherTypeOK
  <2>2. PerUserLimitKept
    BY <1>2, <2>1, LiveUsesAre DEF Together, PerUserLimitKept
  <2>3. UsedMarkIsBacked
    <3>1. ASSUME NEW u \in Users, wallet[u] = "used"
          PROVE  LiveUses(u) + forgotten[u] > 0
      <4>1. LiveUses(u) \in Nat /\ forgotten[u] \in Nat
        BY <1>2, <2>1, LiveUsesAre
      <4>2. forgotten[u] > 0 \/ LiveUses(u) > 0
        BY <1>2, <2>1, <3>1, LiveUsesAre DEF Together
      <4> QED
        BY <4>1, <4>2
    <3> QED
      BY <3>1 DEF UsedMarkIsBacked
  <2> QED
    BY <1>2, <2>2, <2>3 DEF Together, UsesAccountedFor
<1> QED
  BY <1>1, <1>2 DEF VoucherInv

\* A request passes its checks: a claim within the customer's limit, a rename or a
\* removal of an unused voucher.
ReadsVoucher(c, work) ==
    /\ Start(c, work)
    /\ work \in VoucherWork
    /\ work.op = "claim" => held[<<work.u, voucher.code>>] < PerUser /\ voucher.exists
    /\ work.op \in {"rename", "remove"} => work.used = 0
    /\ UNCHANGED voucherVars

LEMMA VoucherReads ==
    ASSUME VoucherInv, NEW c \in Calls,
           \/ \E u \in Users : ValidateVoucher(c, u) \/ SaveToWallet(c, u)
           \/ RenameRead(c) \/ ToggleRead(c) \/ DeleteVoucherRead(c)
    PROVE  \E work : ReadsVoucher(c, work)
<1>1. voucher.code \in Codes /\ voucher.active \in BOOLEAN
  BY DEF VoucherInv, VoucherTypes, VoucherTypeOK
<1>2. voucher.id \in 1..MaxVouchers
  BY DEF VoucherInv, VoucherTypes, VoucherTypeOK
<1>3. ASSUME NEW u \in Users, ValidateVoucher(c, u)
      PROVE  \E work : ReadsVoucher(c, work)
  <2>1. ReadsVoucher(c, [op |-> "claim", u |-> u, code |-> voucher.code])
    BY <1>1, <1>3 DEF ValidateVoucher, ReadsVoucher, VoucherWork
  <2> QED
    BY <2>1
<1>4. ASSUME NEW u \in Users, SaveToWallet(c, u)
      PROVE  \E work : ReadsVoucher(c, work)
  <2>1. ReadsVoucher(c, [op |-> "save", u |-> u, id |-> voucher.id])
    BY <1>2, <1>4 DEF SaveToWallet, ReadsVoucher, VoucherWork
  <2> QED
    BY <2>1
<1>5. ASSUME RenameRead(c)
      PROVE  \E work : ReadsVoucher(c, work)
  <2>1. PICK code \in Codes :
            Start(c, [op |-> "rename", id |-> voucher.id, code |-> code, used |-> voucher.used])
    BY <1>5 DEF RenameRead
  <2>2. voucher.used = 0 /\ UNCHANGED voucherVars
    BY <1>5 DEF RenameRead
  <2>3. ReadsVoucher(c, [op |-> "rename", id |-> voucher.id, code |-> code, used |-> voucher.used])
    BY <1>2, <2>1, <2>2 DEF ReadsVoucher, VoucherWork
  <2> QED
    BY <2>3
<1>6. ASSUME ToggleRead(c)
      PROVE  \E work : ReadsVoucher(c, work)
  <2>1. ReadsVoucher(c, [op |-> "toggle", id |-> voucher.id, active |-> ~voucher.active])
    BY <1>1, <1>2, <1>6 DEF ToggleRead, ReadsVoucher, VoucherWork
  <2> QED
    BY <2>1
<1>7. ASSUME DeleteVoucherRead(c)
      PROVE  \E work : ReadsVoucher(c, work)
  <2>1. ReadsVoucher(c, [op |-> "remove", id |-> voucher.id, used |-> voucher.used])
    BY <1>2, <1>7 DEF DeleteVoucherRead, ReadsVoucher, VoucherWork
  <2> QED
    BY <2>1
<1> QED
  BY <1>3, <1>4, <1>5, <1>6, <1>7

LEMMA VoucherReadStep ==
    ASSUME VoucherInv, NEW c \in Calls, NEW work, ReadsVoucher(c, work)
    PROVE  VoucherInv'
<1>1. UNCHANGED <<voucher, wallet, held, forgotten, cutOff, raced>>
  BY DEF ReadsVoucher, voucherVars
<1>2. /\ call' \in [Calls -> {Idle} \cup VoucherWork]
      /\ call'[c] = work
      /\ \A x \in Calls \ {c} : call'[x] = call[x]
  BY DEF ReadsVoucher, Start, VoucherInv, VoucherTypes
<1>3. VoucherTypes' /\ Counted'
  BY <1>1, <1>2 DEF VoucherInv, VoucherTypes, VoucherTypeOK, Counted, Units
<1>4. EarlyChecks'
  BY <1>2 DEF ReadsVoucher, VoucherInv, EarlyChecks, Doing
<1>5. ASSUME Together PROVE Together'
  <2>1. Bookings' = Bookings /\ (\A k \in Codes : IsFor(k)' = IsFor(k))
    BY <1>1 DEF Bookings, Units, IsFor
  <2>2. ASSUME NEW u \in Users \ raced, NEW x \in Calls, Claims(x, u)', NEW k \in Codes
        PROVE  held[<<u, k>>] < PerUser
    <3>1. CASE x = c
      <4>1. held[<<u, voucher.code>>] < PerUser
        BY <1>2, <2>2, <3>1 DEF ReadsVoucher, Claims, Doing
      <4>2. k = voucher.code \/ ~(held[<<u, k>>] > 0)
        BY <1>5 DEF Together, IsFor
      <4>3. held[<<u, k>>] \in Nat /\ PerUser \in Nat \ {0}
        BY LimitsAssumption DEF VoucherInv, VoucherTypes, VoucherTypeOK
      <4> QED
        BY <4>1, <4>2, <4>3
    <3>2. CASE x # c
      <4>1. Claims(x, u)
        BY <1>2, <2>2, <3>2 DEF Claims, Doing
      <4> QED
        BY <1>5, <4>1 DEF Together
    <3> QED
      BY <3>1, <3>2
  <2> QED
    BY <1>1, <1>5, <2>1, <2>2 DEF Together
<1> QED
  BY <1>1, <1>3, <1>4, <1>5 DEF VoucherInv


\* No handler begins.
NoneBegins ==
    /\ call' \in [Calls -> {Idle} \cup VoucherWork]
    /\ \A x \in Calls, op \in {"claim", "rename", "remove"} :
        Doing(x, op)' => Doing(x, op) /\ call'[x] = call[x]

VoucherRow ==
    [id: 1..MaxVouchers, exists: BOOLEAN, code: Codes, active: BOOLEAN, used: Nat, max: Limits]

\* No wallet gets a mark.
NoMarks ==
    /\ wallet' \in [Users -> {"none", "saved", "used"}]
    /\ \A u \in Users : wallet'[u] = "used" => wallet[u] = "used"

\* A step that leaves the bookings, the count and the code as they are.
LEMMA VoucherQuietStep ==
    ASSUME VoucherInv, NoneBegins, NoMarks, UNCHANGED <<held, forgotten, cutOff, raced>>,
           voucher' \in VoucherRow, voucher'.used = voucher.used, voucher'.code = voucher.code,
           voucher'.exists = voucher.exists
    PROVE  VoucherInv'
<1>1. VoucherTypes' /\ Counted'
  BY DEF NoneBegins, NoMarks, VoucherRow, VoucherInv, VoucherTypes, VoucherTypeOK, Counted, Units
<1>2. EarlyChecks'
  BY DEF NoneBegins, VoucherInv, EarlyChecks
<1>3. ASSUME Together PROVE Together'
  <2>1. Bookings' = Bookings /\ (\A k \in Codes : IsFor(k)' = IsFor(k))
    BY DEF Bookings, Units, IsFor
  <2>2. \A x \in Calls, u \in Users : Claims(x, u)' => Claims(x, u)
    BY DEF NoneBegins, Claims
  <2> QED
    BY <1>3, <2>1, <2>2 DEF Together, NoMarks
<1> QED
  BY <1>1, <1>2, <1>3 DEF VoucherInv

\* A step that changes the voucher at will: if it cuts nothing off, no use was counted.
LEMMA VoucherReplaced ==
    ASSUME VoucherInv, NoneBegins, NoMarks, UNCHANGED <<held, forgotten, raced>>,
           voucher' \in VoucherRow, cutOff' \in BOOLEAN,
           ~cutOff' => ~cutOff /\ voucher.used = 0 /\ voucher'.used = 0
    PROVE  VoucherInv'
<1>1. VoucherTypes' /\ Counted'
  BY DEF NoneBegins, NoMarks, VoucherRow, VoucherInv, VoucherTypes, VoucherTypeOK, Counted, Units
<1>2. EarlyChecks'
  BY DEF NoneBegins, VoucherInv, EarlyChecks
<1>3. ASSUME ~cutOff' PROVE Together'
  <2>1. Together /\ voucher.used = 0 /\ voucher'.used = 0
    BY <1>3 DEF VoucherInv
  <2>2. /\ \A u \in Users, k \in Codes : held[<<u, k>>] = 0
        /\ \A u \in Users : forgotten[u] = 0
    BY <2>1, UnusedIsEmpty DEF VoucherInv
  <2>3. voucher'.used = Bookings'
    <3>1. Bookings' = Bookings /\ voucher.used = Bookings
      BY <2>1 DEF Bookings, Units, Together
    <3> QED
      BY <2>1, <3>1
  <2>4. ASSUME NEW u \in Users, NEW k \in Codes
        PROVE  ~(held'[<<u, k>>] > 0) /\ held'[<<u, k>>] <= PerUser /\ held'[<<u, k>>] < PerUser
    <3>1. held'[<<u, k>>] = 0
      BY <2>2
    <3> QED
      BY <3>1, LimitsAssumption
  <2>5. \A u \in Users : wallet'[u] # "used"
    <3>1. ASSUME NEW u \in Users, NEW k \in Codes
          PROVE  ~(held[<<u, k>>] > 0) /\ ~(forgotten[u] > 0)
      <4>1. held[<<u, k>>] = 0 /\ forgotten[u] = 0
        BY <2>2
      <4> QED
        BY <4>1
    <3>2. \A u \in Users : wallet[u] # "used"
      BY <2>1, <3>1, CodesAssumption DEF Together
    <3> QED
      BY <3>2 DEF NoMarks
  <2> QED
    BY <2>1, <2>3, <2>4, <2>5 DEF Together
<1> QED
  BY <1>1, <1>2, <1>3 DEF VoucherInv

LEMMA VoucherEnds ==
    ASSUME VoucherInv, NEW c \in Calls, Finish(c)
    PROVE  NoneBegins
BY VoucherFinish DEF VoucherInv, NoneBegins

LEMMA VoucherClaimStep ==
    ASSUME VoucherInv, NEW c \in Calls, ClaimVoucherInTx(c)
    PROVE  VoucherInv'
<1> DEFINE u == call[c].u
           code == call[c].code
           rival == \E x \in Calls \ {c} : Doing(x, "claim") /\ call[x].u = u
<1>0. u \in Users /\ code \in Codes /\ Doing(c, "claim") /\ Finish(c)
  BY VoucherWorkOf DEF VoucherInv, ClaimVoucherInTx
<1>1. CASE UNCHANGED voucherVars
  BY <1>0, <1>1, VoucherEnds, VoucherQuietStep
  DEF VoucherInv, VoucherTypes, VoucherTypeOK, VoucherRow, NoMarks, voucherVars
<1>2. CASE /\ IF IsFor(code)
              THEN /\ voucher' = [voucher EXCEPT !.used = @ + 1]
                   /\ wallet' = [wallet EXCEPT ![u] = IF @ = "saved" THEN "used" ELSE @]
                   /\ UNCHANGED cutOff
              ELSE cutOff' = TRUE /\ UNCHANGED <<voucher, wallet>>
           /\ held' = [held EXCEPT ![<<u, code>>] = @ + 1]
           /\ raced' = IF rival THEN raced \cup {u} ELSE raced
           /\ UNCHANGED forgotten
  <2> HIDE DEF u, code
  <2>1. /\ call' \in [Calls -> {Idle} \cup VoucherWork]
        /\ \A x \in Calls, op \in {"claim", "rename", "remove"} :
              Doing(x, op)' => x # c /\ Doing(x, op) /\ call'[x] = call[x]
    BY <1>0, VoucherFinish DEF VoucherInv
  <2>2. held \in [Users \X Codes -> Nat] /\ <<u, code>> \in Users \X Codes
    BY <1>0 DEF VoucherInv, VoucherTypes, VoucherTypeOK
  <2>3. /\ held' \in [Users \X Codes -> Nat]
        /\ held'[<<u, code>>] = held[<<u, code>>] + 1
        /\ \A p \in (Users \X Codes) \ {<<u, code>>} : held'[p] = held[p]
        /\ IsFiniteSet(Units(held'))
        /\ Total(held') = Total(held) + 1
    <3>1. held' = OneMore(held, <<u, code>>)
      BY <1>2 DEF OneMore
    <3>2. IsFiniteSet(Units(held))
      BY DEF VoucherInv, Counted
    <3> DEFINE p == <<u, code>>
    <3>3. p \in Users \X Codes
      BY <2>2
    <3> HIDE DEF p
    <3>4. /\ IsFiniteSet(Units(OneMore(held, p)))
          /\ Total(OneMore(held, p)) = Total(held) + 1
      BY ONLY <2>2, <3>2, <3>3, OneMoreUnit
    <3>5. /\ OneMore(held, p) \in [Users \X Codes -> Nat]
          /\ OneMore(held, p)[p] = held[p] + 1
          /\ \A y \in (Users \X Codes) \ {p} : OneMore(held, p)[y] = held[y]
      BY ONLY <2>2, <3>3, OneMoreValues
    <3>6. held' = OneMore(held, p)
      BY <3>1 DEF p
    <3> QED
      BY <3>4, <3>5, <3>6 DEF p
  <2>4. Counted'
    BY <1>2, <2>3 DEF VoucherInv, Counted
  <2>5. VoucherTypes'
    <3>1. VoucherTypeOK
      BY DEF VoucherInv, VoucherTypes
    <3>2. voucher' = [voucher EXCEPT !.used = voucher.used + 1] \/ voucher' = voucher
      BY <1>2
    <3>3. voucher' \in [id: 1..MaxVouchers, exists: BOOLEAN, code: Codes, active: BOOLEAN,
                        used: Nat, max: Limits]
      BY <3>1, <3>2 DEF VoucherTypeOK
    <3>4. wallet' \in [Users -> {"none", "saved", "used"}]
      BY <1>2, <3>1 DEF VoucherTypeOK
    <3>5. cutOff' \in BOOLEAN
      BY <1>2, <3>1 DEF VoucherTypeOK
    <3>6. raced' \subseteq Users
      BY <1>0, <1>2, <3>1 DEF VoucherTypeOK
    <3> QED
      BY <1>2, <2>1, <2>3, <3>1, <3>3, <3>4, <3>5, <3>6 DEF VoucherTypes, VoucherTypeOK
  <2>6. EarlyChecks'
    BY <2>1 DEF VoucherInv, EarlyChecks
  <2>7. ASSUME ~cutOff' PROVE Together'
    <3>1. IsFor(code) /\ Together
      BY <1>2, <2>7 DEF VoucherInv
    <3>2. /\ voucher' = [voucher EXCEPT !.used = voucher.used + 1]
          /\ wallet' = [wallet EXCEPT ![u] = IF wallet[u] = "saved" THEN "used" ELSE wallet[u]]
      BY <1>2, <3>1
    <3>3. /\ voucher'.used = voucher.used + 1 /\ voucher'.exists = voucher.exists
          /\ voucher'.code = voucher.code
      BY <3>2 DEF VoucherInv, VoucherTypes, VoucherTypeOK
    <3>4. voucher'.used = Bookings'
      <4>1. Total(held) \in Nat /\ Total(forgotten) \in Nat
        BY TotalType DEF VoucherInv, Counted
      <4>2. voucher.used = Total(held) + Total(forgotten)
        BY <3>1 DEF Together, Bookings
      <4>3. Bookings' = Total(held') + Total(forgotten)
        BY <1>2 DEF Bookings
      <4> QED
        BY <2>3, <3>3, <4>1, <4>2, <4>3
    <3>5. \A w \in Users, k \in Codes : held'[<<w, k>>] > 0 => IsFor(k)'
      <4>1. \A k \in Codes : IsFor(k)' = IsFor(k)
        BY <3>3 DEF IsFor
      <4>2. ASSUME NEW w \in Users, NEW k \in Codes, held'[<<w, k>>] > 0
            PROVE  IsFor(k)
        <5>1. CASE k = code
          BY <3>1, <5>1
        <5>2. CASE k # code
          <6>1. held'[<<w, k>>] = held[<<w, k>>]
            BY <2>3, <5>2
          <6> QED
            BY <3>1, <4>2, <6>1 DEF Together
        <5> QED
          BY <5>1, <5>2
      <4> QED
        BY <4>1, <4>2
    <3>6. ASSUME NEW w \in Users \ raced', NEW k \in Codes
          PROVE  /\ held'[<<w, k>>] <= PerUser
                 /\ (\E x \in Calls : Claims(x, w)') => held'[<<w, k>>] < PerUser
      <4>0. w \in Users \ raced /\ held[<<w, k>>] \in Nat /\ PerUser \in Nat
        BY <1>2, <2>2, LimitsAssumption
      <4>1. CASE w = u /\ k = code
        <5>1. held[<<w, k>>] < PerUser
          <6>1. Claims(c, w)
            BY <1>0, <4>1 DEF Claims, u
          <6> QED
            BY <3>1, <4>0, <6>1 DEF Together
        <5>2. ~rival
          BY <1>2, <4>1
        <5>3. \A x \in Calls : ~Claims(x, w)'
          BY <2>1, <4>1, <5>2 DEF Claims
        <5> QED
          BY <2>3, <4>0, <4>1, <5>1, <5>3
      <4>2. CASE ~(w = u /\ k = code)
        <5>1. held'[<<w, k>>] = held[<<w, k>>]
          BY <2>3, <4>2
        <5>2. \A x \in Calls : Claims(x, w)' => Claims(x, w)
          BY <2>1 DEF Claims
        <5> QED
          BY <3>1, <4>0, <5>1, <5>2 DEF Together
      <4> QED
        BY <4>1, <4>2
    <3>7. ASSUME NEW w \in Users, wallet'[w] = "used"
          PROVE  forgotten'[w] > 0 \/ \E k \in Codes : held'[<<w, k>>] > 0
      <4>1. CASE w = u
        <5>1. held[<<u, code>>] \in Nat
          BY <2>2
        <5> QED
          BY <1>0, <2>3, <4>1, <5>1
      <4>2. CASE w # u
        <5>1. wallet[w] = "used"
          BY <3>2, <3>7, <4>2 DEF VoucherInv, VoucherTypes, VoucherTypeOK
        <5>2. \A k \in Codes : held'[<<w, k>>] = held[<<w, k>>]
          BY <2>3, <4>2
        <5> QED
          BY <1>2, <3>1, <5>1, <5>2 DEF Together
      <4> QED
        BY <4>1, <4>2
    <3>8. ~voucher'.exists => voucher'.used = 0
      BY <3>1, <3>3 DEF IsFor
    <3> QED
      BY <3>4, <3>5, <3>6, <3>7, <3>8 DEF Together
  <2> QED
    BY <2>4, <2>5, <2>6, <2>7 DEF VoucherInv
<1> QED
  BY <1>1, <1>2 DEF ClaimVoucherInTx

LEMMA VoucherSaveStep ==
    ASSUME VoucherInv, NEW c \in Calls, SaveWrite(c)
    PROVE  VoucherInv'
<1>1. NoneBegins /\ call[c].u \in Users
  BY VoucherEnds, VoucherWorkOf DEF SaveWrite, VoucherInv
<1>2. NoMarks
  BY <1>1 DEF SaveWrite, NoMarks, VoucherInv, VoucherTypes, VoucherTypeOK
<1> QED
  BY <1>1, <1>2, VoucherQuietStep
  DEF SaveWrite, VoucherInv, VoucherTypes, VoucherTypeOK, VoucherRow

LEMMA VoucherSameCalls ==
    ASSUME VoucherInv, call' = call
    PROVE  NoneBegins
BY DEF NoneBegins, Doing, VoucherInv, VoucherTypes

\* The admin's changes of the limit and of the state.
LEMMA VoucherSettingStep ==
    ASSUME VoucherInv, SetMaxUses \/ BulkSetActive \/ \E c \in Calls : ToggleWrite(c)
    PROVE  VoucherInv'
<1>0. voucher \in VoucherRow
  BY DEF VoucherInv, VoucherTypes, VoucherTypeOK, VoucherRow
<1>1. NoneBegins
  BY VoucherSameCalls, VoucherEnds DEF SetMaxUses, BulkSetActive, ToggleWrite
<1>2. \/ \E max \in Limits : voucher' = [voucher EXCEPT !.max = max]
      \/ \E active \in BOOLEAN : voucher' = [voucher EXCEPT !.active = active]
      \/ voucher' = voucher
  <2>1. \A c \in Calls : ToggleWrite(c) => call[c].active \in BOOLEAN
    BY VoucherWorkOf DEF VoucherInv, ToggleWrite
  <2> QED
    BY <2>1 DEF SetMaxUses, BulkSetActive, ToggleWrite
<1>3. /\ voucher' \in VoucherRow /\ voucher'.used = voucher.used /\ voucher'.code = voucher.code
      /\ voucher'.exists = voucher.exists
  BY <1>0, <1>2 DEF VoucherRow
<1>4. UNCHANGED <<wallet, held, forgotten, cutOff, raced>>
  BY DEF SetMaxUses, BulkSetActive, ToggleWrite
<1>5. NoMarks
  BY <1>4 DEF NoMarks, VoucherInv, VoucherTypes, VoucherTypeOK
<1> QED
  BY <1>1, <1>3, <1>4, <1>5, VoucherQuietStep

\* The admin's changes of the code, and the removal.
LEMMA VoucherReplacedStep ==
    ASSUME VoucherInv, AdminCreate \/ \E c \in Calls : RenameWrite(c) \/ DeleteVoucherWrite(c)
    PROVE  VoucherInv'
<1>0. /\ voucher \in VoucherRow /\ cutOff \in BOOLEAN
      /\ wallet \in [Users -> {"none", "saved", "used"}]
  BY DEF VoucherInv, VoucherTypes, VoucherTypeOK, VoucherRow
<1>1. CASE AdminCreate
  <2>1. PICK code \in Codes, max \in Limits : voucher' = NewVoucher(voucher.id + 1, code, max)
    BY <1>1 DEF AdminCreate
  <2>2. voucher' \in VoucherRow /\ voucher'.used = 0
    BY <1>0, <1>1, <2>1, LimitsAssumption DEF AdminCreate, NewVoucher, VoucherRow
  <2>3. ~cutOff => voucher.used = 0
    BY <1>1 DEF AdminCreate, VoucherInv, Together
  <2>4. NoneBegins /\ NoMarks
    BY <1>0, <1>1, VoucherSameCalls DEF AdminCreate, NoMarks
  <2> QED
    BY <1>0, <1>1, <2>2, <2>3, <2>4, VoucherReplaced DEF AdminCreate
<1>2. ASSUME NEW c \in Calls, RenameWrite(c) \/ DeleteVoucherWrite(c)
      PROVE  VoucherInv'
  <2>0. NoneBegins /\ UNCHANGED <<held, forgotten, raced>>
    BY <1>2, VoucherEnds DEF RenameWrite, DeleteVoucherWrite
  <2>1. NoMarks
    BY <1>0, <1>2 DEF RenameWrite, DeleteVoucherWrite, NoMarks
  <2>2. CASE ~IsRow(call[c].id)
    BY <1>0, <1>2, <2>0, <2>1, <2>2, VoucherQuietStep DEF RenameWrite, DeleteVoucherWrite
  <2>3. CASE IsRow(call[c].id)
    <3>1. call[c].used = 0 /\ (RenameWrite(c) => call[c].code \in Codes)
      BY <1>2, VoucherWorkOf DEF RenameWrite, DeleteVoucherWrite, VoucherInv, EarlyChecks
    <3>2. \/ voucher' = [voucher EXCEPT !.code = call[c].code] /\ call[c].code \in Codes
          \/ voucher' = [voucher EXCEPT !.exists = FALSE]
      BY <1>2, <2>3, <3>1 DEF RenameWrite, DeleteVoucherWrite
    <3>3. voucher' \in VoucherRow /\ voucher'.used = voucher.used
      BY <1>0, <3>2 DEF VoucherRow
    <3>4. cutOff' = (cutOff \/ Overtaken(c))
      BY <1>2, <2>3 DEF RenameWrite, DeleteVoucherWrite
    <3>5. ~cutOff' => ~cutOff /\ ~(voucher.used > 0)
      BY <3>1, <3>4 DEF Overtaken
    <3>6. ~(voucher.used > 0) => voucher.used = 0
      BY <1>0 DEF VoucherRow
    <3>7. cutOff' \in BOOLEAN
      BY <3>4
    <3> QED
      BY <2>0, <2>1, <3>3, <3>5, <3>6, <3>7, VoucherReplaced
  <2> QED
    BY <2>2, <2>3
<1> QED
  BY <1>1, <1>2

\* A booking ends.
LEMMA HeldOneLess ==
    ASSUME VoucherInv, NEW u \in Users, NEW code \in Codes, held[<<u, code>>] > 0,
           held' = [held EXCEPT ![<<u, code>>] = @ - 1]
    PROVE  /\ held' \in [Users \X Codes -> Nat]
           /\ held'[<<u, code>>] = held[<<u, code>>] - 1
           /\ \A p \in (Users \X Codes) \ {<<u, code>>} : held'[p] = held[p]
           /\ IsFiniteSet(Units(held'))
           /\ Total(held') = Total(held) - 1
<1> DEFINE p == <<u, code>>
<1>1. held \in [Users \X Codes -> Nat] /\ IsFiniteSet(Units(held))
  BY DEF VoucherInv, VoucherTypes, VoucherTypeOK, Counted
<1>2. p \in Users \X Codes /\ held[p] > 0
  OBVIOUS
<1>3. held' = OneLess(held, p)
  BY DEF OneLess
<1> HIDE DEF p
<1>4. /\ IsFiniteSet(Units(OneLess(held, p)))
      /\ Total(OneLess(held, p)) = Total(held) - 1
  BY ONLY <1>1, <1>2, OneUnitLess
<1>5. /\ OneLess(held, p) \in [Users \X Codes -> Nat]
      /\ OneLess(held, p)[p] = held[p] - 1
      /\ \A y \in (Users \X Codes) \ {p} : OneLess(held, p)[y] = held[y]
  BY ONLY <1>1, <1>2, OneLessValues
<1> QED
  BY <1>3, <1>4, <1>5 DEF p

\* What is left of the invariant when a booking ends, whatever becomes of its use.
LEMMA HeldOneLessKeeps ==
    ASSUME VoucherInv, NEW u \in Users, NEW code \in Codes, held[<<u, code>>] > 0,
           held' = [held EXCEPT ![<<u, code>>] = @ - 1], UNCHANGED <<call, raced>>, Together
    PROVE  /\ IsFor(code)
           /\ \A w \in Users, k \in Codes : held'[<<w, k>>] > 0 => held[<<w, k>>] > 0
           /\ \A w \in Users \ {u}, k \in Codes : held'[<<w, k>>] = held[<<w, k>>]
           /\ \A w \in Users \ raced', k \in Codes :
                /\ held'[<<w, k>>] <= PerUser
                /\ (\E c \in Calls : Claims(c, w)') => held'[<<w, k>>] < PerUser
<1>1. /\ \A w \in Users, k \in Codes :
            held'[<<w, k>>] = held[<<w, k>>] - (IF w = u /\ k = code THEN 1 ELSE 0)
      /\ \A w \in Users, k \in Codes : held[<<w, k>>] \in Nat
  <2>1. /\ held'[<<u, code>>] = held[<<u, code>>] - 1
        /\ \A p \in (Users \X Codes) \ {<<u, code>>} : held'[p] = held[p]
    BY HeldOneLess
  <2>2. \A w \in Users, k \in Codes : held[<<w, k>>] \in Nat
    BY DEF VoucherInv, VoucherTypes, VoucherTypeOK
  <2>3. ASSUME NEW w \in Users, NEW k \in Codes
        PROVE  held'[<<w, k>>] = held[<<w, k>>] - (IF w = u /\ k = code THEN 1 ELSE 0)
    <3>1. CASE w = u /\ k = code
      BY <2>1, <3>1
    <3>2. CASE ~(w = u /\ k = code)
      <4>1. held'[<<w, k>>] = held[<<w, k>>] /\ held[<<w, k>>] \in Nat
        BY <2>1, <2>2, <3>2
      <4> QED
        BY <3>2, <4>1
    <3> QED
      BY <3>1, <3>2
  <2> QED
    BY <2>2, <2>3
<1>2. IsFor(code)
  BY DEF Together
<1>3. ASSUME NEW w \in Users, NEW k \in Codes
      PROVE  /\ held'[<<w, k>>] > 0 => held[<<w, k>>] > 0
             /\ w # u => held'[<<w, k>>] = held[<<w, k>>]
             /\ held'[<<w, k>>] <= held[<<w, k>>]
             /\ held'[<<w, k>>] \in Int /\ held[<<w, k>>] \in Int
  BY <1>1
<1>4. ASSUME NEW w \in Users \ raced', NEW k \in Codes
      PROVE  /\ held'[<<w, k>>] <= PerUser
             /\ (\E c \in Calls : Claims(c, w)') => held'[<<w, k>>] < PerUser
  <2>1. /\ held[<<w, k>>] <= PerUser
        /\ (\E c \in Calls : Claims(c, w)') => held[<<w, k>>] < PerUser
    BY DEF Together, Claims, Doing
  <2> QED
    BY <1>3, <2>1, LimitsAssumption
<1> QED
  BY <1>2, <1>3, <1>4

LEMMA VoucherReleaseStep ==
    ASSUME VoucherInv, NEW u \in Users, NEW code \in Codes, ReleaseVoucherInTx(u, code)
    PROVE  VoucherInv'
<1>0. /\ held[<<u, code>>] > 0
      /\ held' = [held EXCEPT ![<<u, code>>] = @ - 1]
      /\ UNCHANGED <<call, forgotten, cutOff, raced>>
  BY DEF ReleaseVoucherInTx
<1>1. /\ held' \in [Users \X Codes -> Nat]
      /\ IsFiniteSet(Units(held'))
      /\ Total(held') = Total(held) - 1
  BY <1>0, HeldOneLess
<1>2. voucher \in VoucherRow /\ wallet \in [Users -> {"none", "saved", "used"}]
  BY DEF VoucherInv, VoucherTypes, VoucherTypeOK, VoucherRow
<1>3. voucher' \in VoucherRow /\ voucher'.code = voucher.code /\ voucher'.exists = voucher.exists
  BY <1>2 DEF ReleaseVoucherInTx, VoucherRow
<1>4. wallet' \in [Users -> {"none", "saved", "used"}]
  BY <1>2 DEF ReleaseVoucherInTx
<1>5. VoucherTypes' /\ Counted'
  BY <1>0, <1>1, <1>3, <1>4 DEF VoucherInv, VoucherTypes, VoucherTypeOK, VoucherRow, Counted
<1>6. EarlyChecks'
  BY <1>0 DEF VoucherInv, EarlyChecks, Doing
<1>7. ASSUME Together PROVE Together'
  <2>1. /\ IsFor(code)
        /\ \A w \in Users, k \in Codes : held'[<<w, k>>] > 0 => held[<<w, k>>] > 0
        /\ \A w \in Users \ {u}, k \in Codes : held'[<<w, k>>] = held[<<w, k>>]
        /\ \A w \in Users \ raced', k \in Codes :
             /\ held'[<<w, k>>] <= PerUser
             /\ (\E c \in Calls : Claims(c, w)') => held'[<<w, k>>] < PerUser
    BY <1>0, <1>7, HeldOneLessKeeps
  <2>2. voucher'.used = Bookings'
    <3>1. /\ Total(held) \in Nat /\ Total(held') \in Nat
          /\ Total(forgotten) \in Nat
      BY <1>1, TotalType DEF VoucherInv, Counted
    <3>2. voucher.used = Total(held) + Total(forgotten)
      BY <1>7 DEF Together, Bookings
    <3>3. voucher.used > 0
      BY <1>1, <3>1, <3>2
    <3>4. voucher'.used = voucher.used - 1
      BY <1>2, <2>1, <3>3 DEF ReleaseVoucherInTx, VoucherRow
    <3>5. Bookings' = Total(held') + Total(forgotten)
      BY <1>0 DEF Bookings
    <3> QED
      BY <1>1, <3>1, <3>2, <3>4, <3>5
  <2>3. \A k \in Codes : IsFor(k)' = IsFor(k)
    BY <1>3 DEF IsFor
  <2>4. voucher'.exists
    BY <1>3, <2>1 DEF IsFor
  <2>5. ASSUME NEW w \in Users, wallet'[w] = "used"
        PROVE  forgotten'[w] > 0 \/ \E k \in Codes : held'[<<w, k>>] > 0
    <3>1. w # u /\ wallet[w] = "used"
      BY <1>2, <2>1, <2>5 DEF ReleaseVoucherInTx
    <3> QED
      BY <1>0, <1>7, <2>1, <3>1 DEF Together
  <2>6. \A w \in Users, k \in Codes : held'[<<w, k>>] > 0 => IsFor(k)'
    BY <1>7, <2>1, <2>3 DEF Together
  <2> QED
    BY <2>1, <2>2, <2>4, <2>5, <2>6 DEF Together
<1> QED
  BY <1>0, <1>5, <1>6, <1>7 DEF VoucherInv

LEMMA VoucherCancelStep ==
    ASSUME VoucherInv, NEW u \in Users, NEW code \in Codes, CancelBooking(u, code)
    PROVE  VoucherInv'
<1>0. /\ held[<<u, code>>] > 0
      /\ held' = [held EXCEPT ![<<u, code>>] = @ - 1]
      /\ forgotten' = [forgotten EXCEPT ![u] = @ + 1]
      /\ UNCHANGED <<call, voucher, wallet, cutOff, raced>>
  BY DEF CancelBooking
<1>1. /\ held' \in [Users \X Codes -> Nat]
      /\ IsFiniteSet(Units(held'))
      /\ Total(held') = Total(held) - 1
  BY <1>0, HeldOneLess
<1>2. /\ forgotten' \in [Users -> Nat] /\ forgotten'[u] = forgotten[u] + 1
      /\ forgotten[u] \in Nat
      /\ \A w \in Users \ {u} : forgotten'[w] = forgotten[w]
      /\ IsFiniteSet(Units(forgotten'))
      /\ Total(forgotten') = Total(forgotten) + 1
  <2>1. forgotten \in [Users -> Nat] /\ IsFiniteSet(Units(forgotten))
    BY DEF VoucherInv, VoucherTypes, VoucherTypeOK, Counted
  <2>2. forgotten' = OneMore(forgotten, u)
    BY <1>0 DEF OneMore
  <2>3. /\ IsFiniteSet(Units(OneMore(forgotten, u)))
        /\ Total(OneMore(forgotten, u)) = Total(forgotten) + 1
    BY <2>1, OneMoreUnit
  <2>4. /\ OneMore(forgotten, u) \in [Users -> Nat]
        /\ OneMore(forgotten, u)[u] = forgotten[u] + 1
        /\ \A y \in Users \ {u} : OneMore(forgotten, u)[y] = forgotten[y]
    BY <2>1, OneMoreValues
  <2> QED
    BY <2>1, <2>2, <2>3, <2>4
<1>3. VoucherTypes' /\ Counted'
  BY <1>0, <1>1, <1>2 DEF VoucherInv, VoucherTypes, VoucherTypeOK, Counted
<1>4. EarlyChecks'
  BY <1>0 DEF VoucherInv, EarlyChecks, Doing
<1>5. ASSUME Together PROVE Together'
  <2>1. /\ \A w \in Users, k \in Codes : held'[<<w, k>>] > 0 => held[<<w, k>>] > 0
        /\ \A w \in Users \ {u}, k \in Codes : held'[<<w, k>>] = held[<<w, k>>]
        /\ \A w \in Users \ raced', k \in Codes :
             /\ held'[<<w, k>>] <= PerUser
             /\ (\E c \in Calls : Claims(c, w)') => held'[<<w, k>>] < PerUser
    BY <1>0, <1>5, HeldOneLessKeeps
  <2>2. voucher'.used = Bookings'
    <3>1. Total(held) \in Nat /\ Total(forgotten) \in Nat
      BY TotalType DEF VoucherInv, Counted
    <3>2. voucher.used = Total(held) + Total(forgotten)
      BY <1>5 DEF Together, Bookings
    <3>3. Bookings' = Total(held') + Total(forgotten')
      BY DEF Bookings
    <3> QED
      BY <1>0, <1>1, <1>2, <3>1, <3>2, <3>3
  <2>3. ASSUME NEW w \in Users, wallet'[w] = "used"
        PROVE  forgotten'[w] > 0 \/ \E k \in Codes : held'[<<w, k>>] > 0
    <3>1. CASE w = u
      BY <1>2, <3>1
    <3>2. CASE w # u
      BY <1>0, <1>2, <1>5, <2>1, <2>3, <3>2 DEF Together
    <3> QED
      BY <3>1, <3>2
  <2>4. /\ \A w \in Users, k \in Codes : held'[<<w, k>>] > 0 => IsFor(k)'
        /\ ~voucher'.exists => voucher'.used = 0
    BY <1>0, <1>5, <2>1 DEF Together, IsFor
  <2> QED
    BY <2>1, <2>2, <2>3, <2>4 DEF Together
<1> QED
  BY <1>0, <1>3, <1>4, <1>5 DEF VoucherInv

LEMMA VoucherInitially ==
    ASSUME VoucherInit, call = [c \in Calls |-> Idle]
    PROVE  VoucherInv
<1>1. (CHOOSE k \in Codes : TRUE) \in Codes /\ (CHOOSE n \in Limits : TRUE) \in Limits
  BY CodesAssumption
<1>2. VoucherTypes
  <2>1. voucher \in VoucherRow
    BY <1>1, LimitsAssumption DEF VoucherInit, NewVoucher, VoucherRow
  <2> QED
    BY <2>1 DEF VoucherInit, VoucherTypes, VoucherTypeOK, VoucherRow
<1>3. Units(held) = {} /\ Units(forgotten) = {}
  <2>1. /\ held \in [Users \X Codes -> Nat] /\ \A p \in Users \X Codes : held[p] = 0
        /\ forgotten \in [Users -> Nat] /\ \A u \in Users : forgotten[u] = 0
    BY DEF VoucherInit
  <2> QED
    BY <2>1, UnitsNone
<1>4. Counted /\ Bookings = 0
  BY <1>3, FS_EmptySet DEF Counted, Bookings, Total
<1>5. \A c \in Calls, op \in {"claim", "rename", "remove"} : ~Doing(c, op)
  BY DEF Doing, Idle
<1>6. \A u \in Users, k \in Codes : held[<<u, k>>] = 0
  BY DEF VoucherInit
<1>7. ASSUME NEW u \in Users, NEW k \in Codes
      PROVE  ~(held[<<u, k>>] > 0) /\ held[<<u, k>>] <= PerUser
  <2>1. held[<<u, k>>] = 0
    BY <1>6
  <2> QED
    BY <2>1, LimitsAssumption
<1>8. voucher.used = 0 /\ \A u \in Users : wallet[u] = "none"
  BY DEF VoucherInit, NewVoucher
<1> QED
  BY <1>2, <1>4, <1>5, <1>7, <1>8 DEF VoucherInv, EarlyChecks, Together, Claims

LEMMA VoucherStep ==
    ASSUME VoucherInv, [VoucherNext]_<<call, voucherVars>>
    PROVE  VoucherInv'
<1>1. ASSUME NEW c \in Calls,
             \/ \E u \in Users : ValidateVoucher(c, u) \/ SaveToWallet(c, u)
             \/ RenameRead(c) \/ ToggleRead(c) \/ DeleteVoucherRead(c)
      PROVE  VoucherInv'
  BY <1>1, VoucherReads, VoucherReadStep
<1>2. ASSUME NEW c \in Calls, ClaimVoucherInTx(c) \/ SaveWrite(c)
      PROVE  VoucherInv'
  BY <1>2, VoucherClaimStep, VoucherSaveStep
<1>3. ASSUME \/ AdminCreate \/ SetMaxUses \/ BulkSetActive
             \/ \E c \in Calls : ToggleWrite(c) \/ RenameWrite(c) \/ DeleteVoucherWrite(c)
      PROVE  VoucherInv'
  BY <1>3, VoucherSettingStep, VoucherReplacedStep
<1>4. ASSUME NEW u \in Users, NEW code \in Codes,
             ReleaseVoucherInTx(u, code) \/ CancelBooking(u, code)
      PROVE  VoucherInv'
  BY <1>4, VoucherReleaseStep, VoucherCancelStep
<1>5. CASE UNCHANGED <<call, voucherVars>>
  <2>1. NoneBegins /\ NoMarks
    BY <1>5, VoucherSameCalls DEF voucherVars, NoMarks, VoucherInv, VoucherTypes, VoucherTypeOK
  <2> QED
    BY <1>5, <2>1, VoucherQuietStep
    DEF voucherVars, VoucherInv, VoucherTypes, VoucherTypeOK, VoucherRow
<1> QED
  BY <1>1, <1>2, <1>3, <1>4, <1>5 DEF VoucherNext

-----------------------------------------------------------------------------
(* The desks together.                                                     *)

DeskInv ==
    /\ desk \in Desks
    /\ IF desk = "drafts" THEN DraftInv ELSE DraftsBookOnce
    /\ IF desk = "vouchers" THEN VoucherInv
       ELSE UsesAccountedFor /\ PerUserLimitKept /\ UsedMarkIsBacked
    /\ IF desk = "reviews" THEN ReviewInv /\ OneReviewInv
       ELSE rating = Average /\ OneReviewPerGuest
    /\ desk = "support" => SupportInv
    /\ IF desk = "accounts" THEN SessionInv
       ELSE sessions = {} /\ OtpSetsOnePassword

LEMMA DeskInitially ==
    ASSUME Init
    PROVE  DeskInv
<1>1. DraftInv /\ SupportInv
  BY DraftsInitially, SupportInitially DEF Init
<1>2. ReviewInv /\ OneReviewInv /\ OneReviewPerGuest
  BY ReviewInitially, OneReviewInitially, OneReviewCount DEF Init
<1>3. rating = Average
  <2>1. \A x \in Calls : call[x].op = "idle"
    BY DEF Init, Idle
  <2> QED
    BY <1>2, <2>1 DEF Init, ReviewInit, ReviewInv, RatingInv, AnyPending, Pending, Saving, Doing
<1>4. SessionInv /\ sessions = {} /\ OtpSetsOnePassword
  <2>1. SessionInv /\ sessions = {}
    BY SessionInitially DEF Init, SessionInit
  <2>2. \A o \in 1..MaxOtps : spent[o] <= 1
    BY DEF Init, SessionInit
  <2> QED
    BY <2>1, <2>2 DEF OtpSetsOnePassword
<1>5. VoucherInv /\ UsesAccountedFor /\ PerUserLimitKept /\ UsedMarkIsBacked
  BY VoucherInitially, VoucherPromises DEF Init
<1> QED
  BY <1>1, <1>2, <1>3, <1>4, <1>5 DEF Init, DeskInv, DraftInv

\* A desk that is not followed stands still.
LEMMA DeskFrames ==
    ASSUME [Next]_vars, desk \in Desks
    PROVE  /\ desk' = desk
           /\ IF desk = "drafts" THEN [DraftNext]_<<call, draftVars>> ELSE UNCHANGED draftVars
           /\ IF desk = "vouchers" THEN [VoucherNext]_<<call, voucherVars>> ELSE UNCHANGED voucherVars
           /\ IF desk = "reviews" THEN [ReviewNext]_<<call, reviewVars>> ELSE UNCHANGED reviewVars
           /\ IF desk = "support" THEN [SupportNext]_<<call, ticket>> ELSE UNCHANGED ticket
           /\ IF desk = "accounts" THEN [SessionNext]_<<call, sessionVars>> ELSE UNCHANGED sessionVars
<1>1. CASE DraftsDesk
  BY <1>1 DEF DraftsDesk
<1>2. CASE VouchersDesk
  BY <1>2 DEF VouchersDesk
<1>3. CASE ReviewsDesk
  BY <1>3 DEF ReviewsDesk
<1>4. CASE SupportDesk
  BY <1>4 DEF SupportDesk
<1>5. CASE AccountsDesk
  BY <1>5 DEF AccountsDesk
<1>6. CASE UNCHANGED vars
  BY <1>6 DEF vars
<1> QED
  BY <1>1, <1>2, <1>3, <1>4, <1>5, <1>6 DEF Next

LEMMA DeskStep ==
    ASSUME DeskInv, [Next]_vars
    PROVE  DeskInv' /\ EarlyReaderOnly /\ OwnerKept
<1>0. desk' = desk /\ desk \in Desks
  BY DeskFrames DEF DeskInv
<1>1. (IF desk = "drafts" THEN DraftInv' ELSE DraftsBookOnce') /\ EarlyReaderOnly
  <2>1. CASE desk = "drafts"
    BY <1>0, <2>1, DeskFrames, DraftStep DEF DeskInv
  <2>2. CASE desk # "drafts"
    <3>1. draft' = draft /\ converted' = converted
      BY <1>0, <2>2, DeskFrames DEF draftVars
    <3> QED
      BY <2>2, <3>1 DEF DeskInv, DraftsBookOnce, EarlyReaderOnly
  <2> QED
    BY <2>1, <2>2
<1>2. IF desk = "reviews" THEN ReviewInv' /\ OneReviewInv'
      ELSE rating' = Average' /\ OneReviewPerGuest'
  <2>1. CASE desk = "reviews"
    BY <1>0, <2>1, DeskFrames, ReviewStep, OneReviewStep DEF DeskInv
  <2>2. CASE desk # "reviews"
    <3>1. UNCHANGED <<reviews, rating, twice>>
      BY <1>0, <2>2, DeskFrames DEF reviewVars
    <3> QED
      BY <2>2, <3>1 DEF DeskInv, Average, OneReviewPerGuest, Written, Issued
  <2> QED
    BY <2>1, <2>2
<1>3. (desk = "support" => SupportInv') /\ OwnerKept
  <2>1. CASE desk = "support"
    BY <1>0, <2>1, DeskFrames, SupportStep DEF DeskInv
  <2>2. CASE desk # "support"
    BY <1>0, <2>2, DeskFrames DEF OwnerKept
  <2> QED
    BY <2>1, <2>2
<1>4. IF desk = "accounts" THEN SessionInv' ELSE sessions' = {} /\ OtpSetsOnePassword'
  <2>1. CASE desk = "accounts"
    BY <1>0, <2>1, DeskFrames, SessionStep DEF DeskInv
  <2>2. CASE desk # "accounts"
    <3>1. UNCHANGED <<sessions, spent, otpTwice>>
      BY <1>0, <2>2, DeskFrames DEF sessionVars
    <3> QED
      BY <2>2, <3>1 DEF DeskInv, OtpSetsOnePassword
  <2> QED
    BY <2>1, <2>2
<1>5. IF desk = "vouchers" THEN VoucherInv'
      ELSE UsesAccountedFor' /\ PerUserLimitKept' /\ UsedMarkIsBacked'
  <2>1. CASE desk = "vouchers"
    BY <1>0, <2>1, DeskFrames, VoucherStep DEF DeskInv
  <2>2. CASE desk # "vouchers"
    <3>1. UNCHANGED <<voucher, wallet, held, forgotten, cutOff, raced>>
      BY <1>0, <2>2, DeskFrames DEF voucherVars
    <3> QED
      BY <2>2, <3>1
      DEF DeskInv, UsesAccountedFor, PerUserLimitKept, UsedMarkIsBacked, Bookings, LiveUses, Units
  <2> QED
    BY <2>1, <2>2
<1> QED
  BY <1>0, <1>1, <1>2, <1>3, <1>4, <1>5 DEF DeskInv

LEMMA DeskInvariant == Spec => []DeskInv
<1>1. Init => DeskInv
  BY DeskInitially
<1>2. DeskInv /\ [Next]_vars => DeskInv'
  BY DeskStep
<1> QED
  BY <1>1, <1>2, PTL DEF Spec

\* A draft becomes at most one booking (approveAssistedDraft).
THEOREM BackOfficeBooksDraftsOnce == Spec => []DraftsBookOnce
<1>1. DeskInv => DraftsBookOnce
  BY DEF DeskInv, DraftInv
<1> QED
  BY <1>1, DeskInvariant, PTL

\* A draft that has become a booking is changed only by a handler that read it before
\* (updateAssistedDraft, submitAssistedDraft, requestRevisionAssistedDraft,
\* rejectAssistedDraft, deleteAssistedDraft).
THEOREM BackOfficeKeepsBookedDrafts == Spec => BookedDraftChangesByEarlyReaderOnly
<1>1. DeskInv /\ [Next]_vars => [EarlyReaderOnly]_<<call, draftVars>>
  BY DeskStep
<1> QED
  BY <1>1, DeskInvariant, PTL DEF Spec, BookedDraftChangesByEarlyReaderOnly, EarlyReaderOnly

\* The voucher knows its bookings unless a rename or a removal cut some off
\* (claimVoucherInTx, releaseVoucherInTx, adminUpdate, adminDelete).
THEOREM BackOfficeCountsUses == Spec => []UsesAccountedFor
<1>1. DeskInv => UsesAccountedFor
  BY VoucherPromises DEF DeskInv
<1> QED
  BY <1>1, DeskInvariant, PTL

\* A customer whose bookings did not overlap is within usageLimitPerUser
\* (validateVoucher, claimVoucherInTx).
THEOREM BackOfficeKeepsUserLimits == Spec => []PerUserLimitKept
<1>1. DeskInv => PerUserLimitKept
  BY VoucherPromises DEF DeskInv
<1> QED
  BY <1>1, DeskInvariant, PTL

\* A voucher marked as used in a wallet has a booking behind it (releaseVoucherInTx).
THEOREM BackOfficeBacksUsedMarks == Spec => []UsedMarkIsBacked
<1>1. DeskInv => UsedMarkIsBacked
  BY VoucherPromises DEF DeskInv
<1> QED
  BY <1>1, DeskInvariant, PTL

\* The average a tour shows is that of its reviews (_recalcTourRating).
THEOREM BackOfficeRatesTruly == Spec => []RatingIsTheAverage
<1>1. DeskInv => RatingIsTheAverage
  BY DEF DeskInv, ReviewInv, RatingInv, RatingIsTheAverage, AnyPending, Pending, Saving, Doing
<1> QED
  BY <1>1, DeskInvariant, PTL

\* A guest has one review of a tour (createReview).
THEOREM BackOfficeKeepsOneReview == Spec => []OneReviewPerGuest
<1>1. DeskInv => OneReviewPerGuest
  BY OneReviewCount DEF DeskInv
<1> QED
  BY <1>1, DeskInvariant, PTL

\* A reply keeps the owner it read (replyTicket).
THEOREM BackOfficeKeepsOwners == Spec => ReplyKeepsTheOwner
<1>1. DeskInv /\ [Next]_vars => [OwnerKept]_<<call, ticket>>
  BY DeskStep
<1> QED
  BY <1>1, DeskInvariant, PTL DEF Spec, ReplyKeepsTheOwner, OwnerKept

\* A session that is accepted belongs to the account as it is now
\* (JwtStrategy.validate, refreshToken).
THEOREM BackOfficeAcceptsCurrentSessions == Spec => []AcceptedSessionsAreCurrent
<1>1. DeskInv => AcceptedSessionsAreCurrent
  BY DEF DeskInv, SessionInv, StampsFit, StampFits, Fits, AcceptedSessionsAreCurrent, Accepted
<1> QED
  BY <1>1, DeskInvariant, PTL

\* A one-time password sets one password (resetPassword).
THEOREM BackOfficeSpendsOtpsOnce == Spec => []OtpSetsOnePassword
<1>1. SessionInv => OtpSetsOnePassword
  BY DEF SessionInv, OtpInv, SpentIsGone, SessionTypes, SessionTypeOK, OtpSetsOnePassword
<1>2. DeskInv => OtpSetsOnePassword
  BY <1>1 DEF DeskInv
<1> QED
  BY <1>2, DeskInvariant, PTL

-----------------------------------------------------------------------------
(* The seats of the departure.                                             *)

\* The seats a draft's booking holds.
Taken == [d \in Drafts |-> IF Booked(d) /\ converted[d][1].live THEN converted[d][1].seats ELSE 0]

\* Every seat is free, sold by others, or held by the booking of a draft.
SeatInv ==
    /\ departure \in [open: BOOLEAN, free: Nat, sold: Nat]
    /\ IsFiniteSet(Units(Taken))
    /\ departure.free + departure.sold + Total(Taken) = Capacity

LEMMA TakenType ==
    ASSUME DraftInv
    PROVE  /\ Taken \in [Drafts -> Nat]
           /\ \A d \in Drafts : Booked(d) => converted[d][1] \in [seats: Parties, live: BOOLEAN]
<1>1. ASSUME NEW d \in Drafts, Booked(d)
      PROVE  converted[d][1] \in [seats: Parties, live: BOOLEAN]
  <2> DEFINE Rows == [seats: Parties, live: BOOLEAN]
  <2>1. converted[d] \in Seq(Rows) /\ converted[d] # <<>>
    BY <1>1 DEF DraftInv, DraftTypes, Booked
  <2> HIDE DEF Rows
  <2>2. 1 \in 1..Len(converted[d])
    BY <2>1
  <2>3. converted[d][1] \in Rows
    BY <2>1, <2>2
  <2> QED
    BY <2>3 DEF Rows
<1>2. ASSUME NEW d \in Drafts
      PROVE  (IF Booked(d) /\ converted[d][1].live THEN converted[d][1].seats ELSE 0) \in Nat
  BY <1>1, PartiesAssumption
<1> QED
  BY <1>1, <1>2 DEF Taken

LEMMA SeatsStay ==
    ASSUME SeatInv, converted' = converted, NEW free \in Nat, NEW sold \in Nat,
           departure' \in [open: BOOLEAN, free: {free}, sold: {sold}],
           free + sold = departure.free + departure.sold
    PROVE  SeatInv'
<1>1. Taken' = Taken
  BY DEF Taken, Booked
<1>2. departure' \in [open: BOOLEAN, free: Nat, sold: Nat] /\ departure'.free = free
      /\ departure'.sold = sold
  OBVIOUS
<1>3. Total(Taken) \in Nat /\ departure.free \in Nat /\ departure.sold \in Nat
  BY TotalType DEF SeatInv
<1>4. departure.free + departure.sold + Total(Taken) = Capacity
  BY DEF SeatInv
<1>5. departure'.free + departure'.sold + Total(Taken) = Capacity
  BY <1>2, <1>3, <1>4
<1> QED
  BY <1>1, <1>2, <1>5 DEF SeatInv

LEMMA ApproveSeats ==
    ASSUME DraftInv, SeatInv, NEW c \in Calls, ApproveWrite(c)
    PROVE  SeatInv'
<1>1. CASE UNCHANGED <<converted, departure>>
  BY <1>1 DEF SeatInv, Taken, Booked
<1>2. CASE Quoted(call[c].party) /\ ~Booked(call[c].d) /\ ApprovedBy(c)
  <2> DEFINE e == call[c].d
             n == call[c].party
  <2>1. e \in Drafts /\ n \in Nat
    <3>1. call[c] \in {Idle} \cup DraftWork /\ call[c].op = "approve"
      BY DEF ApproveWrite, Doing, DraftInv, DraftTypes
    <3>2. call[c] \in DraftWork
      BY <3>1 DEF Idle
    <3>3. call[c].d \in Drafts /\ call[c].party \in Parties
      BY <3>2 DEF DraftWork
    <3> QED
      BY <3>3, PartiesAssumption
  <2>2. n <= departure.free /\ converted[e] = <<>>
    BY <1>2 DEF Quoted, Booked
  <2>3. /\ converted' = [converted EXCEPT ![e] = <<[seats |-> n, live |-> TRUE]>>]
        /\ departure' = [departure EXCEPT !.free = departure.free - n]
    BY <1>2, <2>2 DEF ApprovedBy
  <2> HIDE DEF e, n
  <2>4. /\ converted'[e] = <<[seats |-> n, live |-> TRUE]>>
        /\ \A d \in Drafts \ {e} : converted'[d] = converted[d]
    BY <2>1, <2>3 DEF DraftInv, DraftTypes
  <2>5. /\ departure'.free = departure.free - n /\ departure'.sold = departure.sold
        /\ departure' \in [open: BOOLEAN, free: Nat, sold: Nat]
    <3>1. departure.free - n \in Nat
      BY <2>1, <2>2 DEF SeatInv
    <3> QED
      BY <2>3, <3>1 DEF SeatInv
  <2>6. Taken' \in [Drafts -> Nat] /\ Taken'[e] = n /\ Taken[e] = 0
        /\ \A d \in Drafts \ {e} : Taken'[d] = Taken[d]
    <3>1. Taken[e] = 0
      BY <2>1, <2>2 DEF Taken, Booked
    <3>2. Taken' = [d \in Drafts |-> IF Booked(d)' /\ converted'[d][1].live
                                     THEN converted'[d][1].seats ELSE 0]
      BY DEF Taken
    <3>3. Taken'[e] = n
      <4>1. converted'[e] # <<>> /\ converted'[e][1] = [seats |-> n, live |-> TRUE]
        BY <2>4
      <4> QED
        BY <2>1, <3>2, <4>1 DEF Booked
    <3>4. \A d \in Drafts \ {e} : Taken'[d] = Taken[d]
      BY <2>4, <3>2 DEF Taken, Booked
    <3>5. \A d \in Drafts : Taken[d] \in Nat
      BY TakenType
    <3>6. \A d \in Drafts : Taken'[d] \in Nat
      BY <2>1, <3>3, <3>4, <3>5
    <3> QED
      BY <3>1, <3>2, <3>3, <3>4, <3>6
  <2>7. IsFiniteSet(Units(Taken')) /\ Total(Taken') = Total(Taken) + n /\ Total(Taken) \in Nat
    <3>1. Taken \in [Drafts -> Nat] /\ IsFiniteSet(Units(Taken))
      BY TakenType DEF SeatInv
    <3>2. IsFiniteSet(Units(Taken')) /\ Total(Taken') = Total(Taken) + Taken'[e]
      BY <2>1, <2>6, <3>1, TotalAdded
    <3> QED
      BY <2>6, <3>1, <3>2, TotalType
  <2>8. departure'.free + departure'.sold + Total(Taken') = Capacity
    <3>1. departure.free + departure.sold + Total(Taken) = Capacity
          /\ departure.free \in Nat /\ departure.sold \in Nat
      BY DEF SeatInv
    <3> QED
      BY <2>1, <2>5, <2>7, <3>1
  <2> QED
    BY <2>5, <2>7, <2>8 DEF SeatInv
<1> QED
  BY <1>1, <1>2 DEF ApproveWrite, draftVars

LEMMA EndBookingSeats ==
    ASSUME DraftInv, SeatInv, NEW e \in Drafts, EndBooking(e)
    PROVE  SeatInv'
<1>1. PICK i \in DOMAIN converted[e] :
        /\ converted[e][i].live
        /\ converted' = [converted EXCEPT ![e][i].live = FALSE]
        /\ departure' = [departure EXCEPT !.free = @ + converted[e][i].seats]
  BY DEF EndBooking
<1>2. i = 1 /\ Booked(e)
  <2>1. converted[e] \in Seq([seats: Parties, live: BOOLEAN]) /\ Len(converted[e]) <= 1
    BY DEF DraftInv, DraftTypes, DraftsBookOnce
  <2>2. i \in 1..Len(converted[e]) /\ Len(converted[e]) \in Nat
    BY <1>1, <2>1
  <2>3. i = 1 /\ Len(converted[e]) = 1
    <3> DEFINE n == Len(converted[e])
    <3>1. n \in Nat /\ n <= 1 /\ i \in 1..n
      BY <2>1, <2>2
    <3> HIDE DEF n
    <3>2. i = 1 /\ n = 1
      BY <3>1
    <3> QED
      BY <3>2 DEF n
  <2>4. converted[e] # <<>>
    <3>1. Len(<<>>) = 0
      OBVIOUS
    <3> QED
      BY <2>3, <3>1
  <2> QED
    BY <2>3, <2>4 DEF Booked
<1> DEFINE n == converted[e][1].seats
<1>3. n \in Nat /\ converted[e][1].live /\ converted[e][1] \in [seats: Parties, live: BOOLEAN]
  BY <1>1, <1>2, TakenType, PartiesAssumption
<1>4. departure' = [departure EXCEPT !.free = departure.free + n]
  BY <1>1, <1>2
<1>5. /\ departure'.free = departure.free + n /\ departure'.sold = departure.sold
      /\ departure' \in [open: BOOLEAN, free: Nat, sold: Nat]
  <2> HIDE DEF n
  <2>1. departure.free + n \in Nat
    BY <1>3 DEF SeatInv
  <2> QED
    BY <1>4, <2>1 DEF SeatInv
<1>6. ~converted'[e][1].live /\ \A d \in Drafts \ {e} : converted'[d] = converted[d]
  <2>1. converted \in [Drafts -> Seq([seats: Parties, live: BOOLEAN])]
    BY DEF DraftInv, DraftTypes
  <2>2. converted' = [converted EXCEPT ![e] = [converted[e] EXCEPT ![1] = [converted[e][1] EXCEPT !.live = FALSE]]]
    BY <1>1, <1>2
  <2>3. converted'[e] = [converted[e] EXCEPT ![1] = [converted[e][1] EXCEPT !.live = FALSE]]
    BY <2>1, <2>2
  <2>4. 1 \in DOMAIN converted[e]
    BY <1>1, <1>2
  <2>5. converted'[e][1] = [converted[e][1] EXCEPT !.live = FALSE]
    BY <2>3, <2>4
  <2>6. ~converted'[e][1].live
    BY <1>3, <2>5
  <2> QED
    BY <2>1, <2>2, <2>6
<1> HIDE DEF n
<1>7. Taken' \in [Drafts -> Nat] /\ Taken'[e] = 0 /\ Taken[e] = n
      /\ \A d \in Drafts \ {e} : Taken[d] = Taken'[d]
  <2>1. Taken[e] = n
    BY <1>2, <1>3 DEF Taken, n
  <2>2. Taken' = [d \in Drafts |-> IF Booked(d)' /\ converted'[d][1].live
                                   THEN converted'[d][1].seats ELSE 0]
    BY DEF Taken
  <2>3. Taken'[e] = 0
    BY <1>6, <2>2
  <2>4. \A d \in Drafts \ {e} : Taken[d] = Taken'[d]
    BY <1>6, <2>2 DEF Taken, Booked
  <2>5. \A d \in Drafts : Taken[d] \in Nat
    BY TakenType
  <2>6. \A d \in Drafts : Taken'[d] \in Nat
    BY <2>3, <2>4, <2>5
  <2> QED
    BY <2>1, <2>2, <2>3, <2>4, <2>6
<1>8. IsFiniteSet(Units(Taken')) /\ Total(Taken) = Total(Taken') + n /\ Total(Taken') \in Nat
  <2>1. Taken \in [Drafts -> Nat] /\ IsFiniteSet(Units(Taken))
    BY TakenType DEF SeatInv
  <2>2. IsFiniteSet(Units(Taken')) /\ Total(Taken) = Total(Taken') + Taken[e]
    BY <1>7, <2>1, TotalAdded
  <2> QED
    BY <1>7, <2>2, TotalType
<1>9. departure'.free + departure'.sold + Total(Taken') = Capacity
  <2>1. departure.free + departure.sold + Total(Taken) = Capacity
        /\ departure.free \in Nat /\ departure.sold \in Nat
    BY DEF SeatInv
  <2> QED
    BY <1>3, <1>5, <1>8, <2>1
<1> QED
  BY <1>5, <1>8, <1>9 DEF SeatInv

LEMMA DraftSeatsStep ==
    ASSUME DraftInv, SeatInv, [DraftNext]_<<call, draftVars>>
    PROVE  SeatInv'
<1>0. /\ departure.open \in BOOLEAN /\ departure.free \in Nat /\ departure.sold \in Nat
      /\ departure = [open |-> departure.open, free |-> departure.free, sold |-> departure.sold]
  BY DEF SeatInv
<1>1. ASSUME UNCHANGED <<converted, departure>>
      PROVE  SeatInv'
  BY <1>1 DEF SeatInv, Taken, Booked
<1>2. ASSUME NEW c \in Calls, NEW d \in Drafts,
             \/ UpdateRead(c, d) \/ DeleteRead(c, d) \/ SubmitRead(c, d)
             \/ ReviewRead(c, d) \/ ApproveRead(c, d) \/ CreateDraft(d)
             \/ UpdateWrite(c) \/ StatusWrite(c)
      PROVE  UNCHANGED <<converted, departure>>
  BY <1>2 DEF UpdateRead, DeleteRead, SubmitRead, ReviewRead, ApproveRead, CreateDraft,
              UpdateWrite, StatusWrite, draftVars
<1>3. CASE OthersBook
  <2>1. /\ departure' = [open |-> departure.open, free |-> departure.free - 1,
                         sold |-> departure.sold + 1]
        /\ converted' = converted /\ 1 <= departure.free
    BY <1>0, <1>3 DEF OthersBook, Quoted
  <2>2. /\ departure.free - 1 \in Nat /\ departure.sold + 1 \in Nat
        /\ (departure.free - 1) + (departure.sold + 1) = departure.free + departure.sold
    BY <1>0, <2>1
  <2> QED
    BY <1>0, <2>1, <2>2, SeatsStay
<1>4. CASE OthersCancel
  <2>1. /\ departure' = [open |-> departure.open, free |-> departure.free + 1,
                         sold |-> departure.sold - 1]
        /\ converted' = converted /\ departure.sold > 0
    BY <1>0, <1>4 DEF OthersCancel
  <2>2. /\ departure.free + 1 \in Nat /\ departure.sold - 1 \in Nat
        /\ (departure.free + 1) + (departure.sold - 1) = departure.free + departure.sold
    BY <1>0, <2>1
  <2> QED
    BY <1>0, <2>1, <2>2, SeatsStay
<1>5. CASE SwitchDeparture
  <2>1. /\ departure' = [open |-> ~departure.open, free |-> departure.free, sold |-> departure.sold]
        /\ converted' = converted
    BY <1>0, <1>5 DEF SwitchDeparture
  <2> QED
    BY <1>0, <2>1, SeatsStay
<1>6. CASE UNCHANGED <<call, draftVars>>
  BY <1>1, <1>6 DEF draftVars
<1>7. ASSUME NEW d \in Drafts, CreateDraft(d) \/ EndBooking(d)
      PROVE  SeatInv'
  BY <1>1, <1>7, EndBookingSeats DEF CreateDraft
<1>8. ASSUME NEW c \in Calls, UpdateWrite(c) \/ StatusWrite(c) \/ ApproveWrite(c)
      PROVE  SeatInv'
  BY <1>1, <1>8, ApproveSeats DEF UpdateWrite, StatusWrite
<1> QED
  BY <1>1, <1>2, <1>3, <1>4, <1>5, <1>6, <1>7, <1>8 DEF DraftNext

LEMMA SeatsInitially ==
    ASSUME DraftInit
    PROVE  SeatInv
<1>1. Taken \in [Drafts -> Nat] /\ \A d \in Drafts : Taken[d] = 0
  BY DEF DraftInit, Taken, Booked
<1>2. Units(Taken) = {}
  BY <1>1, UnitsNone
<1>3. IsFiniteSet(Units(Taken)) /\ Total(Taken) = 0
  BY <1>2, FS_EmptySet DEF Total
<1>4. departure = [open |-> TRUE, free |-> Capacity, sold |-> 0]
  BY DEF DraftInit
<1> QED
  BY <1>3, <1>4, PartiesAssumption DEF SeatInv

LEMMA SeatsType ==
    ASSUME DraftInv, SeatInv
    PROVE  DraftTypeOK
<1>1. Total(Taken) \in Nat /\ departure.free \in Nat /\ departure.sold \in Nat
  BY TotalType DEF SeatInv
<1>2. departure.free + departure.sold + Total(Taken) = Capacity /\ Capacity \in Nat
  BY PartiesAssumption DEF SeatInv
<1>3. departure.free \in 0..Capacity /\ departure.sold \in 0..Capacity
  BY <1>1, <1>2
<1>4. departure \in [open: BOOLEAN, free: 0..Capacity, sold: 0..Capacity]
  BY <1>3 DEF SeatInv
<1> QED
  BY <1>4 DEF DraftInv, DraftTypes, DraftRow, DraftTypeOK

-----------------------------------------------------------------------------
(* The average is a rating.                                                *)

LEMMA RatingBound ==
    ASSUME NEW n \in Nat, NEW s \in Nat, n > 0, s <= 5 * n
    PROVE  (20 * s + n) \div (2 * n) \in 0..50
<1> DEFINE m == 20 * s + n
           k == 2 * n
           q == m \div k
<1>1. m \in Nat /\ k \in Nat /\ k > 0 /\ m < 51 * k
  OBVIOUS
<1>2. q \in Int /\ k * q <= m /\ m < k * (q + 1)
  <2> HIDE DEF m, k
  <2> QED
    BY <1>1
<1> HIDE DEF q, m, k
<1>3. q >= 0
  <2> SUFFICES ASSUME q + 1 <= 0 PROVE FALSE
    BY <1>2
  <2>1. PICK r \in Nat : q + 1 = -r
    <3>1. -(q + 1) \in Nat /\ q + 1 = -(-(q + 1))
      BY <1>2
    <3> QED
      BY <3>1
  <2>2. k * r \in Nat
    BY <1>1
  <2>3. k * (q + 1) = -(k * r)
    BY <1>1, <2>1
  <2> QED
    BY <1>1, <1>2, <2>2, <2>3
<1>4. q <= 50
  <2> SUFFICES ASSUME q >= 51 PROVE FALSE
    BY <1>2
  <2>1. PICK r \in Nat : q = 51 + r
    <3>1. q - 51 \in Nat /\ q = 51 + (q - 51)
      BY <1>2
    <3> QED
      BY <3>1
  <2>2. k * r \in Nat
    BY <1>1
  <2>3. k * q = 51 * k + k * r
    BY <1>1, <2>1
  <2> QED
    BY <1>1, <1>2, <2>2, <2>3
<1> QED
  BY <1>2, <1>3, <1>4 DEF q, m, k

LEMMA AverageBound ==
    ASSUME ReviewTypeOK
    PROVE  Average \in 0..50
<1> DEFINE seen == {i \in Ids : reviews[i] \notin {NoReview, Deleted} /\ ~reviews[i].hidden}
           n == Cardinality(seen)
           stars == [i \in seen |-> reviews[i].stars]
           sum == Total(stars)
<1>1. IsFiniteSet(seen) /\ n \in Nat
  <2>1. IsFiniteSet(Ids) /\ seen \subseteq Ids
    BY FS_Interval, StarsAssumption DEF Ids
  <2> QED
    BY <2>1, FS_Subset, FS_CardinalityType
<1>2. \A i \in seen : stars[i] \in 1..5
  BY StarsAssumption DEF ReviewTypeOK
<1>3. DOMAIN stars = seen
  OBVIOUS
<1>4. sum \in Nat /\ sum <= 5 * n
  <2> HIDE DEF seen, stars
  <2>1. Units(stars) \subseteq seen \X (1..5)
    <3> SUFFICES ASSUME NEW x \in seen, NEW y \in 1..stars[x]
                 PROVE  y \in 1..5
      BY <1>3 DEF Units
    <3> QED
      BY <1>2
  <2>2. IsFiniteSet(1..5) /\ Cardinality(1..5) = 5
    <3>1. 1 \in Int /\ 5 \in Int
      OBVIOUS
    <3>2. IsFiniteSet(1..5) /\ Cardinality(1..5) = IF 1 > 5 THEN 0 ELSE 5 - 1 + 1
      BY ONLY <3>1, FS_Interval
    <3> QED
      BY <3>2
  <2>3. IsFiniteSet(seen \X (1..5)) /\ Cardinality(seen \X (1..5)) = n * 5
    BY <1>1, <2>2, FS_Product
  <2>4. IsFiniteSet(Units(stars)) /\ sum <= n * 5
    BY <2>1, <2>3, FS_Subset DEF Total
  <2> QED
    BY <1>1, <2>4, FS_CardinalityType DEF Total
<1>5. Average = IF n = 0 THEN 0 ELSE (20 * sum + n) \div (2 * n)
  BY DEF Average, AverageOf
<1> HIDE DEF n, sum, seen, stars
<1> QED
  BY <1>1, <1>4, <1>5, RatingBound

ReviewRows == [guest: Guests, stars: Stars, hidden: BOOLEAN] \cup {NoReview, Deleted}

ReviewCalls ==
    /\ call \in [Calls -> {Idle} \cup ReviewWork]
    /\ \A x \in Calls : Saving(x) => call[x].average \in 0..50

ReviewTypes == ReviewTypeOK /\ ReviewCalls

LEMMA ReviewWorkOf ==
    ASSUME ReviewTypes, NEW x \in Calls
    PROVE  /\ Doing(x, "write") => call[x].guest \in Guests /\ call[x].stars \in Stars
           /\ Doing(x, "hide") => call[x].id \in Ids /\ call[x].hidden \in BOOLEAN
           /\ Saving(x) => call[x].average \in Nat /\ call[x].alone \in BOOLEAN
BY DEF ReviewTypes, ReviewCalls, ReviewWork, Idle, Doing, Saving

\* Handler c goes on to other work, and no average is due to be stored by it.
LEMMA ReviewMoves ==
    ASSUME ReviewTypes, NEW c \in Calls, NEW work \in {Idle} \cup ReviewWork,
           call' = [call EXCEPT ![c] = work], work.op # "save"
    PROVE  ReviewCalls'
BY DEF ReviewTypes, ReviewCalls, Saving, Doing

LEMMA ReviewStarts ==
    ASSUME ReviewTypes, NEW c \in Calls, NEW work \in ReviewWork, Start(c, work), work.op # "save"
    PROVE  ReviewCalls'
BY ReviewMoves DEF Start

LEMMA ShownRow ==
    ASSUME ReviewTypes, NEW i \in Written, NEW hidden \in BOOLEAN
    PROVE  Shown(i, hidden) \in ReviewRows
<1>1. reviews[i] \in [guest: Guests, stars: Stars, hidden: BOOLEAN]
  BY DEF ReviewTypes, ReviewTypeOK, Written, Issued
<1> QED
  BY <1>1 DEF Shown, ReviewRows

LEMMA ErasedRows ==
    ASSUME ReviewTypes, NEW ids, Erase(ids)
    PROVE  reviews' \in [Ids -> ReviewRows]
BY DEF ReviewTypes, ReviewTypeOK, Erase, ReviewRows

LEMMA ReviewReadTypes ==
    ASSUME ReviewTypes, NEW c \in Calls,
           \/ \E g \in Guests : CreateReviewRead(c, g)
           \/ \E i \in Ids : ToggleVisibilityRead(c, i) \/ DeleteReviewRead(c, i)
           \/ \E ids \in SUBSET Issued : BulkDeleteRead(c, ids)
           \/ BulkFind(c)
    PROVE  ReviewTypes'
<1>1. ReviewCalls'
  <2>1. ASSUME NEW g \in Guests, CreateReviewRead(c, g)
        PROVE  ReviewCalls'
    <3>1. PICK n \in Stars : Start(c, [op |-> "write", guest |-> g, stars |-> n])
      BY <2>1 DEF CreateReviewRead
    <3>2. [op |-> "write", guest |-> g, stars |-> n] \in ReviewWork
      BY DEF ReviewWork
    <3> QED
      BY <3>1, <3>2, ReviewStarts
  <2>2. ASSUME NEW i \in Ids, ToggleVisibilityRead(c, i)
        PROVE  ReviewCalls'
    <3>1. [op |-> "hide", id |-> i, hidden |-> ~reviews[i].hidden] \in ReviewWork
      BY DEF ReviewWork
    <3> QED
      BY <2>2, <3>1, ReviewStarts DEF ToggleVisibilityRead
  <2>3. ASSUME NEW i \in Ids, DeleteReviewRead(c, i)
        PROVE  ReviewCalls'
    <3>1. [op |-> "delete", id |-> i] \in ReviewWork
      BY DEF ReviewWork
    <3> QED
      BY <2>3, <3>1, ReviewStarts DEF DeleteReviewRead
  <2>4. ASSUME NEW ids \in SUBSET Issued, BulkDeleteRead(c, ids)
        PROVE  ReviewCalls'
    <3>1. [op |-> "erase", ids |-> ids, found |-> ids \cap Written # {}] \in ReviewWork
      BY DEF ReviewWork, Issued
    <3> QED
      BY <2>4, <3>1, ReviewStarts DEF BulkDeleteRead
  <2>5. CASE BulkFind(c)
    <3>1. Recalculate \in ReviewWork /\ Recalculate.op # "save" /\ Idle.op # "save"
      BY DEF ReviewWork, Recalculate, Idle
    <3> QED
      BY <2>5, <3>1, ReviewMoves DEF BulkFind, Goto, Finish
  <2> QED
    BY <2>1, <2>2, <2>3, <2>4, <2>5
<1>2. UNCHANGED reviewVars
  BY DEF CreateReviewRead, ToggleVisibilityRead, DeleteReviewRead, BulkDeleteRead, BulkFind
<1> QED
  BY <1>1, <1>2 DEF ReviewTypes, ReviewTypeOK, reviewVars

LEMMA ReviewWriteTypes ==
    ASSUME ReviewTypes, NEW c \in Calls,
           \/ CreateReviewWrite(c) \/ ToggleVisibilityWrite(c) \/ DeleteReviewWrite(c)
           \/ BulkDeleteWrite(c)
           \/ \E ids \in SUBSET Issued : BulkToggleVisibility(c, ids)
    PROVE  ReviewTypes'
<1>0. /\ Recalculate \in ReviewWork /\ Recalculate.op # "save"
      /\ Idle.op # "save"
  BY DEF ReviewWork, Recalculate, Idle
<1>1. reviews \in [Ids -> ReviewRows]
  BY DEF ReviewTypes, ReviewTypeOK, ReviewRows
<1>2. reviews' \in [Ids -> ReviewRows]
  <2>1. CASE CreateReviewWrite(c)
    <3>1. [guest |-> call[c].guest, stars |-> call[c].stars, hidden |-> FALSE] \in ReviewRows
      BY <2>1, ReviewWorkOf DEF CreateReviewWrite, ReviewRows
    <3> QED
      BY <1>1, <2>1, <3>1 DEF CreateReviewWrite
  <2>2. CASE ToggleVisibilityWrite(c)
    BY <1>1, <2>2, ReviewWorkOf, ShownRow DEF ToggleVisibilityWrite
  <2>3. CASE DeleteReviewWrite(c) \/ BulkDeleteWrite(c)
    BY <2>3, ErasedRows DEF DeleteReviewWrite, BulkDeleteWrite
  <2>4. ASSUME NEW ids \in SUBSET Issued, BulkToggleVisibility(c, ids)
        PROVE  reviews' \in [Ids -> ReviewRows]
    <3>1. PICK hidden \in BOOLEAN :
            reviews' = [i \in Ids |-> IF i \in ids \cap Written THEN Shown(i, hidden) ELSE reviews[i]]
      BY <2>4 DEF BulkToggleVisibility
    <3> QED
      BY <1>1, <3>1, ShownRow
  <2> QED
    BY <2>1, <2>2, <2>3, <2>4
<1>3. ReviewCalls'
  <2>1. CASE CreateReviewWrite(c) \/ ToggleVisibilityWrite(c) \/ DeleteReviewWrite(c) \/ BulkDeleteWrite(c)
    BY <1>0, <2>1, ReviewMoves
    DEF CreateReviewWrite, ToggleVisibilityWrite, DeleteReviewWrite, BulkDeleteWrite, Goto, Finish
  <2>2. ASSUME NEW ids \in SUBSET Issued, BulkToggleVisibility(c, ids)
        PROVE  ReviewCalls'
    <3>1. [op |-> "find", ids |-> ids] \in ReviewWork
      BY DEF ReviewWork, Issued
    <3> QED
      BY <2>2, <3>1, ReviewStarts DEF BulkToggleVisibility
  <2> QED
    BY <2>1, <2>2
<1>4. UNCHANGED <<rating, home, unsettled, failures>>
  BY DEF CreateReviewWrite, ToggleVisibilityWrite, DeleteReviewWrite, BulkDeleteWrite,
         BulkToggleVisibility
<1>5. twice' \subseteq Guests
  <2>1. CASE CreateReviewWrite(c)
    BY <2>1, ReviewWorkOf DEF CreateReviewWrite, ReviewTypes, ReviewTypeOK
  <2> QED
    BY <2>1 DEF ToggleVisibilityWrite, DeleteReviewWrite, BulkDeleteWrite, BulkToggleVisibility,
                ReviewTypes, ReviewTypeOK
<1> QED
  BY <1>2, <1>3, <1>4, <1>5 DEF ReviewTypes, ReviewTypeOK, ReviewRows

LEMMA DisturbedWork ==
    ASSUME ReviewTypes, NEW x \in Calls
    PROVE  /\ Disturb(x) \in {Idle} \cup ReviewWork
           /\ Disturb(x).op = "save" => Disturb(x).average \in 0..50
<1>1. CASE Saving(x)
  <2>1. call[x].average \in 0..50 /\ call[x].average \in Nat
    BY <1>1, ReviewWorkOf DEF ReviewTypes, ReviewCalls
  <2>2. [op |-> "save", average |-> call[x].average, alone |-> FALSE] \in ReviewWork
    BY <2>1 DEF ReviewWork
  <2> QED
    BY <1>1, <2>1, <2>2 DEF Disturb
<1>2. CASE ~Saving(x)
  BY <1>2 DEF Disturb, Saving, Doing, ReviewTypes, ReviewCalls
<1> QED
  BY <1>1, <1>2

LEMMA ReviewAverageTypes ==
    ASSUME ReviewTypes, NEW c \in Calls, AverageRead(c) \/ SaveAverage(c) \/ ReviewFails(c)
    PROVE  ReviewTypes'
<1>0. Idle.op # "save"
  BY DEF Idle
<1>1. CASE AverageRead(c)
  <2> DEFINE work == [op |-> "save", average |-> Average, alone |-> \A y \in Calls : ~Saving(y)]
  <2>1. Average \in 0..50 /\ Average \in Nat
    BY AverageBound DEF ReviewTypes
  <2>2. work \in ReviewWork /\ work.average \in 0..50
    <3> DEFINE alone == \A y \in Calls : ~Saving(y)
    <3>1. alone \in BOOLEAN
      OBVIOUS
    <3> HIDE DEF alone
    <3>2. [op |-> "save", average |-> Average, alone |-> alone] \in ReviewWork
      BY <2>1, <3>1 DEF ReviewWork
    <3> QED
      BY <2>1, <3>2 DEF alone
  <2>3. call' = [x \in Calls |-> IF x = c THEN work ELSE Disturb(x)]
    BY <1>1 DEF AverageRead
  <2> HIDE DEF work
  <2>4. ReviewCalls'
    BY <2>2, <2>3, DisturbedWork DEF ReviewCalls, Saving, Doing
  <2> QED
    BY <1>1, <2>4 DEF AverageRead, ReviewTypes, ReviewTypeOK, reviewVars
<1>2. CASE SaveAverage(c)
  <2>1. call[c].average \in 0..50 /\ call[c].alone \in BOOLEAN
    BY <1>2, ReviewWorkOf DEF SaveAverage, ReviewTypes, ReviewCalls
  <2>2. ReviewCalls'
    BY <1>0, <1>2, ReviewMoves DEF SaveAverage, Finish
  <2> QED
    BY <1>2, <2>1, <2>2 DEF SaveAverage, ReviewTypes, ReviewTypeOK
<1>3. CASE ReviewFails(c)
  <2>1. call' = [x \in Calls |-> IF x = c THEN Idle ELSE Disturb(x)]
    BY <1>3 DEF ReviewFails
  <2>2. ReviewCalls'
    BY <1>0, <2>1, DisturbedWork DEF ReviewCalls, Saving, Doing
  <2>3. failures' \in 0..MaxFailures
    BY <1>3, StarsAssumption DEF ReviewFails, ReviewTypes, ReviewTypeOK
  <2> QED
    BY <1>3, <2>2, <2>3 DEF ReviewFails, ReviewTypes, ReviewTypeOK
<1> QED
  BY <1>1, <1>2, <1>3

LEMMA ReviewTypesStep ==
    ASSUME ReviewTypes, [ReviewNext]_<<call, reviewVars>>
    PROVE  ReviewTypes'
<1>1. ASSUME NEW g \in Guests, TripCompletes(g)
      PROVE  ReviewTypes'
  BY <1>1 DEF TripCompletes, ReviewTypes, ReviewCalls, ReviewTypeOK, Saving, Doing
<1>2. CASE UNCHANGED <<call, reviewVars>>
  BY <1>2 DEF reviewVars, ReviewTypes, ReviewCalls, ReviewTypeOK, Saving, Doing
<1> QED
  BY <1>1, <1>2, ReviewReadTypes, ReviewWriteTypes, ReviewAverageTypes DEF ReviewNext

LEMMA ReviewTypesInitially ==
    ASSUME ReviewInit, call = [c \in Calls |-> Idle]
    PROVE  ReviewTypes
<1>1. 0 \in 0..MaxFailures
  BY StarsAssumption
<1>2. ReviewCalls
  BY DEF ReviewCalls, Idle, Saving, Doing
<1>3. reviews \in [Ids -> [guest: Guests, stars: Stars, hidden: BOOLEAN] \cup {NoReview, Deleted}]
  BY DEF ReviewInit
<1>4. rating \in 0..50 /\ failures \in 0..MaxFailures
  BY <1>1 DEF ReviewInit
<1>5. home \subseteq Guests /\ twice \subseteq Guests /\ unsettled \in BOOLEAN
  BY DEF ReviewInit
<1> QED
  BY <1>2, <1>3, <1>4, <1>5 DEF ReviewTypes, ReviewTypeOK

-----------------------------------------------------------------------------
(* The types of all desks.                                                 *)

SupportCalls == call \in [Calls -> {Idle} \cup SupportWork]

LEMMA SupportCallsStep ==
    ASSUME SupportInv, SupportCalls, [SupportNext]_<<call, ticket>>
    PROVE  SupportCalls'
<1>1. ASSUME NEW c \in Calls, NEW s \in Staff, ReplyTicketRead(c, s)
      PROVE  SupportCalls'
  <2>1. PICK op \in {"reply", "note"} : Start(c, [op |-> op, by |-> s, owner |-> ticket.owner])
    BY <1>1 DEF ReplyTicketRead
  <2>2. ticket.owner \in Staff \cup {Nobody}
    BY DEF SupportInv, SupportTypes, SupportTypeOK
  <2>3. [op |-> op, by |-> s, owner |-> ticket.owner] \in SupportWork
    BY <2>2 DEF SupportWork
  <2> QED
    BY <2>1, <2>3 DEF Start, SupportCalls
<1>2. ASSUME NEW c \in Calls, ResolvedRead(c)
      PROVE  SupportCalls'
  <2>1. PICK op \in {"rate", "reopen"} : Start(c, [op |-> op])
    BY <1>2 DEF ResolvedRead
  <2>2. [op |-> op] \in SupportWork
    BY DEF SupportWork
  <2> QED
    BY <2>1, <2>2 DEF Start, SupportCalls
<1>3. ASSUME NEW c \in Calls, ReplyTicketWrite(c) \/ NoteWrite(c) \/ RateWrite(c) \/ ReopenWrite(c)
      PROVE  SupportCalls'
  <2>1. Finish(c)
    BY <1>3 DEF ReplyTicketWrite, NoteWrite, RateWrite, ReopenWrite
  <2> QED
    BY <2>1 DEF Finish, SupportCalls
<1>4. ASSUME call' = call
      PROVE  SupportCalls'
  BY <1>4 DEF SupportCalls
<1> QED
  BY <1>1, <1>2, <1>3, <1>4 DEF SupportNext, CreateFromContact, UpdateStatus, AssignTicket

\* The desk that is followed has an invariant of its own; the others keep their types.
DeskTypes ==
    /\ IF desk = "drafts" THEN SeatInv ELSE DraftTypeOK
    /\ IF desk = "reviews" THEN ReviewTypes ELSE ReviewTypeOK
    /\ IF desk = "support" THEN SupportCalls ELSE SupportTypeOK
    /\ desk # "vouchers" => VoucherTypeOK
    /\ desk # "accounts" => SessionTypeOK

LEMMA DeskTypesInitially ==
    ASSUME Init
    PROVE  DeskTypes
<1>1. SeatInv /\ DraftTypeOK
  BY DraftsInitially, SeatsInitially, SeatsType DEF Init
<1>2. ReviewTypes /\ ReviewTypeOK
  BY ReviewTypesInitially DEF Init, ReviewTypes
<1>3. SupportCalls /\ SupportTypeOK
  BY SupportInitially DEF Init, SupportCalls, SupportInv, SupportTypes
<1>4. VoucherTypeOK /\ SessionTypeOK
  BY VoucherInitially, SessionInitially DEF Init, VoucherInv, VoucherTypes, SessionInv, SessionTypes
<1> QED
  BY <1>1, <1>2, <1>3, <1>4 DEF DeskTypes

LEMMA DeskTypesStep ==
    ASSUME DeskInv, DeskTypes, [Next]_vars
    PROVE  DeskTypes'
<1>0. desk' = desk /\ desk \in Desks
  BY DeskFrames DEF DeskInv
<1>1. IF desk = "drafts" THEN SeatInv' ELSE DraftTypeOK'
  <2>1. CASE desk = "drafts"
    BY <1>0, <2>1, DeskFrames, DraftSeatsStep DEF DeskInv, DeskTypes
  <2>2. CASE desk # "drafts"
    BY <1>0, <2>2, DeskFrames DEF DeskTypes, DraftTypeOK, draftVars
  <2> QED
    BY <2>1, <2>2
<1>2. IF desk = "reviews" THEN ReviewTypes' ELSE ReviewTypeOK'
  <2>1. CASE desk = "reviews"
    BY <1>0, <2>1, DeskFrames, ReviewTypesStep DEF DeskTypes
  <2>2. CASE desk # "reviews"
    BY <1>0, <2>2, DeskFrames DEF DeskTypes, ReviewTypeOK, reviewVars
  <2> QED
    BY <2>1, <2>2
<1>3. IF desk = "support" THEN SupportCalls' ELSE SupportTypeOK'
  <2>1. CASE desk = "support"
    BY <1>0, <2>1, DeskFrames, SupportCallsStep DEF DeskInv, DeskTypes
  <2>2. CASE desk # "support"
    BY <1>0, <2>2, DeskFrames DEF DeskTypes, SupportTypeOK
  <2> QED
    BY <2>1, <2>2
<1>4. desk # "vouchers" => VoucherTypeOK'
  BY <1>0, DeskFrames DEF DeskTypes, VoucherTypeOK, voucherVars
<1>5. desk # "accounts" => SessionTypeOK'
  BY <1>0, DeskFrames DEF DeskTypes, SessionTypeOK, sessionVars
<1> QED
  BY <1>0, <1>1, <1>2, <1>3, <1>4, <1>5 DEF DeskTypes

LEMMA DeskTypesOK ==
    ASSUME DeskInv, DeskTypes
    PROVE  TypeOK
<1>0. desk \in Desks
  BY DEF DeskInv
<1>1. DraftTypeOK /\ (desk = "drafts" => call \in [Calls -> {Idle} \cup DraftWork])
  BY SeatsType DEF DeskInv, DeskTypes, DraftInv, DraftTypes
<1>2. VoucherTypeOK /\ (desk = "vouchers" => call \in [Calls -> {Idle} \cup VoucherWork])
  BY DEF DeskInv, DeskTypes, VoucherInv, VoucherTypes
<1>3. ReviewTypeOK /\ (desk = "reviews" => call \in [Calls -> {Idle} \cup ReviewWork])
  BY DEF DeskTypes, ReviewTypes, ReviewCalls
<1>4. SupportTypeOK /\ (desk = "support" => call \in [Calls -> {Idle} \cup SupportWork])
  BY DEF DeskInv, DeskTypes, SupportInv, SupportTypes, SupportCalls
<1>5. SessionTypeOK /\ (desk = "accounts" => call \in [Calls -> {Idle} \cup SessionWork])
  BY DEF DeskInv, DeskTypes, SessionInv, SessionTypes
<1>6. call \in [Calls -> {Idle} \cup DraftWork \cup VoucherWork \cup ReviewWork
                            \cup SupportWork \cup SessionWork]
  BY <1>0, <1>1, <1>2, <1>3, <1>4, <1>5 DEF Desks
<1> QED
  BY <1>0, <1>1, <1>2, <1>3, <1>4, <1>5, <1>6 DEF TypeOK

\* Every desk keeps its types: the seats of the departure never leave 0..Capacity, the
\* stored average never leaves 0 to 5 stars, and a handler holds only what it has read.
THEOREM BackOfficeTypes == Spec => []TypeOK
<1>1. Init => DeskTypes
  BY DeskTypesInitially
<1>2. DeskInv /\ DeskTypes /\ [Next]_vars => DeskTypes'
  BY DeskTypesStep
<1>3. DeskInv /\ DeskTypes => TypeOK
  BY DeskTypesOK
<1> QED
  BY <1>1, <1>2, <1>3, DeskInvariant, PTL DEF Spec
=============================================================================
