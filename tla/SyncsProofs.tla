---------------------------- MODULE SyncsProofs ----------------------------
(***************************************************************************)
(* What keeps the agent in step with the control plane, for any number of  *)
(* items, versions, faults and restarts: the outbox, then the policy.      *)
(*                                                                         *)
(* Outbox.  No accepted item outside the exposed window is lost.  While a  *)
(* cycle runs, everything it will write back or has still to deliver       *)
(* covers everything that must not be lost: that is what makes the         *)
(* invariant inductive, because Rewrite replaces the file.  Items go out   *)
(* in the order they were enqueued, and an item goes out a second time     *)
(* only after a fault.                                                     *)
(*                                                                         *)
(* Policy.  updateSnapshot checks, saves and assigns under no common lock. *)
(* What makes it right as long as no two updates overlap: one updater at   *)
(* most is past its check, and what it saved stays on disk until it        *)
(* assigns it.                                                             *)
(***************************************************************************)
EXTENDS Outbox, PolicyManager, TLAPS

\* What must not be lost.
Owed == accepted \ (exposed \cup Done \cup Unhandled)

IndInv ==
    /\ TypeOK
    /\ Owed \subseteq Range(file)
    /\ drain \in {"deliver", "rewrite"} => Owed \subseteq Range(todo) \cup Range(remaining)
    /\ drain = "deliver" => todo # << >>
    /\ drain = "rewrite" => todo = << >>

-----------------------------------------------------------------------------
\* Appending a line keeps the others and adds it.
LEMMA RangeAppend ==
    ASSUME NEW S, NEW s \in Seq(S), NEW x \in S
    PROVE  Range(Append(s, x)) = Range(s) \cup {x}
<1> DEFINE t == Append(s, x)
<1>1. DOMAIN t = DOMAIN s \cup {Len(s) + 1} /\ t[Len(s) + 1] = x
  OBVIOUS
<1>2. \A i \in DOMAIN s : t[i] = s[i]
  OBVIOUS
<1> HIDE DEF t
<1>3. Range(t) = Range(s) \cup {x}
  BY <1>1, <1>2 DEF Range
<1>4. QED
  BY <1>3 DEF t

\* A batch is its head and its tail.
LEMMA RangeTail ==
    ASSUME NEW S, NEW s \in Seq(S), s # << >>
    PROVE  Range(s) = {Head(s)} \cup Range(Tail(s))
<1>1. \A i \in DOMAIN s : i = 1 \/ (i - 1 \in DOMAIN Tail(s) /\ s[i] = Tail(s)[i - 1])
  OBVIOUS
<1>2. \A i \in DOMAIN Tail(s) : i + 1 \in DOMAIN s /\ Tail(s)[i] = s[i + 1]
  OBVIOUS
<1>3. 1 \in DOMAIN s /\ s[1] = Head(s)
  OBVIOUS
<1>4. QED
  BY <1>1, <1>2, <1>3 DEF Range

\* Advance leaves a batch that is shorter by its head, and rewrites when
\* there is nothing left.
LEMMA AdvanceBatch ==
    ASSUME TypeOK, todo # << >>, Advance
    PROVE  /\ todo' \in Seq(Items \cup {Garbage}) /\ attempt' = 0
           /\ Range(todo) = {Head(todo)} \cup Range(todo')
           /\ drain' \in {"deliver", "rewrite"}
           /\ drain' = "deliver" => todo' # << >>
           /\ drain' = "rewrite" => todo' = << >>
<1>1. todo \in Seq(Items \cup {Garbage})
  BY DEF TypeOK
<1>2. Range(todo) = {Head(todo)} \cup Range(Tail(todo))
  BY <1>1, RangeTail
<1>3. Tail(todo) \in Seq(Items \cup {Garbage})
  BY <1>1
<1>4. QED
  BY <1>2, <1>3 DEF Advance

\* The types and the batch survive each step; what is owed only grows by an
\* Enqueue, and only shrinks by a delivery.
LEMMA InitIndInv == Init => IndInv
<1> SUFFICES ASSUME Init PROVE IndInv
  OBVIOUS
<1>1. /\ file \in Seq(Items \cup {Garbage}) /\ todo \in Seq(Items \cup {Garbage})
      /\ remaining \in Seq(Items) /\ acks \in [Items -> Nat]
  BY DEF Init
<1>2. next \in 0 .. MaxItems /\ faults \in 0 .. MaxFaults /\ attempt \in 0 .. 2
  BY OutboxAssumption DEF Init
<1>3. Owed = {}
  BY DEF Init, Owed
<1>4. QED
  BY <1>1, <1>2, <1>3 DEF Init, IndInv, TypeOK

\* A new line is the old file and the line.
LEMMA FileAppend ==
    ASSUME TypeOK, NEW l \in Items \cup {Garbage}
    PROVE  /\ Append(file, l) \in Seq(Items \cup {Garbage})
           /\ Range(Append(file, l)) = Range(file) \cup {l}
<1>1. file \in Seq(Items \cup {Garbage})
  BY DEF TypeOK
<1>2. QED
  BY <1>1, RangeAppend

\* Enqueue adds its item to the file, or to the exposed items.
LEMMA EnqueueIndInv == IndInv /\ Enqueue => IndInv'
<1> SUFFICES ASSUME IndInv, Enqueue PROVE IndInv'
  OBVIOUS
<1>1. /\ next' \in Items /\ next' = next + 1 /\ next \in Nat
      /\ accepted \subseteq 1 .. next /\ exposed \subseteq accepted
  BY OutboxAssumption DEF IndInv, TypeOK, Enqueue, Items
<1>2. /\ Append(file, next') \in Seq(Items \cup {Garbage})
      /\ Range(Append(file, next')) = Range(file) \cup {next'}
  BY <1>1, FileAppend DEF IndInv
<1>3. /\ file' \in Seq(Items \cup {Garbage}) /\ Range(file) \subseteq Range(file')
      /\ tail = "torn" \/ next' \in Range(file')
  BY <1>2 DEF IndInv, TypeOK, Enqueue
<1>4. /\ next' \in 0 .. MaxItems /\ accepted' \subseteq 1 .. next'
      /\ exposed' \subseteq accepted'
  BY <1>1, OutboxAssumption DEF Enqueue, Items
<1>5. TypeOK'
  BY <1>3, <1>4 DEF IndInv, TypeOK, Enqueue
<1>6. /\ Owed' \subseteq Owed \cup {next'}
      /\ tail = "torn" \/ drain \in {"deliver", "rewrite"} => Owed' \subseteq Owed
  BY <1>1 DEF Owed, Done, Enqueue
<1>7. Owed' \subseteq Range(file')
  BY <1>3, <1>6 DEF IndInv
<1>8. drain' \in {"deliver", "rewrite"} => Owed' \subseteq Range(todo') \cup Range(remaining')
  BY <1>6 DEF IndInv, Enqueue
<1>9. QED
  BY <1>5, <1>7, <1>8 DEF IndInv, Enqueue

\* A failed Enqueue is not accepted; a torn line only adds garbage.
LEMMA EnqueueFailsIndInv == IndInv /\ EnqueueFails => IndInv'
<1> SUFFICES ASSUME IndInv, EnqueueFails PROVE IndInv'
  OBVIOUS
<1>1. /\ next' \in Items /\ next' \in 0 .. MaxItems /\ accepted' \subseteq 1 .. next'
      /\ exposed' \subseteq accepted'
  BY OutboxAssumption DEF IndInv, TypeOK, EnqueueFails, Items
<1>2. /\ Append(file, Garbage) \in Seq(Items \cup {Garbage})
      /\ Range(Append(file, Garbage)) = Range(file) \cup {Garbage}
  BY FileAppend DEF IndInv
<1>3. /\ Range(file) \subseteq Range(file') /\ file' \in Seq(Items \cup {Garbage})
      /\ tail' \in {"newline", "torn"}
  BY <1>2, Zenon DEF IndInv, TypeOK, EnqueueFails
<1>4. acks' \in [Items -> Nat] /\ \A i \in Items : acks[i] > 0 => acks'[i] > 0
  <2>1. acks \in [Items -> Nat] /\ (acks' = acks \/ acks' = [acks EXCEPT ![next'] = @ + 1])
    BY DEF IndInv, TypeOK, EnqueueFails
  <2>2. QED
    BY <1>1, <2>1
<1>5. faults' \in 0 .. MaxFaults
  BY OutboxAssumption DEF IndInv, TypeOK, EnqueueFails, Fault
<1>6. TypeOK'
  BY <1>1, <1>3, <1>4, <1>5 DEF IndInv, TypeOK, EnqueueFails
<1>7. Owed' \subseteq Owed
  BY <1>4 DEF Owed, Done, EnqueueFails
<1>8. QED
  BY <1>3, <1>6, <1>7 DEF IndInv, EnqueueFails

\* The steps of a cycle.  The batch read covers everything in the file; an
\* item leaves the batch delivered, without a handler, or to be written back.
LEMMA CycleIndInv ==
    IndInv /\ (BeginDrain \/ SkipLine \/ (\E i \in Items : DeliverOk(i)) \/ DeliverFails)
      => IndInv'
<1> SUFFICES ASSUME IndInv,
                    BeginDrain \/ SkipLine \/ (\E i \in Items : DeliverOk(i)) \/ DeliverFails
             PROVE  IndInv'
  OBVIOUS
<1>1. CASE BeginDrain
  <2>1. file # << >>
    BY <1>1 DEF BeginDrain, Range
  <2>2. Owed' = Owed /\ TypeOK'
    BY <1>1 DEF BeginDrain, IndInv, TypeOK, Owed, Done
  <2>3. QED
    BY <1>1, <2>1, <2>2 DEF BeginDrain, IndInv
<1>2. CASE SkipLine
  <2>1. /\ todo # << >> /\ Advance /\ Head(todo) \notin Owed
    BY <1>2 DEF SkipLine, IndInv, Owed, TypeOK, Garbage
  <2>2. Owed' = Owed
    BY <1>2 DEF SkipLine, Owed, Done
  <2>3. TypeOK'
    BY <1>2, <2>1, AdvanceBatch DEF SkipLine, IndInv, TypeOK
  <2>4. QED
    BY <1>2, <2>1, <2>2, <2>3, AdvanceBatch DEF SkipLine, IndInv
<1>3. ASSUME NEW i \in Items, DeliverOk(i)
      PROVE  IndInv'
  <2>1. todo # << >> /\ Advance /\ Head(todo) = i
    BY <1>3 DEF DeliverOk, IndInv
  <2>2. /\ acks' \in [Items -> Nat] /\ acks'[i] > 0
        /\ \A j \in Items : acks[j] > 0 => acks'[j] > 0
    <3>1. acks \in [Items -> Nat] /\ acks' = [acks EXCEPT ![i] = @ + 1]
      BY <1>3 DEF DeliverOk, IndInv, TypeOK
    <3>2. QED
      BY <3>1
  <2>3. Owed' \subseteq Owed /\ i \notin Owed'
    BY <1>3, <2>2 DEF DeliverOk, Owed, Done
  <2>4. TypeOK'
    BY <1>3, <2>1, <2>2, AdvanceBatch DEF DeliverOk, IndInv, TypeOK
  <2>5. QED
    BY <1>3, <2>1, <2>3, <2>4, AdvanceBatch DEF DeliverOk, IndInv
<1>4. CASE DeliverFails
  <2>1. Owed' = Owed /\ todo # << >>
    BY <1>4 DEF DeliverFails, Owed, Done, IndInv
  <2>2. CASE attempt < 2 /\ attempt' = attempt + 1 /\ UNCHANGED <<drain, todo, remaining>>
    <3>1. attempt' \in 0 .. 2
      BY <2>2 DEF IndInv, TypeOK
    <3>2. TypeOK'
      BY <1>4, <2>2, <3>1 DEF DeliverFails, IndInv, TypeOK
    <3>3. QED
      BY <1>4, <2>1, <2>2, <3>2 DEF DeliverFails, IndInv
  <2>3. CASE Advance /\ remaining' = Append(remaining, Head(todo))
    <3>1. remaining \in Seq(Items) /\ Head(todo) \in Items
      BY <1>4 DEF DeliverFails, IndInv, TypeOK
    <3>2. remaining' \in Seq(Items) /\ Range(remaining') = Range(remaining) \cup {Head(todo)}
      BY <2>3, <3>1, RangeAppend
    <3>3. TypeOK'
      BY <1>4, <2>1, <2>3, <3>2, AdvanceBatch DEF DeliverFails, IndInv, TypeOK
    <3>4. QED
      BY <1>4, <2>1, <2>3, <3>2, <3>3, AdvanceBatch DEF DeliverFails, IndInv
  <2>4. QED
    BY <1>4, <2>2, <2>3 DEF DeliverFails
<1>5. QED
  BY <1>1, <1>2, <1>3, <1>4

\* The end of a cycle, and the life of the process.  Rewrite writes what is
\* still owed, because the batch is empty by then.
LEMMA ProcessIndInv ==
    IndInv /\ (Rewrite \/ RewriteFails \/ Cancel \/ DrainLoopEnds \/ Exit \/ Restart)
      => IndInv'
<1> SUFFICES ASSUME IndInv,
                    Rewrite \/ RewriteFails \/ Cancel \/ DrainLoopEnds \/ Exit \/ Restart
             PROVE  IndInv'
  OBVIOUS
<1>1. Owed' = Owed
  BY DEF Rewrite, RewriteFails, Cancel, DrainLoopEnds, Exit, Restart, Owed, Done, cycle
<1>2. CASE Rewrite
  <2>1. Owed \subseteq Range(remaining) /\ remaining \in Seq(Items \cup {Garbage})
    BY <1>2 DEF Rewrite, IndInv, TypeOK, Range
  <2>2. TypeOK'
    BY <1>2, <2>1 DEF Rewrite, IndInv, TypeOK
  <2>3. QED
    BY <1>1, <1>2, <2>1, <2>2 DEF Rewrite, IndInv
<1>3. CASE RewriteFails \/ Cancel \/ DrainLoopEnds \/ Exit \/ Restart
  <2>1. faults' \in 0 .. MaxFaults
    BY <1>3, OutboxAssumption
       DEF RewriteFails, Cancel, DrainLoopEnds, Exit, Restart, Fault, IndInv, TypeOK
  <2>2. TypeOK'
    BY <1>3, <2>1, Zenon DEF RewriteFails, Cancel, DrainLoopEnds, Exit, Restart, cycle, IndInv, TypeOK
  <2>3. QED
    BY <1>1, <1>3, <2>2 DEF RewriteFails, Cancel, DrainLoopEnds, Exit, Restart, cycle, IndInv
<1>4. QED
  BY <1>2, <1>3

\* Every step preserves the invariant.
LEMMA NextIndInv == IndInv /\ [Next]_vars => IndInv'
<1>1. IndInv /\ UNCHANGED vars => IndInv'
  BY DEF vars, IndInv, TypeOK, Owed, Done
<1>2. QED
  BY <1>1, EnqueueIndInv, EnqueueFailsIndInv, CycleIndInv, ProcessIndInv DEF Next

\* The outbox keeps its types.
THEOREM TypeCorrect == Spec => []TypeOK
<1>1. IndInv => TypeOK
  BY DEF IndInv
<1>2. QED
  BY <1>1, InitIndInv, NextIndInv, PTL DEF Spec

\* An accepted item that was enqueued between cycles, on a whole line, is in
\* the file until it has been delivered: whatever deliveries, rewrites and
\* processes fail (drainOnce and writeItems).
THEOREM NothingLost == Spec => []KeptUntilDelivered
<1>1. IndInv => KeptUntilDelivered
  BY DEF IndInv, KeptUntilDelivered, Owed
<1>2. QED
  BY <1>1, InitIndInv, NextIndInv, PTL DEF Spec

-----------------------------------------------------------------------------
(***************************************************************************)
(* Order and redelivery.  An item that a cycle may still deliver has had   *)
(* at most one delivery per fault that broke a cycle off; a cancellation   *)
(* counts from the moment the process exits.                               *)
(***************************************************************************)
Ordered(s) == \A i, j \in DOMAIN s :
                 i < j /\ s[i] # Garbage /\ s[j] # Garbage => s[i] < s[j]

\* The items the goroutine may deliver before another fault.
Deliverable == IF drain \in {"deliver", "rewrite"} THEN Range(todo) \cup Range(remaining)
               ELSE Range(file)

Credit == faults - (IF agent = "cancelled" THEN 1 ELSE 0)

OrderInv ==
    /\ Ordered(file) /\ Ordered(todo) /\ Ordered(remaining)
    /\ \A x \in Range(remaining), y \in Range(todo) : y # Garbage => x < y
    /\ \A x \in Range(file) \cup Range(todo) \cup Range(remaining) : x <= next

CreditInv ==
    /\ Credit \in Nat
    /\ agent = "down" => drain = "gone"
    /\ \A i \in Items : /\ i > next => acks[i] = 0
                        /\ acks[i] <= 1 + Credit
                        /\ i \in Deliverable => acks[i] <= Credit

\* A line that is larger than all others goes to the end,
LEMMA OrderedAppend ==
    ASSUME NEW s \in Seq(Items \cup {Garbage}), Ordered(s), NEW x \in Items \cup {Garbage},
           x = Garbage \/ \A y \in Range(s) : y < x
    PROVE  Ordered(Append(s, x))
<1> DEFINE t == Append(s, x)
<1>1. DOMAIN t = DOMAIN s \cup {Len(s) + 1} /\ t[Len(s) + 1] = x /\ DOMAIN s = 1 .. Len(s)
      /\ Len(s) \in Nat
  OBVIOUS
<1>2. \A i \in DOMAIN s : t[i] = s[i] /\ s[i] \in Range(s)
  BY DEF Range
<1> HIDE DEF t
<1>3. SUFFICES ASSUME NEW i \in DOMAIN t, NEW j \in DOMAIN t,
                      i < j, t[i] # Garbage, t[j] # Garbage
               PROVE  t[i] < t[j]
  BY DEF Ordered, t
<1>4. i \in DOMAIN s
  BY <1>1, <1>3
<1>5. CASE j \in DOMAIN s
  BY <1>2, <1>3, <1>4, <1>5 DEF Ordered
<1>6. CASE j = Len(s) + 1
  BY <1>1, <1>2, <1>3, <1>4, <1>6
<1>7. QED
  BY <1>1, <1>5, <1>6

\* and without its head a batch stays ordered, above the head.
LEMMA OrderedTail ==
    ASSUME NEW s \in Seq(Items \cup {Garbage}), s # << >>, Ordered(s)
    PROVE  /\ Ordered(Tail(s))
           /\ \A y \in Range(Tail(s)) : Head(s) # Garbage /\ y # Garbage => Head(s) < y
<1>1. /\ \A i \in DOMAIN Tail(s) : i \in Nat \ {0} /\ i + 1 \in DOMAIN s /\ Tail(s)[i] = s[i + 1]
      /\ 1 \in DOMAIN s /\ Head(s) = s[1]
  OBVIOUS
<1>2. Ordered(Tail(s))
  <2> SUFFICES ASSUME NEW i \in DOMAIN Tail(s), NEW j \in DOMAIN Tail(s),
                      i < j, Tail(s)[i] # Garbage, Tail(s)[j] # Garbage
               PROVE  Tail(s)[i] < Tail(s)[j]
    BY DEF Ordered
  <2>1. i + 1 \in DOMAIN s /\ j + 1 \in DOMAIN s /\ i + 1 < j + 1
    BY <1>1
  <2>2. QED
    BY <1>1, <2>1 DEF Ordered
<1>3. ASSUME NEW y \in Range(Tail(s)), Head(s) # Garbage, y # Garbage PROVE Head(s) < y
  <2>1. PICK i \in DOMAIN Tail(s) : y = Tail(s)[i]
    BY DEF Range
  <2>2. 1 < i + 1
    BY <1>1
  <2>3. QED
    BY <1>1, <1>3, <2>1, <2>2 DEF Ordered
<1>4. QED
  BY <1>2, <1>3

\* What failed so far, followed by what is still to do, is in order.
LEMMA BatchOrdered ==
    ASSUME NEW r \in Seq(Items), NEW t \in Seq(Items \cup {Garbage}), Ordered(r), Ordered(t),
           \A x \in Range(r), y \in Range(t) : y # Garbage => x < y
    PROVE  Ordered(r \o t)
<1> DEFINE c == r \o t
<1>1. /\ Len(r) \in Nat /\ Len(t) \in Nat /\ DOMAIN c = 1 .. (Len(r) + Len(t))
      /\ \A i \in 1 .. Len(r) : c[i] = r[i] /\ i \in DOMAIN r
      /\ \A i \in DOMAIN c : i > Len(r) => i - Len(r) \in DOMAIN t /\ c[i] = t[i - Len(r)]
  OBVIOUS
<1> HIDE DEF c
<1>2. SUFFICES ASSUME NEW i \in DOMAIN c, NEW j \in DOMAIN c,
                      i < j, c[i] # Garbage, c[j] # Garbage
               PROVE  c[i] < c[j]
  BY DEF Ordered, c
<1>3. CASE j <= Len(r)
  BY <1>1, <1>2, <1>3 DEF Ordered
<1>4. CASE i > Len(r)
  <2>1. i - Len(r) < j - Len(r)
    BY <1>1, <1>2
  <2>2. QED
    BY <1>1, <1>2, <1>4, <2>1 DEF Ordered
<1>5. CASE i <= Len(r) /\ j > Len(r)
  <2>1. c[i] \in Range(r) /\ c[j] \in Range(t)
    BY <1>1, <1>5 DEF Range
  <2>2. QED
    BY <1>2, <2>1
<1>6. QED
  BY <1>1, <1>3, <1>4, <1>5

\* Advance keeps the batch in order, and above what is kept for the next cycle.
LEMMA AdvanceOrder ==
    ASSUME IndInv, OrderInv, drain = "deliver", Advance
    PROVE  /\ Ordered(todo') /\ Range(todo') \subseteq Range(todo) /\ Head(todo) \in Range(todo)
           /\ \A y \in Range(todo') : Head(todo) # Garbage /\ y # Garbage => Head(todo) < y
<1>1. todo \in Seq(Items \cup {Garbage}) /\ todo # << >> /\ todo' = Tail(todo)
  BY DEF IndInv, TypeOK, Advance
<1>2. Range(todo) = {Head(todo)} \cup Range(todo')
  BY <1>1, RangeTail
<1>3. QED
  BY <1>1, <1>2, OrderedTail DEF OrderInv

\* Lines are items or garbage.
LEMMA LineRange ==
    ASSUME NEW S, NEW s \in Seq(S) PROVE Range(s) \subseteq S
  BY DEF Range

\* New items have the largest number, failed ones are kept in batch order.
LEMMA OrderStep == IndInv /\ OrderInv /\ [Next]_vars => OrderInv'
<1> SUFFICES ASSUME IndInv, OrderInv, [Next]_vars PROVE OrderInv'
  OBVIOUS
<1>0. /\ file \in Seq(Items \cup {Garbage}) /\ next \in Nat /\ next \in 0 .. MaxItems
      /\ Range(file) \cup Range(todo) \cup Range(remaining) \subseteq Nat
  <2>1. Items \cup {Garbage} \subseteq Nat
    BY DEF Items, Garbage
  <2>2. /\ file \in Seq(Items \cup {Garbage}) /\ todo \in Seq(Items \cup {Garbage})
        /\ remaining \in Seq(Items) /\ next \in 0 .. MaxItems /\ next \in Nat
    BY OutboxAssumption DEF IndInv, TypeOK
  <2>3. QED
    BY <2>1, <2>2, LineRange
<1>1. CASE Enqueue \/ EnqueueFails
  <2>1. next' = next + 1 /\ next' \in Items /\ UNCHANGED <<todo, remaining>>
    BY <1>0, <1>1, OutboxAssumption DEF Enqueue, EnqueueFails, Items
  <2>2. PICK l \in {next', Garbage} : file' \in {file, Append(file, l)}
    BY <1>1 DEF Enqueue, EnqueueFails
  <2>3. l = Garbage \/ \A y \in Range(file) : y < l
    BY <1>0, <2>1, <2>2 DEF OrderInv
  <2>4. /\ Ordered(Append(file, l)) /\ Range(Append(file, l)) = Range(file) \cup {l}
    BY <1>0, <2>1, <2>3, OrderedAppend, FileAppend DEF OrderInv, IndInv
  <2>5. l <= next' /\ \A x \in Nat : x <= next => x <= next'
    BY <1>0, <2>1 DEF Garbage
  <2>6. \A x \in Range(file') \cup Range(todo') \cup Range(remaining') : x <= next'
    BY <1>0, <2>1, <2>2, <2>4, <2>5, Zenon DEF OrderInv
  <2>7. QED
    BY <2>1, <2>2, <2>4, <2>6, Zenon DEF OrderInv
<1>2. CASE BeginDrain
  BY <1>2 DEF BeginDrain, OrderInv, Ordered, Range
<1>3. CASE SkipLine \/ \E i \in Items : DeliverOk(i)
  <2>1. drain = "deliver" /\ Advance /\ UNCHANGED <<file, remaining, next>>
    BY <1>3 DEF SkipLine, DeliverOk
  <2>2. QED
    BY <2>1, AdvanceOrder DEF OrderInv
<1>4. CASE DeliverFails
  <2>1. CASE UNCHANGED <<todo, remaining>>
    BY <1>4, <2>1 DEF DeliverFails, OrderInv
  <2>2. CASE Advance /\ remaining' = Append(remaining, Head(todo))
    <3>1. /\ drain = "deliver" /\ Head(todo) \in Items /\ Head(todo) # Garbage
          /\ remaining \in Seq(Items) /\ remaining \in Seq(Items \cup {Garbage})
          /\ UNCHANGED <<file, next>>
      <4>1. /\ drain = "deliver" /\ Head(todo) \in Items /\ UNCHANGED <<file, next>>
            /\ remaining \in Seq(Items)
        BY <1>4 DEF DeliverFails, IndInv, TypeOK
      <4>2. remaining \in Seq(Items \cup {Garbage})
        BY <4>1
      <4>3. QED
        BY <4>1, <4>2 DEF Items, Garbage
    <3>2. Range(remaining') = Range(remaining) \cup {Head(todo)}
      BY <2>2, <3>1, RangeAppend
    <3>3. Ordered(remaining')
      BY <2>2, <3>1, AdvanceOrder, OrderedAppend DEF OrderInv
    <3>4. QED
      BY <2>2, <3>1, <3>2, <3>3, AdvanceOrder DEF OrderInv
  <2>3. QED
    BY <1>4, <2>1, <2>2 DEF DeliverFails
<1>5. CASE Rewrite
  BY <1>5 DEF Rewrite, OrderInv
<1>6. CASE UNCHANGED <<file, todo, remaining, next>>
  BY <1>6 DEF OrderInv
<1>7. QED
  BY <1>1, <1>2, <1>3, <1>4, <1>5, <1>6
     DEF Next, vars, RewriteFails, Cancel, DrainLoopEnds, Exit, Restart, cycle

\* The credit grows with each fault, and with the exit that a cancellation
\* was counted for; only what a fault broke off can be delivered again.
LEMMA CreditStep == IndInv /\ OrderInv /\ CreditInv /\ [Next]_vars => CreditInv'
<1> SUFFICES ASSUME IndInv, OrderInv, CreditInv, [Next]_vars PROVE CreditInv'
  OBVIOUS
<1>0. /\ acks \in [Items -> Nat] /\ next \in Nat /\ faults \in Nat /\ Credit \in Nat
      /\ Items \subseteq Nat /\ Garbage \notin Items
      /\ next < MaxItems => next + 1 \in Items
      /\ \A i \in Deliverable : i <= next
  BY OutboxAssumption DEF IndInv, TypeOK, Items, Garbage, CreditInv, OrderInv, Deliverable
<1>1. CASE Enqueue
  <2>1. /\ next' = next + 1 /\ next' \in Items /\ Credit' = Credit
        /\ UNCHANGED <<acks, agent, drain, todo, remaining>>
    BY <1>0, <1>1 DEF Enqueue, Credit
  <2>2. Deliverable' \subseteq Deliverable \cup {next'}
    BY <1>1, <2>1, FileAppend DEF Enqueue, Deliverable, IndInv
  <2>3. acks[next'] = 0
    BY <1>0, <2>1 DEF CreditInv
  <2>4. QED
    BY <1>0, <2>1, <2>2, <2>3 DEF CreditInv
<1>2. CASE EnqueueFails
  <2>1. /\ next' = next + 1 /\ next' \in Items /\ Credit' = Credit + 1
        /\ UNCHANGED <<agent, drain, todo, remaining>>
    BY <1>0, <1>2 DEF EnqueueFails, Fault, Credit
  <2>2. Deliverable' \subseteq Deliverable \cup {Garbage}
    BY <1>2, <2>1, FileAppend, Zenon DEF EnqueueFails, Deliverable, IndInv
  <2>3. /\ acks[next'] = 0 /\ acks'[next'] \in {0, 1}
        /\ \A i \in Items \ {next'} : acks'[i] = acks[i]
    BY <1>0, <1>2, <2>1 DEF CreditInv, EnqueueFails
  <2>4. next' \notin Deliverable'
    BY <1>0, <2>1, <2>2
  <2>5. ASSUME NEW i \in Items
        PROVE  /\ i > next' => acks'[i] = 0
               /\ acks'[i] <= 1 + Credit'
               /\ i \in Deliverable' => acks'[i] <= Credit'
    <3>1. CASE i = next'
      BY <1>0, <2>1, <2>3, <2>4, <3>1
    <3>2. CASE i # next'
      <4>1. /\ acks'[i] = acks[i] /\ acks[i] \in Nat /\ acks[i] <= 1 + Credit
            /\ i > next => acks[i] = 0
        BY <1>0, <2>3, <3>2 DEF CreditInv
      <4>2. i \in Nat /\ (i > next' => i > next)
        BY <1>0, <2>1
      <4>3. QED
        BY <1>0, <2>1, <4>1, <4>2
    <3>3. QED
      BY <3>1, <3>2
  <2>6. Credit' \in Nat /\ (agent' = "down" => drain' = "gone")
    BY <1>0, <2>1 DEF CreditInv
  <2>7. QED
    BY <2>5, <2>6 DEF CreditInv
<1>3. CASE BeginDrain
  <2>1. UNCHANGED <<acks, next, faults, agent>> /\ agent # "down" /\ Deliverable' = Deliverable
    BY <1>3 DEF BeginDrain, Deliverable, Range
  <2>2. QED
    BY <2>1 DEF CreditInv, Credit
<1>4. CASE SkipLine \/ DeliverFails
  <2>1. /\ drain = "deliver" /\ drain' \in {"deliver", "rewrite"} /\ todo # << >>
        /\ UNCHANGED <<acks, next, faults, agent>>
    BY <1>4 DEF SkipLine, DeliverFails, Advance, IndInv
  <2>2. Deliverable' \subseteq Deliverable
    <3>1. CASE UNCHANGED <<todo, remaining>>
      BY <2>1, <3>1 DEF Deliverable
    <3>2. CASE Advance /\ remaining' \in {remaining, Append(remaining, Head(todo))}
                       /\ (remaining' = remaining \/ Head(todo) \in Items)
      <4>1. Range(remaining') \subseteq Range(remaining) \cup {Head(todo)}
        <5>1. remaining \in Seq(Items)
          BY DEF IndInv, TypeOK
        <5>2. CASE remaining' = remaining
          BY <5>2
        <5>3. CASE remaining' = Append(remaining, Head(todo)) /\ Head(todo) \in Items
          <6>1. Range(Append(remaining, Head(todo))) = Range(remaining) \cup {Head(todo)}
            BY <5>1, <5>3, RangeAppend
          <6>2. QED
            BY <5>3, <6>1
        <5>4. QED
          BY <3>2, <5>2, <5>3
      <4>2. QED
        BY <2>1, <3>2, <4>1, AdvanceBatch DEF Deliverable, IndInv
    <3>3. QED
      BY <1>4, <3>1, <3>2 DEF SkipLine, DeliverFails
  <2>3. QED
    BY <2>1, <2>2 DEF CreditInv, Credit
<1>5. ASSUME NEW i \in Items, DeliverOk(i) PROVE CreditInv'
  <2>1. /\ drain = "deliver" /\ drain' \in {"deliver", "rewrite"} /\ Advance /\ Head(todo) = i
        /\ acks' = [acks EXCEPT ![i] = @ + 1] /\ UNCHANGED <<remaining, next, faults, agent>>
    BY <1>5 DEF DeliverOk, Advance
  <2>2. /\ Deliverable' \subseteq Deliverable /\ i \in Deliverable
    BY <2>1, AdvanceOrder DEF Deliverable
  <2>3. i \notin Deliverable'
    <3>1. \A y \in Range(todo') : y # Garbage => i < y
      BY <1>0, <2>1, AdvanceOrder
    <3>2. \A x \in Range(remaining) : x < i
      BY <1>0, <2>1, AdvanceOrder DEF OrderInv
    <3>3. QED
      BY <1>0, <2>1, <3>1, <3>2 DEF Deliverable
  <2>4. acks'[i] = acks[i] + 1 /\ \A j \in Items \ {i} : acks'[j] = acks[j]
    BY <1>0, <2>1
  <2>5. acks[i] <= Credit /\ i <= next
    BY <1>0, <2>2 DEF CreditInv
  <2>6. Credit' = Credit
    BY <2>1 DEF Credit
  <2>7. QED
    BY <1>0, <2>1, <2>2, <2>3, <2>4, <2>5, <2>6 DEF CreditInv
<1>6. CASE Rewrite
  <2>1. Deliverable' \subseteq Deliverable /\ UNCHANGED <<acks, next, faults, agent>>
    BY <1>6 DEF Rewrite, Deliverable
  <2>2. agent # "down"
    BY <1>6 DEF Rewrite, CreditInv
  <2>3. QED
    BY <2>1, <2>2 DEF CreditInv, Credit
<1>7. CASE RewriteFails \/ Exit
  <2>1. Credit' = Credit + 1 /\ UNCHANGED <<acks, next>>
    BY <1>0, <1>7 DEF RewriteFails, Exit, Fault, Credit
  <2>2. agent' = "down" => drain' = "gone"
    BY <1>7 DEF RewriteFails, Exit, CreditInv
  <2>3. QED
    BY <1>0, <2>1, <2>2 DEF CreditInv
<1>8. CASE Cancel \/ DrainLoopEnds \/ Restart
  <2>1. Credit' = Credit /\ UNCHANGED <<acks, next>>
    BY <1>0, <1>8 DEF Cancel, DrainLoopEnds, Restart, Fault, Credit
  <2>2. (agent' = "down" => drain' = "gone") /\ Deliverable' = Deliverable
    BY <1>8 DEF Cancel, DrainLoopEnds, Restart, CreditInv, Deliverable, cycle
  <2>3. QED
    BY <2>1, <2>2 DEF CreditInv
<1>9. CASE UNCHANGED vars
  BY <1>9 DEF vars, CreditInv, Credit, Deliverable
<1>10. QED
  BY <1>1, <1>2, <1>3, <1>4, <1>5, <1>6, <1>7, <1>8, <1>9 DEF Next

\* "Items are replayed in order" (outbox.go), for any number of items: the
\* file and each batch list them in the order they were enqueued, and an item
\* is delivered more than once only after as many faults.
THEOREM InOrderAndOnce == Spec => []DeliveredInOrder
<1>1. Init => OrderInv /\ CreditInv
  <2> SUFFICES ASSUME Init PROVE OrderInv /\ CreditInv
    OBVIOUS
  <2>1. /\ Range(file) = {} /\ Range(todo) = {} /\ Range(remaining) = {} /\ Credit = 0
    BY DEF Init, Range, Credit
  <2>2. OrderInv
    BY <2>1 DEF Init, OrderInv, Ordered
  <2>3. CreditInv
    BY <2>1 DEF Init, CreditInv
  <2>4. QED
    BY <2>2, <2>3
<1>2. IndInv /\ OrderInv /\ CreditInv => DeliveredInOrder
  <2> SUFFICES ASSUME IndInv, OrderInv, CreditInv PROVE DeliveredInOrder
    OBVIOUS
  <2>1. Ordered(remaining \o todo)
    BY BatchOrdered DEF IndInv, TypeOK, OrderInv
  <2>2. InEnqueueOrder
    BY <2>1 DEF InEnqueueOrder, OrderInv, Ordered
  <2>3. ASSUME NEW i \in Items PROVE acks[i] <= 1 + faults
    <3>1. acks[i] \in Nat /\ faults \in Nat /\ acks[i] <= 1 + Credit
      BY OutboxAssumption DEF IndInv, TypeOK, CreditInv
    <3>2. QED
      BY <3>1 DEF Credit
  <2>4. QED
    BY <2>2, <2>3 DEF DeliveredInOrder, RedeliveredOnlyOnFault
<1>3. QED
  BY <1>1, <1>2, InitIndInv, NextIndInv, OrderStep, CreditStep, PTL DEF Spec

-----------------------------------------------------------------------------
(***************************************************************************)
(* The policy in memory, on disk and in the command settings.              *)
(***************************************************************************)
\* An updater between its check and its assignment.
InFlight(u) == pc[u] \in {"save", "set"}

\* An update that is under way carries a version, and a newer one than the
\* memory had when it was checked.
Newer == \A u \in Updaters : /\ pc[u] # "idle" => ver[u] > 0
                             /\ InFlight(u) => base[u] < ver[u]

\* Unless two updates overlapped, one is in flight at most, and what it saved
\* is on disk.
OneInFlight ==
    overlap = "no" => /\ \A u, w \in Updaters : InFlight(u) /\ InFlight(w) => u = w
                      /\ \A u \in Updaters : pc[u] = "set" => disk = ver[u]

\* The watch channel is used only while it is watched.
ChannelWatched == watcher # "watching" => chan = << >>

PolicyInv == /\ PolicyTypeOK /\ Newer /\ OneInFlight /\ ChannelWatched
          /\ DiskMatchesMemory /\ SettingsFollow

-----------------------------------------------------------------------------
\* Nothing has been published, read or saved.
LEMMA PolicyInvInit == PolicyInit => PolicyInv
<1> SUFFICES ASSUME PolicyInit PROVE PolicyInv
  OBVIOUS
<1>1. PolicyTypeOK
  <2>1. 0 \in PolicyVersions /\ 0 \in 0 .. MaxPolicyFaults /\ 0 <= ChanCap
    BY PolicyAssumption DEF PolicyVersions
  <2>2. << >> \in Seq(PolicyVersions) /\ Len(<< >>) = 0
    OBVIOUS
  <2>3. QED
    BY <2>1, <2>2 DEF PolicyInit, PolicyTypeOK
<1>2. QED
  <2>1. Newer /\ OneInFlight /\ ChannelWatched
    BY DEF PolicyInit, Newer, OneInFlight, InFlight, ChannelWatched
  <2>2. DiskMatchesMemory /\ SettingsFollow
    BY DEF PolicyInit, DiskMatchesMemory, SettingsFollow
  <2>3. QED
    BY <1>1, <2>1, <2>2 DEF PolicyInv

\* The types, which each step keeps.
LEMMA PolicyTypeStep == PolicyTypeOK /\ [PolicyNext]_povars => PolicyTypeOK'
<1> SUFFICES ASSUME PolicyTypeOK, [PolicyNext]_povars PROVE PolicyTypeOK'
  OBVIOUS
<1> USE PolicyAssumption DEF PolicyTypeOK
<1>1. CASE Publish
  BY <1>1 DEF Publish, PolicyVersions, wvars
<1>2. CASE HandlePushUpdate
  <2>1. PICK v \in 1 .. server : ver' = [ver EXCEPT !["dispatch"] = v]
    BY <1>2, Zenon DEF HandlePushUpdate
  <2>2. v \in PolicyVersions
    BY DEF PolicyVersions
  <2>3. QED
    BY <1>2, <2>1, <2>2, Zenon DEF HandlePushUpdate, Goto, wvars
<1>3. ASSUME NEW u \in Updaters, Reconcile(u) \/ CheckNewer(u) \/ SetCurrent(u)
      PROVE  PolicyTypeOK'
  BY <1>3 DEF Reconcile, CheckNewer, SetCurrent, Passes, Goto, wvars
<1>4. ASSUME NEW u \in Updaters, SaveSnapshot(u) PROVE PolicyTypeOK'
  <2>1. policyFaults' \in 0 .. MaxPolicyFaults
    BY <1>4 DEF SaveSnapshot, PolicyFault
  <2>2. QED
    BY <1>4, <2>1 DEF SaveSnapshot, Goto, wvars
<1>5. ASSUME NEW u \in Updaters, notifyWatchers(u) PROVE PolicyTypeOK'
  <2>1. chan' \in Seq(PolicyVersions) /\ Len(chan') <= ChanCap
    BY <1>5 DEF notifyWatchers
  <2>2. QED
    BY <1>5, <2>1 DEF notifyWatchers, Goto
<1>6. CASE ReadSettings \/ Watch
  <2>0. << >> \in Seq(PolicyVersions) /\ Len(<< >>) = 0
    OBVIOUS
  <2>1. chan' \in Seq(PolicyVersions) /\ Len(chan') <= ChanCap
    <3>1. chan' = chan \/ chan' = << >>
      BY <1>6 DEF ReadSettings, Watch
    <3>2. CASE chan' = chan
      BY <3>2
    <3>3. CASE chan' = << >>
      <4>1. Len(chan') = 0 /\ chan' \in Seq(PolicyVersions)
        BY <2>0, <3>3, Zenon
      <4>2. QED
        BY <4>1
    <3>4. QED
      BY <3>1, <3>2, <3>3
  <2>2. QED
    BY <1>6, <2>1 DEF ReadSettings, Watch
<1>7. CASE UpdateSettings
  <2>1. chan' \in Seq(PolicyVersions) /\ Len(chan') <= ChanCap /\ seen' \in PolicyVersions
    BY <1>7 DEF UpdateSettings
  <2>2. QED
    BY <1>7, <2>1 DEF UpdateSettings
<1>8. CASE PolicyRestart
  <2>1. policyFaults' \in 0 .. MaxPolicyFaults /\ 0 \in PolicyVersions
    BY <1>8 DEF PolicyRestart, PolicyFault, PolicyVersions
  <2>2. QED
    BY <1>8, <2>1 DEF PolicyRestart
<1>9. CASE UNCHANGED povars
  BY <1>9 DEF povars
<1>10. QED
  BY <1>1, <1>2, <1>3, <1>4, <1>5, <1>6, <1>7, <1>8, <1>9 DEF PolicyNext, Update

\* The check lets newer versions through only, and what is carried changes
\* only while the updater is idle.
LEMMA NewerStep == PolicyTypeOK /\ Newer /\ [PolicyNext]_povars => Newer'
<1> SUFFICES ASSUME PolicyTypeOK, Newer, [PolicyNext]_povars PROVE Newer'
  OBVIOUS
<1> USE DEF PolicyTypeOK, Newer, InFlight
<1>1. CASE HandlePushUpdate
  <2>1. PICK v \in 1 .. server : ver' = [ver EXCEPT !["dispatch"] = v]
    BY <1>1, Zenon DEF HandlePushUpdate
  <2>2. v > 0
    OBVIOUS
  <2>3. QED
    BY <1>1, <2>1, <2>2 DEF HandlePushUpdate, Goto
<1>2. ASSUME NEW u \in Updaters, Reconcile(u) PROVE Newer'
  BY <1>2 DEF Reconcile, Goto
<1>3. ASSUME NEW u \in Updaters, CheckNewer(u) PROVE Newer'
  <2>1. /\ pc' = [pc EXCEPT ![u] = IF ~(mem # 0 /\ mem >= ver[u]) THEN "save" ELSE "idle"]
        /\ base' = [base EXCEPT ![u] = mem] /\ ver' = ver /\ ver[u] > 0
    BY <1>3 DEF CheckNewer, Passes, Goto
  <2>2. ~(mem # 0 /\ mem >= ver[u]) => mem < ver[u]
    BY <2>1 DEF PolicyVersions
  <2>3. QED
    BY <2>1, <2>2
<1>4. ASSUME NEW u \in Updaters, SaveSnapshot(u) \/ SetCurrent(u) \/ notifyWatchers(u)
      PROVE  Newer'
  <2>1. /\ UNCHANGED <<ver, base>>
        /\ \A w \in Updaters : (pc'[w] # "idle" => pc[w] # "idle") /\ (InFlight(w)' => InFlight(w))
    <3>1. PICK step \in {"set", "idle", "notify"} : pc' = [pc EXCEPT ![u] = step]
      BY <1>4, Zenon DEF SaveSnapshot, SetCurrent, notifyWatchers, Goto
    <3>2. pc[u] # "idle" /\ (step = "set" => InFlight(u)) /\ UNCHANGED <<ver, base>>
      BY <1>4, <3>1 DEF SaveSnapshot, SetCurrent, notifyWatchers, Goto
    <3>3. QED
      BY <3>1, <3>2
  <2>2. QED
    BY <2>1
<1>5. CASE PolicyRestart
  <2>1. \A u \in Updaters : pc'[u] = "idle"
    BY <1>5 DEF PolicyRestart
  <2>2. QED
    BY <2>1, Zenon
<1>6. CASE UNCHANGED <<pc, ver, base>>
  BY <1>6
<1>7. QED
  BY <1>1, <1>2, <1>3, <1>4, <1>5, <1>6
     DEF PolicyNext, Update, Publish, ReadSettings, Watch, UpdateSettings, povars

\* Memory and disk.  A second update past its check makes it an overlap; a
\* save is followed by its own assignment, and a failed one by nothing.
LEMMA DiskStep ==
    PolicyTypeOK /\ OneInFlight /\ DiskMatchesMemory /\ [PolicyNext]_povars => OneInFlight' /\ DiskMatchesMemory'
<1> SUFFICES ASSUME PolicyTypeOK, OneInFlight, DiskMatchesMemory, [PolicyNext]_povars
             PROVE  OneInFlight' /\ DiskMatchesMemory'
  OBVIOUS
<1> USE DEF PolicyTypeOK, OneInFlight, DiskMatchesMemory, InFlight
<1>1. CASE HandlePushUpdate \/ \E u \in Updaters : Reconcile(u)
  <2>1. PICK u \in Updaters : \E v : /\ pc[u] = "idle" /\ ver' = [ver EXCEPT ![u] = v]
                                     /\ pc' = [pc EXCEPT ![u] = "check"]
    BY <1>1 DEF HandlePushUpdate, Reconcile, Goto, Updaters
  <2>2. UNCHANGED <<mem, disk, overlap>>
    BY <1>1 DEF HandlePushUpdate, Reconcile
  <2>3. QED
    BY <2>1, <2>2
<1>2. ASSUME NEW u \in Updaters, CheckNewer(u) PROVE OneInFlight' /\ DiskMatchesMemory'
  BY <1>2 DEF CheckNewer, Passes, Goto
<1>3. ASSUME NEW u \in Updaters, SaveSnapshot(u) PROVE OneInFlight' /\ DiskMatchesMemory'
  BY <1>3 DEF SaveSnapshot, Goto
<1>4. ASSUME NEW u \in Updaters, SetCurrent(u) PROVE OneInFlight' /\ DiskMatchesMemory'
  BY <1>4 DEF SetCurrent, Goto
<1>5. ASSUME NEW u \in Updaters, notifyWatchers(u) PROVE OneInFlight' /\ DiskMatchesMemory'
  BY <1>5 DEF notifyWatchers, Goto
<1>6. CASE PolicyRestart
  BY <1>6 DEF PolicyRestart
<1>7. CASE UNCHANGED <<mem, disk, pc, ver, overlap>>
  BY <1>7
<1>8. QED
  BY <1>1, <1>2, <1>3, <1>4, <1>5, <1>6, <1>7
     DEF PolicyNext, Update, Publish, ReadSettings, Watch, UpdateSettings, povars

-----------------------------------------------------------------------------
\* What the settings will be once the channel is empty.
Final(s, c) == (<<s>> \o c)[Len(c) + 1]

\* It is the value itself, the last one put in, and the same after a read.
LEMMA FinalFacts ==
    ASSUME NEW c \in Seq(PolicyVersions), NEW s \in PolicyVersions, NEW v \in PolicyVersions
    PROVE  /\ Final(s, << >>) = s
           /\ Final(s, Append(c, v)) = v
           /\ c # << >> => Final(Head(c), Tail(c)) = Final(s, c)
<1>1. Final(s, << >>) = s
  BY DEF Final
<1>2. Final(s, Append(c, v)) = v
  BY DEF Final
<1>3. ASSUME c # << >> PROVE Final(Head(c), Tail(c)) = Final(s, c)
  <2>1. Len(c) \in Nat \ {0} /\ Len(Tail(c)) = Len(c) - 1 /\ Head(c) = c[1]
        /\ \A i \in 1 .. (Len(c) - 1) : Tail(c)[i] = c[i + 1]
    BY <1>3
  <2>2. Final(s, c) = c[Len(c)]
    BY <2>1 DEF Final
  <2>3. CASE Len(c) = 1
    <3>1. Tail(c) \in Seq(PolicyVersions) /\ Len(Tail(c)) = 0 /\ Head(c) \in PolicyVersions
      BY <1>3, <2>1, <2>3
    <3>2. Final(Head(c), Tail(c)) = Head(c)
      <4>1. /\ <<Head(c)>> \in Seq(PolicyVersions) /\ Len(<<Head(c)>>) = 1
            /\ <<Head(c)>>[1] = Head(c)
        BY <3>1
      <4>2. (<<Head(c)>> \o Tail(c))[1] = <<Head(c)>>[1]
        BY <3>1, <4>1
      <4>3. Len(Tail(c)) + 1 = 1
        BY <3>1
      <4>4. QED
        BY <4>1, <4>2, <4>3, Zenon DEF Final
    <3>3. QED
      BY <2>1, <2>2, <2>3, <3>2
  <2>4. CASE Len(c) > 1
    <3>1. Final(Head(c), Tail(c)) = Tail(c)[Len(c) - 1]
      BY <2>1, <2>4 DEF Final
    <3>2. QED
      BY <2>1, <2>2, <2>4, <3>1
  <2>5. QED
    BY <2>1, <2>3, <2>4
<1>4. QED
  BY <1>1, <1>2, <1>3

\* The settings.  An assignment is announced before anything else happens to
\* the updater; an announcement goes to the end of the channel, or is counted
\* as missed.
LEMMA SettingsStep ==
    PolicyTypeOK /\ ChannelWatched /\ SettingsFollow /\ [PolicyNext]_povars
      => ChannelWatched' /\ SettingsFollow'
<1> DEFINE Behind == \E u \in Updaters : pc[u] = "notify" /\ ver[u] = mem
<1> SUFFICES ASSUME PolicyTypeOK, ChannelWatched, SettingsFollow, [PolicyNext]_povars
             PROVE  ChannelWatched' /\ SettingsFollow'
  OBVIOUS
<1>0. /\ SettingsFollow  <=> (watcher # "unread" /\ missed = "no" => mem = Final(seen, chan) \/ Behind)
      /\ SettingsFollow' <=> (watcher' # "unread" /\ missed' = "no" =>
                                 mem' = Final(seen', chan') \/ Behind')
  BY DEF SettingsFollow, Final
<1>1. /\ chan \in Seq(PolicyVersions) /\ seen \in PolicyVersions /\ mem \in PolicyVersions
      /\ ver \in [Updaters -> PolicyVersions]
      /\ pc \in [Updaters -> {"idle", "check", "save", "set", "notify"}]
  BY DEF PolicyTypeOK
<1>2. ASSUME NEW u \in Updaters, NEW step, pc[u] # "notify",
             pc' = [pc EXCEPT ![u] = step], \A w \in Updaters \ {u} : ver'[w] = ver[w],
             UNCHANGED <<mem, missed, watcher, chan, seen>>
      PROVE  ChannelWatched' /\ SettingsFollow'
  <2>1. Behind => Behind'
    BY <1>1, <1>2
  <2>2. QED
    BY <1>0, <1>2, <2>1 DEF ChannelWatched
<1>3. CASE HandlePushUpdate
  BY <1>1, <1>2, <1>3, Zenon DEF HandlePushUpdate, Goto, wvars, Updaters
<1>4. ASSUME NEW u \in Updaters, Reconcile(u) PROVE ChannelWatched' /\ SettingsFollow'
  BY <1>1, <1>2, <1>4, Zenon DEF Reconcile, Goto, wvars
<1>5. ASSUME NEW u \in Updaters, CheckNewer(u) \/ SaveSnapshot(u)
      PROVE  ChannelWatched' /\ SettingsFollow'
  <2>1. CASE CheckNewer(u)
    BY <1>1, <1>2, <2>1, Zenon DEF CheckNewer, Passes, Goto, wvars
  <2>2. CASE SaveSnapshot(u)
    <3>1. pc[u] # "notify" /\ UNCHANGED <<mem, ver, missed, watcher, chan, seen>>
      BY <2>2, Zenon DEF SaveSnapshot, wvars
    <3>2. PICK step : pc' = [pc EXCEPT ![u] = step]
      BY <2>2, Zenon DEF SaveSnapshot, Goto
    <3>3. QED
      BY <1>2, <3>1, <3>2, Zenon
  <2>3. QED
    BY <1>5, <2>1, <2>2
<1>6. ASSUME NEW u \in Updaters, SetCurrent(u) PROVE ChannelWatched' /\ SettingsFollow'
  <2>1. Behind'
    BY <1>1, <1>6 DEF SetCurrent, Goto
  <2>2. QED
    BY <1>0, <1>6, <2>1 DEF SetCurrent, wvars, ChannelWatched
<1>7. ASSUME NEW u \in Updaters, notifyWatchers(u) PROVE ChannelWatched' /\ SettingsFollow'
  <2>1. ChannelWatched'
    BY <1>7 DEF notifyWatchers, ChannelWatched
  <2>2. ASSUME watcher' # "unread", missed' = "no" PROVE mem' = Final(seen', chan') \/ Behind'
    <3>1. /\ missed = "no" /\ ~Lost(u) /\ UNCHANGED <<watcher, seen, mem, ver>>
          /\ pc' = [pc EXCEPT ![u] = "idle"]
      BY <1>7, <2>2 DEF notifyWatchers, Goto
    <3>2. CASE watcher = "watching"
      <4>1. chan' = Append(chan, ver[u]) /\ ver[u] = mem
        BY <1>7, <3>1, <3>2, <1>1, PolicyAssumption DEF notifyWatchers, Lost, PolicyTypeOK
      <4>2. QED
        BY <1>1, <3>1, <4>1, FinalFacts
    <3>3. CASE watcher # "watching"
      <4>1. ver[u] = seen /\ chan' = << >> /\ chan = << >>
        BY <1>7, <2>2, <3>1, <3>3 DEF notifyWatchers, Lost, ChannelWatched, PolicyTypeOK
      <4>2. mem = seen \/ \E w \in Updaters \ {u} : pc[w] = "notify" /\ ver[w] = mem
        BY <1>0, <1>1, <2>2, <3>1, <4>1, FinalFacts
      <4>3. QED
        BY <1>1, <3>1, <4>1, <4>2, FinalFacts
    <3>4. QED
      BY <3>2, <3>3
  <2>3. QED
    BY <1>0, <2>1, <2>2
<1>8. CASE ReadSettings
  <2>1. chan' = << >> /\ seen' = mem /\ mem' = mem /\ watcher' # "watching"
    BY <1>8 DEF ReadSettings, ChannelWatched
  <2>2. QED
    BY <1>0, <1>1, <2>1, FinalFacts DEF ChannelWatched
<1>9. CASE Watch
  <2>1. chan' = chan /\ UNCHANGED <<mem, pc, ver, seen, missed>> /\ watcher # "unread"
        /\ watcher' = "watching"
    BY <1>9 DEF Watch, ChannelWatched
  <2>2. QED
    BY <1>0, <2>1 DEF ChannelWatched
<1>10. CASE UpdateSettings
  <2>1. /\ chan # << >> /\ seen' = Head(chan) /\ chan' = Tail(chan)
        /\ UNCHANGED <<mem, pc, ver, watcher, missed>>
    BY <1>10 DEF UpdateSettings
  <2>2. Final(seen', chan') = Final(seen, chan)
    BY <1>1, <2>1, FinalFacts
  <2>3. QED
    BY <1>0, <2>1, <2>2 DEF ChannelWatched
<1>11. CASE PolicyRestart
  BY <1>0, <1>11 DEF PolicyRestart, ChannelWatched
<1>12. CASE UNCHANGED <<mem, pc, ver, wvars>>
  BY <1>0, <1>12 DEF wvars, ChannelWatched
<1>13. QED
  BY <1>3, <1>4, <1>5, <1>6, <1>7, <1>8, <1>9, <1>10, <1>11, <1>12
     DEF PolicyNext, Update, Publish, povars, wvars

-----------------------------------------------------------------------------
\* Every step preserves the invariant.
LEMMA PolicyInvStep == PolicyInv /\ [PolicyNext]_povars => PolicyInv'
  BY PolicyTypeStep, NewerStep, DiskStep, SettingsStep DEF PolicyInv

\* Unless updates overlapped, what Start would load from disk is the policy in
\* memory, or the one that the update in flight is about to assign.
THEOREM DiskAndMemoryAgree == PolicySpec => []DiskMatchesMemory
<1>a. PolicyInit => PolicyInv
  BY PolicyInvInit
<1>b. PolicyInv /\ [PolicyNext]_povars => PolicyInv'
  BY PolicyInvStep
<1>1. PolicyInv => DiskMatchesMemory
  BY DEF PolicyInv
<1>2. QED
  BY <1>1, <1>a, <1>b, PTL DEF PolicySpec

\* The command settings (wiring.go) miss no policy that was announced to their
\* watcher: they are the policy in memory once the channel is read.
THEOREM SettingsCatchUp == PolicySpec => []SettingsFollow
<1>a. PolicyInit => PolicyInv
  BY PolicyInvInit
<1>b. PolicyInv /\ [PolicyNext]_povars => PolicyInv'
  BY PolicyInvStep
<1>1. PolicyInv => SettingsFollow
  BY DEF PolicyInv
<1>2. QED
  BY <1>1, <1>a, <1>b, PTL DEF PolicySpec

\* Memory, disk and command settings keep in step, through failed saves,
\* restarts, and pushes that come late, twice or not at all.
THEOREM PolicyKeptInStep == PolicySpec => []PolicyInStep
<1>1. PolicyInit => PolicyInv
  BY PolicyInvInit
<1>2. PolicyInv /\ [PolicyNext]_povars => PolicyInv'
  BY PolicyInvStep
<1>3. PolicyInv => PolicyInStep
  BY DEF PolicyInv, PolicyInStep
<1>4. QED
  BY <1>1, <1>2, <1>3, PTL DEF PolicySpec

\* updateSnapshot alone never downgrades: the policy falls back only when a
\* newer one was set between an update's check and its assignment.
THEOREM NoLoneDowngrade == PolicySpec => DowngradeNeedsOverlap
<1>a. PolicyInit => PolicyInv
  BY PolicyInvInit
<1>b. PolicyInv /\ [PolicyNext]_povars => PolicyInv'
  BY PolicyInvStep
<1>1. PolicyInv /\ [PolicyNext]_povars =>
        (mem' < mem /\ policyFaults' = policyFaults =>
           \E u \in Updaters : pc[u] = "set" /\ mem' = ver[u] /\ base[u] < ver[u] /\ base[u] < mem)
  <2> SUFFICES ASSUME PolicyInv, [PolicyNext]_povars, mem' < mem, policyFaults' = policyFaults
               PROVE  \E u \in Updaters : /\ pc[u] = "set" /\ mem' = ver[u]
                                          /\ base[u] < ver[u] /\ base[u] < mem
    OBVIOUS
  <2>1. mem \in Nat /\ policyFaults \in Nat /\ \A u \in Updaters : base[u] \in Nat /\ ver[u] \in Nat
    BY DEF PolicyInv, PolicyTypeOK, PolicyVersions
  <2>2. mem' # mem /\ ~PolicyRestart
    BY <2>1 DEF PolicyRestart, PolicyFault
  <2>3. PICK u \in Updaters : SetCurrent(u)
    BY <2>2, Zenon DEF PolicyNext, Update, Publish, HandlePushUpdate, Reconcile, CheckNewer, SaveSnapshot,
                notifyWatchers, ReadSettings, Watch, UpdateSettings, povars
  <2>4. pc[u] = "set" /\ mem' = ver[u] /\ base[u] < ver[u]
    BY <2>3 DEF SetCurrent, PolicyInv, Newer, InFlight
  <2>5. QED
    BY <2>1, <2>4
<1>2. QED
  BY <1>1, <1>a, <1>b, PTL DEF PolicySpec, DowngradeNeedsOverlap
=============================================================================
