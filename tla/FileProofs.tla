------------------------------- MODULE FileProofs -------------------------------
(***************************************************************************)
(* What is kept in files, for every set of events, operations and bodies,  *)
(* however often a write fails and wherever a stop cuts the file.          *)
(*                                                                         *)
(* The event log.  What the scanner makes of a file is a recursive         *)
(* function; that it exists, and that files that begin alike are scanned   *)
(* alike, is proved by taking the least number for which it fails.  Then   *)
(* one step of the scanner is all that matters: it adds to what was        *)
(* applied and forgets nothing (Grows).  The invariant LogInv speaks of    *)
(* every prefix that a stop may leave, and not of the whole file only:     *)
(* each accounts for every acknowledged event, and begins with those       *)
(* acknowledged before the first damage.                                   *)
(*                                                                         *)
(* The mock provider keeps its promise.  The invariant is AtMostOneAhead:  *)
(* the file equals memory, or it is ahead by the record of one operation,  *)
(* and that record is one the promise lets the operation reach in one      *)
(* step.                                                                   *)
(***************************************************************************)
EXTENDS EventLog, MockProvider, WellFoundedInduction, SequenceTheorems, TLAPS

--------------------------------------------------------------------------------
\* Event log: induction, and what Scanned computes

\* A set of natural numbers that is not empty has a least element.
LEMMA Least ==
  ASSUME NEW T \in SUBSET Nat, T # {}
  PROVE  \E x \in T : \A y \in T : x <= y
<1> DEFINE R == {p \in Nat \X Nat : p[1] < p[2]}
<1>1. IsWellFoundedOn(R, Nat)
  BY NatLessThanWellFounded, Zenon DEF OpToRel
<1>2. \A x, y \in Nat : y < x => <<y, x>> \in R
  OBVIOUS
<1> HIDE DEF R
<1>3. PICK x \in T : \A y \in T : ~ (<<y, x>> \in R)
  BY <1>1, WFMin, Zenon
<1>4. ASSUME NEW y \in T PROVE x <= y
  <2>1. x \in Nat /\ y \in Nat
    OBVIOUS
  <2>2. ~(y < x)
    BY <1>2, <1>3, <2>1
  <2> QED
    BY <2>1, <2>2
<1> QED
  BY <1>4

\* g is what the scanner makes of the first n pieces of s.
IsScan(g, s, n) ==
  g = [i \in 0..n |-> IF i = 0 THEN Start ELSE ReadPiece(g[i - 1], s[i])]

LEMMA ScanExists == ASSUME NEW s, NEW n \in Nat PROVE \E g : IsScan(g, s, n)
<1> DEFINE T == {m \in Nat : ~ \E g : IsScan(g, s, m)}
<1> SUFFICES ASSUME T # {} PROVE FALSE
  OBVIOUS
<1>1. T \in SUBSET Nat
  OBVIOUS
<1>2. PICK x \in T : \A y \in T : x <= y
  BY <1>1, Least
<1>3. x \in Nat /\ ~ \E g : IsScan(g, s, x)
  OBVIOUS
<1>4. CASE x = 0
  <2> DEFINE g == [i \in 0..0 |-> Start]
  <2>1. IsScan(g, s, 0)
    BY DEF IsScan
  <2> QED
    BY <1>3, <1>4, <2>1
<1>5. CASE x # 0
  <2>1. x - 1 \in Nat /\ x - 1 \notin T
    BY <1>2, <1>3, <1>5
  <2>2. PICK g : IsScan(g, s, x - 1)
    BY <2>1
  <2> DEFINE h == [i \in 0..x |-> IF i = x THEN ReadPiece(g[x - 1], s[x]) ELSE g[i]]
  <2>3. \A i \in 0..x : h[i] = IF i = 0 THEN Start ELSE ReadPiece(h[i - 1], s[i])
    <3> SUFFICES ASSUME NEW i \in 0..x
                 PROVE  h[i] = IF i = 0 THEN Start ELSE ReadPiece(h[i - 1], s[i])
      OBVIOUS
    <3>1. CASE i = x
      BY <1>3, <1>5, <3>1
    <3>2. CASE i # x
      <4>1. i \in 0..(x - 1) /\ (i # 0 => i - 1 \in 0..x /\ i - 1 # x)
        BY <1>3, <3>2
      <4>2. g[i] = IF i = 0 THEN Start ELSE ReadPiece(g[i - 1], s[i])
        BY <2>2, <4>1 DEF IsScan
      <4> QED
        BY <3>2, <4>1, <4>2
    <3> QED
      BY <3>1, <3>2
  <2>4. IsScan(h, s, x)
    BY <2>3 DEF IsScan
  <2> QED
    BY <1>3, <2>4
<1> QED
  BY <1>4, <1>5

LEMMA ScannedIs ==
  ASSUME NEW s, Len(s) \in Nat
  PROVE  /\ Scanned(s)[0] = Start
         /\ \A n \in 1..Len(s) : Scanned(s)[n] = ReadPiece(Scanned(s)[n - 1], s[n])
<1>1. PICK g : IsScan(g, s, Len(s))
  BY ScanExists
<1>2. Scanned(s) = CHOOSE h : IsScan(h, s, Len(s))
  BY DEF Scanned, IsScan
<1>3. IsScan(Scanned(s), s, Len(s))
  BY <1>1, <1>2
<1> QED
  BY <1>3 DEF IsScan

Agree(s, t, n) == \A i \in 1..n : s[i] = t[i]

\* What two files have in common is scanned alike.
LEMMA ScannedAlike ==
  ASSUME NEW s, NEW t, Len(s) \in Nat, Len(t) \in Nat,
         NEW n \in Nat, n <= Len(s), n <= Len(t), Agree(s, t, n)
  PROVE  \A i \in 0..n : Scanned(s)[i] = Scanned(t)[i]
<1> DEFINE T == {i \in 0..n : Scanned(s)[i] # Scanned(t)[i]}
<1> SUFFICES ASSUME T # {} PROVE FALSE
  OBVIOUS
<1>1. T \in SUBSET Nat
  OBVIOUS
<1>2. PICK x \in T : \A y \in T : x <= y
  BY <1>1, Least
<1>3. x \in 0..n /\ Scanned(s)[x] # Scanned(t)[x]
  OBVIOUS
<1>4. x # 0
  BY <1>3, ScannedIs
<1>5. x - 1 \in 0..n /\ x - 1 \notin T /\ x \in 1..n /\ x \in 1..Len(s) /\ x \in 1..Len(t)
  BY <1>2, <1>3, <1>4
<1>6. Scanned(s)[x - 1] = Scanned(t)[x - 1]
  BY <1>5
<1>7. /\ Scanned(s)[x] = ReadPiece(Scanned(s)[x - 1], s[x])
      /\ Scanned(t)[x] = ReadPiece(Scanned(t)[x - 1], t[x])
  BY <1>5, ScannedIs
<1> QED
  BY <1>3, <1>5, <1>6, <1>7 DEF Agree

--------------------------------------------------------------------------------
\* Event log: the steps of Replay

Accs == [state : States, applied : Seq(Events), line : Seq(Pieces), failed : BOOLEAN]

\* The kinds of pieces are told apart.
LEMMA PieceFacts ==
  /\ \A e \in Events : /\ Whole(e) \in Pieces /\ Torn(e) \in Pieces
                       /\ Whole(e) # Newline /\ Torn(e) # Newline
                       /\ Whole(e).kind = "whole" /\ Whole(e).event = e
  /\ Newline \in Pieces
  /\ \A p \in Pieces : p # Newline /\ p.kind = "whole" => p.event \in Events /\ p = Whole(p.event)
  /\ \A p \in Pieces : p.kind = "whole" => p # Newline
<1>1. \A e \in Events : Whole(e).kind = "whole" /\ Whole(e).event = e /\ Torn(e).kind = "torn"
  BY DEF Whole, Torn
<1>2. Newline.kind = "newline"
  BY DEF Newline
<1> QED
  BY <1>1, <1>2 DEF Pieces

\* Applying an event gives one state, or none.
LEMMA ApplyFacts ==
  ASSUME NEW st \in States, NEW e \in Events
  PROVE  /\ Apply(st, EventOf[e]) \subseteq States
         /\ \A x, y \in Apply(st, EventOf[e]) : x = y
<1> DEFINE v == EventOf[e]
<1>1. v \in Contents
  BY EventAssumption
<1> HIDE DEF v
<1>2. v.id \in Ids /\ v.key \in Keys \cup {None} /\ v.status \in {"PENDING", "SUCCEEDED"}
  BY <1>1 DEF Contents
<1>3. Put(st, v) \in States
  BY <1>2 DEF Put, States
<1>4. /\ [st EXCEPT !.payment[v.id] = "CANCELLED"] \in States
      /\ [st EXCEPT !.active[v.id] = IF v.active THEN "on" ELSE "off"] \in States
      /\ [st EXCEPT !.active[v.id] = "on"] \in States
      /\ [st EXCEPT !.active[v.id] = "off"] \in States
  BY <1>2 DEF States
<1>5. ASSUME NEW w \in {"on", "off"}
      PROVE  ApplyWebhookSubscriptionSwitched(st, v, w) \in
               {{}, {[st EXCEPT !.active[v.id] = w]}}
  BY DEF ApplyWebhookSubscriptionSwitched
<1>6. Apply(st, v) \in {{}, ApplyPaymentCreated(st, v), ApplyPaymentCancelled(st, v),
                        ApplyWebhookSubscriptionCreated(st, v),
                        ApplyWebhookSubscriptionSwitched(st, v, "on"),
                        ApplyWebhookSubscriptionSwitched(st, v, "off")}
  BY <1>1 DEF Apply, Contents, EventTypes
<1>7. /\ ApplyPaymentCreated(st, v) \in {{}, {Put(st, v)}}
      /\ ApplyPaymentCancelled(st, v) \in {{}, {[st EXCEPT !.payment[v.id] = "CANCELLED"]}}
      /\ ApplyWebhookSubscriptionCreated(st, v) \in
           {{}, {[st EXCEPT !.active[v.id] = IF v.active THEN "on" ELSE "off"]}}
  BY DEF ApplyPaymentCreated, ApplyPaymentCancelled, ApplyWebhookSubscriptionCreated
<1>8. \E x \in States : Apply(st, v) \in {{}, {x}}
  <2>1. Apply(st, v) = {} \/ \E x \in States : Apply(st, v) = {x}
    BY <1>3, <1>4, <1>5, <1>6, <1>7
  <2> QED
    BY <1>3, <2>1
<1> QED
  BY <1>8 DEF v

\* A line that is a readable event which the state accepts.
Readable(acc) ==
  /\ Len(acc.line) = 1 /\ acc.line[1].kind = "whole" /\ acc.line[1].event \notin LongEvents
  /\ Apply(acc.state, EventOf[acc.line[1].event]) # {}

\* What the end of a line makes of a scanner that has not failed.
LEMMA EndLineIs ==
  ASSUME NEW acc \in Accs
  PROVE  /\ acc.failed \/ acc.line = <<>> => EndLine(acc) = acc
         /\ ~acc.failed /\ acc.line # <<>> /\ ~Readable(acc) =>
              EndLine(acc) = [acc EXCEPT !.failed = TRUE]
         /\ ~acc.failed /\ acc.line # <<>> /\ Readable(acc) =>
              /\ acc.line[1].event \in Events
              /\ EndLine(acc) =
                   [acc EXCEPT
                      !.state = CHOOSE st \in Apply(acc.state, EventOf[acc.line[1].event]) : TRUE,
                      !.applied = Append(acc.applied, acc.line[1].event),
                      !.line = <<>>]
<1>1. acc.failed \/ acc.line = <<>> => EndLine(acc) = acc
  BY DEF EndLine
<1>2. ASSUME ~acc.failed, acc.line # <<>>, ~Readable(acc)
      PROVE  EndLine(acc) = [acc EXCEPT !.failed = TRUE]
  BY <1>2 DEF EndLine, Readable
<1>3. ASSUME ~acc.failed, acc.line # <<>>, Readable(acc)
      PROVE  /\ acc.line[1].event \in Events
             /\ EndLine(acc) =
                  [acc EXCEPT
                     !.state = CHOOSE st \in Apply(acc.state, EventOf[acc.line[1].event]) : TRUE,
                     !.applied = Append(acc.applied, acc.line[1].event),
                     !.line = <<>>]
  <2>1. acc.line[1] \in Pieces /\ acc.line[1].kind = "whole"
    BY <1>3 DEF Accs, Readable
  <2>2. acc.line[1].event \in Events
    BY <2>1, PieceFacts
  <2> QED
    BY <1>3, <2>2 DEF EndLine, Readable
<1> QED
  BY <1>1, <1>2, <1>3

\* Replay only ever adds to what it applied, and an error is an error for good.
Grows(acc, new) ==
  /\ new \in Accs
  /\ Len(acc.applied) <= Len(new.applied)
  /\ \A i \in 1..Len(acc.applied) : new.applied[i] = acc.applied[i]
  /\ acc.failed => new.failed

LEMMA EndLineGrows == ASSUME NEW acc \in Accs PROVE Grows(acc, EndLine(acc))
<1>1. /\ acc.state \in States /\ acc.applied \in Seq(Events) /\ acc.line \in Seq(Pieces)
      /\ acc.failed \in BOOLEAN /\ Len(acc.applied) \in Nat
  BY DEF Accs
<1>2. CASE acc.failed \/ acc.line = <<>>
  <2>1. EndLine(acc) = acc
    BY <1>2, EndLineIs
  <2>2. Grows(acc, acc)
    BY <1>1 DEF Grows
  <2> QED
    BY <2>1, <2>2
<1>3. CASE ~acc.failed /\ acc.line # <<>> /\ ~Readable(acc)
  <2> DEFINE new == [acc EXCEPT !.failed = TRUE]
  <2>1. EndLine(acc) = new
    BY <1>3, EndLineIs
  <2>2. new \in Accs /\ new.applied = acc.applied /\ new.failed
    BY DEF Accs
  <2> QED
    BY <1>1, <2>1, <2>2 DEF Grows
<1>4. CASE ~acc.failed /\ acc.line # <<>> /\ Readable(acc)
  <2> DEFINE e == acc.line[1].event
             st == CHOOSE x \in Apply(acc.state, EventOf[e]) : TRUE
             new == [acc EXCEPT !.state = st, !.applied = Append(acc.applied, e), !.line = <<>>]
  <2>1. EndLine(acc) = new /\ e \in Events
    BY <1>4, EndLineIs
  <2>2. st \in States
    BY <1>1, <1>4, <2>1, ApplyFacts DEF Readable
  <2> HIDE DEF e, st
  <2>3. Append(acc.applied, e) \in Seq(Events) /\ <<>> \in Seq(Pieces)
    BY <1>1, <2>1
  <2>4. new \in Accs /\ new.applied = Append(acc.applied, e)
    BY <2>2, <2>3 DEF Accs
  <2> HIDE DEF new
  <2> QED
    BY <1>1, <1>4, <2>1, <2>4 DEF Grows
<1> QED
  BY <1>2, <1>3, <1>4

LEMMA ReadPieceIs ==
  ASSUME NEW acc \in Accs, NEW p \in Pieces
  PROVE  /\ p = Newline => ReadPiece(acc, p) = EndLine(acc)
         /\ p # Newline /\ acc.failed => ReadPiece(acc, p) = acc
         /\ p # Newline /\ ~acc.failed =>
              ReadPiece(acc, p) = [acc EXCEPT !.line = Append(acc.line, p)]
  BY DEF ReadPiece, Accs

LEMMA ReadPieceGrows ==
  ASSUME NEW acc \in Accs, NEW p \in Pieces PROVE Grows(acc, ReadPiece(acc, p))
<1>1. /\ acc.applied \in Seq(Events) /\ acc.line \in Seq(Pieces) /\ Len(acc.applied) \in Nat
  BY DEF Accs
<1>2. CASE p = Newline
  BY <1>2, ReadPieceIs, EndLineGrows
<1>3. CASE p # Newline /\ acc.failed
  BY <1>1, <1>3, ReadPieceIs DEF Grows
<1>4. CASE p # Newline /\ ~acc.failed
  <2> DEFINE new == [acc EXCEPT !.line = Append(acc.line, p)]
  <2>1. ReadPiece(acc, p) = new
    BY <1>4, ReadPieceIs
  <2>2. Append(acc.line, p) \in Seq(Pieces)
    BY <1>1
  <2>3. new \in Accs /\ new.applied = acc.applied /\ new.failed = acc.failed
    BY <2>2 DEF Accs
  <2> HIDE DEF new
  <2> QED
    BY <1>1, <2>1, <2>3 DEF Grows
<1> QED
  BY <1>2, <1>3, <1>4

LEMMA StartIsAcc == Start \in Accs
<1>1. NewStore \in States
  BY DEF NewStore, States
<1> QED
  BY <1>1 DEF Start, Accs

--------------------------------------------------------------------------------
\* Event log: the inductive invariant

\* A scan read event e, or failed.
Accounts(acc, e) == acc.failed \/ \E j \in 1..Len(acc.applied) : acc.applied[j] = e

At(n) == Scanned(file)[n]
End == At(Len(file))

\* Scanning never leaves its types, wherever it is stopped.
ScansOK == \A n \in 0..Len(file) : At(n) \in Accs

\* The line that Append is writing ends with its event; once the newline is there,
\* the event is read or nothing is.
WritingOK ==
  /\ pc = "newline" => End.failed \/ (Len(End.line) > 0 /\ End.line[Len(End.line)] = Whole(cur))
  /\ pc = "sync" => Accounts(End, cur)

\* Wherever a stop may cut the file, no acknowledged event is passed over ...
AckedOK ==
  \A n \in synced..Len(file) : \A i \in 1..Len(acked) : Accounts(At(n), acked[i])

\* ... and those acknowledged before the first damage come first, in their order.
Marks == IF damage = {} THEN {Len(acked)} ELSE damage

EarlierOK ==
  \A k \in Marks : \A n \in synced..Len(file) :
    k <= Len(At(n).applied) /\ \A i \in 1..k : At(n).applied[i] = acked[i]

Result(st, applied, line) == [state |-> st, applied |-> applied, line |-> line, failed |-> FALSE]

\* Without damage the file is what was acknowledged and synced, and the line of the
\* append under way; the synced part replays to the state of the caller.
CleanOK ==
  damage = {} =>
    /\ At(synced) = Result(state, acked, <<>>)
    /\ pc \in {"idle", "data", "down"} => Len(file) = synced
    /\ pc \in {"data", "newline", "sync"} => Apply(state, EventOf[cur]) # {}
    /\ pc \in {"newline", "sync"} => cur \notin LongEvents
    /\ pc = "newline" => End = Result(state, acked, <<Whole(cur)>>)
    /\ pc = "sync" => End = Result(CHOOSE st \in Apply(state, EventOf[cur]) : TRUE,
                                   Append(acked, cur), <<>>)

LogInv == LogTypeOK /\ ScansOK /\ WritingOK /\ AckedOK /\ EarlierOK /\ CleanOK

--------------------------------------------------------------------------------
\* Event log: the steps

LEMMA LogTypes ==
  ASSUME LogInv
  PROVE  /\ file \in Seq(Pieces) /\ Len(file) \in Nat /\ synced \in Nat /\ synced <= Len(file)
         /\ acked \in Seq(Events) /\ Len(acked) \in Nat
         /\ cur \in Events /\ state \in States /\ appends \in Nat
         /\ damage \in {{}} \cup {{n} : n \in 0..Len(acked)}
         /\ Marks \in {{n} : n \in 0..Len(acked)}
         /\ \A n \in 0..Len(file) : At(n) \in Accs
         /\ \A n \in synced..Len(file) : n \in 0..Len(file)
<1>1. /\ file \in Seq(Pieces) /\ synced \in 0..Len(file) /\ acked \in Seq(Events)
      /\ cur \in Events /\ state \in States /\ appends \in Nat
      /\ damage \in {{}} \cup {{n} : n \in 0..Len(acked)}
  BY DEF LogInv, LogTypeOK
<1>2. Len(file) \in Nat /\ Len(acked) \in Nat
  BY <1>1
<1>3. Marks \in {{n} : n \in 0..Len(acked)}
  BY <1>1, <1>2 DEF Marks
<1> QED
  BY <1>1, <1>2, <1>3 DEF LogInv, ScansOK

\* What holds of a scan holds of what it grows to.
LEMMA GrownKeeps ==
  ASSUME NEW acc \in Accs, NEW new, Grows(acc, new)
  PROVE  /\ Len(acc.applied) \in Nat /\ Len(new.applied) \in Nat
         /\ \A e : Accounts(acc, e) => Accounts(new, e)
         /\ \A k \in Nat : k <= Len(acc.applied) =>
              k <= Len(new.applied) /\ \A i \in 1..k : new.applied[i] = acc.applied[i]
<1>1. Len(acc.applied) \in Nat /\ Len(new.applied) \in Nat
  BY DEF Accs, Grows
<1>2. ASSUME NEW e, Accounts(acc, e) PROVE Accounts(new, e)
  BY <1>1, <1>2 DEF Accounts, Grows
<1> QED
  BY <1>1, <1>2 DEF Grows

\* The file is cut off after m pieces, of which no synced one is missing, and one
\* piece follows.
LEMMA Extended ==
  ASSUME LogInv, NEW m \in synced..Len(file), NEW p \in Pieces,
         file' = Append(SubSeq(file, 1, m), p), synced' = synced, acked' = acked, Marks' = Marks
  PROVE  /\ file' \in Seq(Pieces) /\ Len(file') = m + 1
         /\ \A n \in 0..m : Scanned(file')[n] = At(n)
         /\ Scanned(file')[m + 1] = ReadPiece(At(m), p)
         /\ ScansOK' /\ AckedOK' /\ EarlierOK'
<1>1. /\ file \in Seq(Pieces) /\ Len(file) \in Nat /\ synced \in Nat /\ m \in Nat /\ m <= Len(file)
      /\ acked \in Seq(Events) /\ Len(acked) \in Nat /\ m \in 0..Len(file)
      /\ \A n \in 0..Len(file) : At(n) \in Accs
  BY LogTypes
<1>2. /\ SubSeq(file, 1, m) \in Seq(Pieces) /\ Len(SubSeq(file, 1, m)) = m
      /\ \A i \in 1..m : SubSeq(file, 1, m)[i] = file[i]
  BY <1>1
<1>3. /\ file' \in Seq(Pieces) /\ Len(file') = m + 1 /\ file'[m + 1] = p
      /\ \A i \in 1..m : file'[i] = file[i]
  BY <1>1, <1>2
<1>4. \A n \in 0..m : Scanned(file')[n] = Scanned(file)[n]
  <2>1. Len(file') \in Nat /\ m <= Len(file') /\ m <= Len(file)
    BY <1>1, <1>3
  <2>2. Agree(file', file, m)
    BY <1>3 DEF Agree
  <2> QED
    BY <1>1, <2>1, <2>2, ScannedAlike
<1>5. Scanned(file')[m + 1] = ReadPiece(At(m), p)
  <2>1. m + 1 \in 1..Len(file') /\ (m + 1) - 1 = m /\ Len(file') \in Nat
    BY <1>1, <1>3
  <2>2. Scanned(file')[m + 1] = ReadPiece(Scanned(file')[m], file'[m + 1])
    BY <2>1, ScannedIs
  <2>3. m \in 0..m
    BY <1>1
  <2> QED
    BY <1>3, <1>4, <2>2, <2>3 DEF At
<1>6. Grows(At(m), Scanned(file')[m + 1])
  BY <1>1, <1>5, ReadPieceGrows
<1>7. ScansOK'
  <2> SUFFICES ASSUME NEW n \in 0..(m + 1) PROVE Scanned(file')[n] \in Accs
    BY <1>3 DEF ScansOK, At
  <2>1. CASE n = m + 1
    BY <1>6, <2>1 DEF Grows
  <2>2. CASE n # m + 1
    BY <1>1, <1>4, <2>2 DEF At
  <2> QED
    BY <2>1, <2>2
<1>8. AckedOK'
  <2> SUFFICES ASSUME NEW n \in synced..(m + 1), NEW i \in 1..Len(acked)
               PROVE  Accounts(Scanned(file')[n], acked[i])
    BY <1>3 DEF AckedOK, At
  <2>1. \A l \in synced..m : Accounts(At(l), acked[i])
    BY <1>1 DEF LogInv, AckedOK
  <2>2. CASE n = m + 1
    <3>1. m \in synced..m /\ At(m) \in Accs
      BY <1>1
    <3> QED
      BY <1>6, <2>1, <2>2, <3>1, GrownKeeps
  <2>3. CASE n # m + 1
    <3>1. n \in synced..m /\ n \in 0..m
      BY <1>1, <2>3
    <3>2. Scanned(file')[n] = At(n)
      BY <1>4, <3>1 DEF At
    <3> QED
      BY <2>1, <3>1, <3>2
  <2> QED
    BY <2>2, <2>3
<1>9. EarlierOK'
  <2> SUFFICES ASSUME NEW k \in Marks, NEW n \in synced..(m + 1)
               PROVE  /\ k <= Len(Scanned(file')[n].applied)
                      /\ \A i \in 1..k : Scanned(file')[n].applied[i] = acked[i]
    BY <1>3 DEF EarlierOK, At
  <2>1. \A l \in synced..m : /\ k <= Len(At(l).applied)
                             /\ \A i \in 1..k : At(l).applied[i] = acked[i]
    BY <1>1 DEF LogInv, EarlierOK
  <2>2. k \in Nat
    BY LogTypes
  <2>3. CASE n = m + 1
    BY <1>1, <1>6, <2>1, <2>2, <2>3, GrownKeeps
  <2>4. CASE n # m + 1
    <3>1. n \in synced..m /\ n \in 0..m
      BY <1>1, <2>4
    <3>2. Scanned(file')[n] = At(n)
      BY <1>4, <3>1 DEF At
    <3> QED
      BY <2>1, <3>1, <3>2
  <2> QED
    BY <2>3, <2>4
<1> QED
  BY <1>3, <1>4, <1>5, <1>7, <1>8, <1>9 DEF At

\* The same without a piece that follows.
LEMMA CutOff ==
  ASSUME LogInv, NEW m \in synced..Len(file), file' = SubSeq(file, 1, m),
         synced' = synced, acked' = acked, Marks' = Marks
  PROVE  /\ file' \in Seq(Pieces) /\ Len(file') = m
         /\ ScansOK' /\ AckedOK' /\ EarlierOK'
<1>1. /\ file \in Seq(Pieces) /\ Len(file) \in Nat /\ synced \in Nat /\ m \in Nat /\ m <= Len(file)
      /\ acked \in Seq(Events) /\ Len(acked) \in Nat /\ m \in 0..Len(file)
      /\ \A n \in 0..Len(file) : At(n) \in Accs
  BY LogTypes
<1>2. /\ file' \in Seq(Pieces) /\ Len(file') = m /\ \A i \in 1..m : file'[i] = file[i]
  BY <1>1
<1>3. \A n \in 0..m : Scanned(file')[n] = At(n)
  <2>1. Len(file') \in Nat /\ m <= Len(file') /\ m <= Len(file)
    BY <1>1, <1>2
  <2>2. Agree(file', file, m)
    BY <1>2 DEF Agree
  <2>3. \A n \in 0..m : Scanned(file')[n] = Scanned(file)[n]
    BY <1>1, <1>2, <2>1, <2>2, ScannedAlike
  <2> QED
    BY <2>3 DEF At
<1>4. ScansOK'
  BY <1>1, <1>2, <1>3 DEF ScansOK, At
<1>5. AckedOK'
  <2> SUFFICES ASSUME NEW n \in synced..m, NEW i \in 1..Len(acked)
               PROVE  Accounts(Scanned(file')[n], acked[i])
    BY <1>2 DEF AckedOK, At
  <2>1. Accounts(At(n), acked[i])
    BY <1>1 DEF LogInv, AckedOK
  <2> QED
    BY <1>1, <1>3, <2>1
<1>6. EarlierOK'
  <2> SUFFICES ASSUME NEW k \in Marks, NEW n \in synced..m
               PROVE  /\ k <= Len(Scanned(file')[n].applied)
                      /\ \A i \in 1..k : Scanned(file')[n].applied[i] = acked[i]
    BY <1>2 DEF EarlierOK, At
  <2>1. k <= Len(At(n).applied) /\ \A i \in 1..k : At(n).applied[i] = acked[i]
    BY <1>1 DEF LogInv, EarlierOK
  <2> QED
    BY <1>1, <1>3, <2>1
<1> QED
  BY <1>2, <1>4, <1>5, <1>6

\* The file grows by a piece.
LEMMA Appended ==
  ASSUME LogInv, NEW p \in Pieces,
         file' = Append(file, p), synced' = synced, acked' = acked, Marks' = Marks
  PROVE  /\ file' \in Seq(Pieces) /\ Len(file') = Len(file) + 1
         /\ End' = ReadPiece(End, p) /\ At(synced)' = At(synced)
         /\ ScansOK' /\ AckedOK' /\ EarlierOK'
<1>1. /\ file \in Seq(Pieces) /\ Len(file) \in Nat /\ synced \in Nat /\ synced <= Len(file)
  BY LogTypes
<1>2. file = SubSeq(file, 1, Len(file)) /\ Len(file) \in synced..Len(file)
  BY <1>1
<1>3. file' = Append(SubSeq(file, 1, Len(file)), p)
  BY <1>2
<1>4. /\ file' \in Seq(Pieces) /\ Len(file') = Len(file) + 1
      /\ \A n \in 0..Len(file) : Scanned(file')[n] = At(n)
      /\ Scanned(file')[Len(file) + 1] = ReadPiece(At(Len(file)), p)
      /\ ScansOK' /\ AckedOK' /\ EarlierOK'
  <2>1. PICK m \in synced..Len(file) : m = Len(file)
    BY <1>2
  <2> QED
    BY <1>3, <2>1, Extended
<1> QED
  BY <1>1, <1>4 DEF End, At

\* Damage keeps its mark.
LEMMA DamagedMarks == ASSUME LogInv, Damaged, acked' = acked PROVE Marks' = Marks /\ damage' = Marks
  BY DEF Damaged, Marks

\* The invariant after a step that found or did damage.
LEMMA DamageKeeps ==
  ASSUME LogInv, damage' = Marks, file' \in Seq(Pieces), synced \in 0..Len(file'),
         ScansOK', AckedOK', EarlierOK', pc' \in {"idle", "down"},
         UNCHANGED <<synced, cur, state, acked, appends>>
  PROVE  LogInv'
<1>1. LogTypeOK'
  BY LogTypes DEF LogInv, LogTypeOK
<1>2. CleanOK' /\ WritingOK'
  BY LogTypes DEF CleanOK, WritingOK
<1> QED
  BY <1>1, <1>2 DEF LogInv

\* A scan is its four fields.
LEMMA FourFields ==
  ASSUME NEW S1, NEW S2, NEW S3,
         NEW r \in [state : S1, applied : S2, line : S3, failed : BOOLEAN],
         NEW q \in [state : S1, applied : S2, line : S3, failed : BOOLEAN],
         r.state = q.state, r.applied = q.applied, r.line = q.line, r.failed = q.failed
  PROVE  r = q
  OBVIOUS

LEMMA Fields ==
  ASSUME NEW acc \in Accs, NEW l \in Seq(Pieces), ~acc.failed
  PROVE  [acc EXCEPT !.line = l] = Result(acc.state, acc.applied, l)
<1> DEFINE x == [acc EXCEPT !.line = l]
           v == Result(acc.state, acc.applied, l)
<1>1. acc.failed = FALSE /\ acc.state \in States /\ acc.applied \in Seq(Events)
  BY DEF Accs
<1>2. /\ x \in Accs /\ x.state = acc.state /\ x.applied = acc.applied /\ x.line = l
      /\ x.failed = FALSE
  BY <1>1 DEF Accs
<1>3. /\ v \in Accs /\ v.state = acc.state /\ v.applied = acc.applied /\ v.line = l
      /\ v.failed = FALSE
  BY <1>1 DEF Accs, Result
<1> HIDE DEF x, v
<1>4. x = v
  BY <1>2, <1>3, FourFields DEF Accs
<1> QED
  BY <1>4 DEF x, v

\* The invariant after a step that leaves the file, its synced part and the
\* acknowledged events alone.
LEMMA SameFile ==
  ASSUME LogInv, UNCHANGED <<file, synced, acked>>, Marks' = Marks
  PROVE  /\ ScansOK' /\ AckedOK' /\ EarlierOK'
         /\ End' = End /\ At(synced)' = At(synced)
<1>1. /\ \A n : Scanned(file')[n] = At(n)
      /\ file' = file /\ synced' = synced /\ acked' = acked
  BY DEF At
<1>2. ScansOK /\ AckedOK /\ EarlierOK
  BY DEF LogInv
<1>3. ScansOK'
  BY <1>1, <1>2 DEF ScansOK, At
<1>4. AckedOK'
  <2> SUFFICES ASSUME NEW n \in synced..Len(file), NEW i \in 1..Len(acked)
               PROVE  Accounts(Scanned(file')[n], acked[i])
    BY <1>1 DEF AckedOK, At
  <2>1. Accounts(At(n), acked[i])
    BY <1>2 DEF AckedOK
  <2> QED
    BY <1>1, <2>1
<1>5. EarlierOK'
  BY <1>1, <1>2 DEF EarlierOK, At
<1>6. End' = End /\ At(synced)' = At(synced)
  BY <1>1 DEF End, At
<1> QED
  BY <1>3, <1>4, <1>5, <1>6

LEMMA LogInitOK == ASSUME LogInit PROVE LogInv
<1>1. /\ file = <<>> /\ Len(file) = 0 /\ synced = 0 /\ pc = "idle" /\ cur \in Events
      /\ state = NewStore /\ acked = <<>> /\ Len(acked) = 0 /\ appends = 0 /\ damage = {}
  BY DEF LogInit
<1>2. At(0) = Start
  BY <1>1, ScannedIs DEF At
<1>3. Start \in Accs /\ Start.state \in States /\ Start.applied = <<>>
      /\ Start = Result(NewStore, <<>>, <<>>)
  BY StartIsAcc DEF Accs, Start, Result
<1>4. NewStore \in States
  BY <1>3 DEF Start
<1>5. LogTypeOK
  BY <1>1, <1>4 DEF LogTypeOK
<1>6. ScansOK /\ AckedOK /\ WritingOK
  BY <1>1, <1>2, <1>3 DEF ScansOK, AckedOK, WritingOK
<1>7. EarlierOK
  BY <1>1, <1>2, <1>3 DEF EarlierOK, Marks
<1>8. CleanOK
  BY <1>1, <1>2, <1>3 DEF CleanOK
<1> QED
  BY <1>5, <1>6, <1>7, <1>8 DEF LogInv

LEMMA StepAppendEvent ==
  ASSUME LogInv, NEW e \in Events, AppendEvent(e) PROVE LogInv'
<1>1. /\ pc = "idle" /\ pc' = "data" /\ cur' = e /\ appends' = appends + 1
      /\ UNCHANGED <<file, synced, state, acked, damage>> /\ Apply(state, EventOf[e]) # {}
  BY DEF AppendEvent
<1>2. Marks' = Marks
  BY <1>1 DEF Marks
<1>3. ScansOK' /\ AckedOK' /\ EarlierOK' /\ At(synced)' = At(synced)
  BY <1>1, <1>2, SameFile
<1>4. LogTypeOK'
  BY <1>1, LogTypes DEF LogInv, LogTypeOK
<1>5. WritingOK'
  BY <1>1 DEF WritingOK
<1>6. CleanOK'
  BY <1>1, <1>3 DEF LogInv, CleanOK
<1> QED
  BY <1>3, <1>4, <1>5, <1>6 DEF LogInv

LEMMA StepWriteData == ASSUME LogInv, WriteData PROVE LogInv'
<1>1. /\ pc = "data" /\ pc' = "newline" /\ file' = Append(file, Whole(cur))
      /\ IF cur \in LongEvents THEN Damaged ELSE UNCHANGED damage
      /\ synced' = synced /\ cur' = cur /\ state' = state /\ acked' = acked /\ appends' = appends
  BY DEF WriteData
<1>2. Marks' = Marks /\ (cur \in LongEvents => damage' = Marks)
  BY <1>1, DamagedMarks DEF Marks
<1>3. Whole(cur) \in Pieces /\ Whole(cur) # Newline
  BY LogTypes, PieceFacts
<1>4. /\ file' \in Seq(Pieces) /\ Len(file') = Len(file) + 1
      /\ End' = ReadPiece(End, Whole(cur)) /\ At(synced)' = At(synced)
      /\ ScansOK' /\ AckedOK' /\ EarlierOK'
  BY <1>1, <1>2, <1>3, Appended
<1>5. LogTypeOK'
  <2>1. damage' \in {{}} \cup {{n} : n \in 0..Len(acked)}
    BY <1>1, <1>2, LogTypes
  <2>2. synced \in 0..Len(file')
    BY <1>4, LogTypes
  <2> QED
    BY <1>1, <1>4, <2>1, <2>2, LogTypes DEF LogTypeOK
<1>6. End \in Accs
  <2>1. Len(file) \in 0..Len(file)
    BY LogTypes
  <2> QED
    BY <2>1, LogTypes DEF End
<1>7. /\ End.failed => End' = End
      /\ ~End.failed => End' = [End EXCEPT !.line = Append(End.line, Whole(cur))]
  BY <1>3, <1>4, <1>6, ReadPieceIs
<1>8. WritingOK'
  <2>1. CASE End.failed
    BY <1>1, <1>7, <2>1 DEF WritingOK
  <2>2. CASE ~End.failed
    <3>1. End.line \in Seq(Pieces)
      BY <1>6 DEF Accs
    <3>2. End'.line = Append(End.line, Whole(cur))
      BY <1>6, <1>7, <2>2 DEF Accs
    <3>3. Len(End'.line) > 0 /\ End'.line[Len(End'.line)] = Whole(cur)
      BY <1>3, <3>1, <3>2
    <3> QED
      BY <1>1, <3>3 DEF WritingOK
  <2> QED
    BY <2>1, <2>2
<1>9. CleanOK'
  <2> SUFFICES ASSUME damage' = {} PROVE CleanOK'
    BY DEF CleanOK
  <2>1. cur \notin LongEvents /\ damage = {}
    <3>1. Marks # {}
      BY LogTypes
    <3> QED
      BY <1>1, <1>2, <3>1
  <2>2. /\ At(synced) = Result(state, acked, <<>>) /\ Len(file) = synced
        /\ Apply(state, EventOf[cur]) # {}
    BY <1>1, <2>1 DEF LogInv, CleanOK
  <2>3. End = Result(state, acked, <<>>)
    BY <2>2 DEF End
  <2>4. End.failed = FALSE /\ End.line = <<>> /\ End.state = state /\ End.applied = acked
    BY <2>3 DEF Result
  <2>5. End' = Result(state, acked, <<Whole(cur)>>)
    <3>1. Append(<<>>, Whole(cur)) = <<Whole(cur)>> /\ <<Whole(cur)>> \in Seq(Pieces)
      BY <1>3
    <3>2. [End EXCEPT !.line = <<Whole(cur)>>] = Result(state, acked, <<Whole(cur)>>)
      BY <1>6, <2>4, <3>1, LogTypes, Fields
    <3> QED
      BY <1>7, <2>4, <3>1, <3>2
  <2>6. End' = Result(state', acked', <<Whole(cur')>>) /\ At(synced)' = Result(state', acked', <<>>)
    BY <1>1, <1>4, <2>2, <2>5
  <2> QED
    BY <1>1, <2>1, <2>2, <2>6 DEF CleanOK
<1> QED
  BY <1>4, <1>5, <1>8, <1>9 DEF LogInv

\* What Failed does when the file keeps its length or grew.
LEMMA StepFailed ==
  ASSUME LogInv, Failed, file' = file \/ \E p \in Pieces : file' = Append(file, p)
  PROVE  LogInv'
<1>1. pc' = "idle" /\ UNCHANGED <<synced, cur, state, acked, appends>> /\ Damaged
  BY DEF Failed
<1>2. Marks' = Marks /\ damage' = Marks
  BY <1>1, DamagedMarks
<1>3. /\ file' \in Seq(Pieces) /\ synced \in 0..Len(file')
      /\ ScansOK' /\ AckedOK' /\ EarlierOK'
  <2>1. CASE file' = file
    BY <1>1, <1>2, <2>1, SameFile, LogTypes
  <2>2. ASSUME NEW p \in Pieces, file' = Append(file, p)
        PROVE  /\ file' \in Seq(Pieces) /\ synced \in 0..Len(file')
               /\ ScansOK' /\ AckedOK' /\ EarlierOK'
    BY <1>1, <1>2, <2>2, Appended, LogTypes
  <2> QED
    BY <2>1, <2>2
<1> QED
  BY <1>1, <1>2, <1>3, DamageKeeps

LEMMA StepsFail ==
  ASSUME LogInv, WriteDataFails \/ WriteNewlineFails \/ SyncFails PROVE LogInv'
<1>1. Torn(cur) \in Pieces
  BY LogTypes, PieceFacts
<1>2. CASE WriteDataFails
  BY <1>1, <1>2, StepFailed DEF WriteDataFails
<1>3. CASE WriteNewlineFails
  BY <1>3, StepFailed DEF WriteNewlineFails
<1>4. CASE SyncFails
  BY <1>4, StepFailed DEF SyncFails
<1> QED
  BY <1>2, <1>3, <1>4

LEMMA EndIsAcc == ASSUME LogInv PROVE End \in Accs
<1>1. Len(file) \in 0..Len(file)
  BY LogTypes
<1> QED
  BY <1>1, LogTypes DEF End

\* The end of a line whose last piece is a whole event reads the event or fails.
LEMMA EndLineAccounts ==
  ASSUME NEW acc \in Accs, NEW e \in Events,
         acc.failed \/ (Len(acc.line) > 0 /\ acc.line[Len(acc.line)] = Whole(e))
  PROVE  Accounts(EndLine(acc), e)
<1>1. CASE acc.failed
  BY <1>1, EndLineIs DEF Accounts
<1>2. CASE ~acc.failed
  <2>1. acc.line # <<>> /\ acc.applied \in Seq(Events)
    BY <1>2 DEF Accs
  <2>2. CASE ~Readable(acc)
    <3>1. EndLine(acc) = [acc EXCEPT !.failed = TRUE]
      BY <1>2, <2>1, <2>2, EndLineIs
    <3>2. EndLine(acc).failed
      BY <3>1 DEF Accs
    <3> QED
      BY <3>2 DEF Accounts
  <2>3. CASE Readable(acc)
    <3>1. acc.line[1] = Whole(e)
      BY <1>2, <2>3 DEF Readable
    <3>2. acc.line[1].event = e
      BY <3>1, PieceFacts
    <3> DEFINE st == CHOOSE x \in Apply(acc.state, EventOf[acc.line[1].event]) : TRUE
    <3>3. EndLine(acc) = [acc EXCEPT !.state = st,
                                     !.applied = Append(acc.applied, acc.line[1].event),
                                     !.line = <<>>]
      BY <1>2, <2>1, <2>3, EndLineIs
    <3> HIDE DEF st
    <3>4. EndLine(acc).applied = Append(acc.applied, e)
      BY <3>2, <3>3 DEF Accs
    <3>5. /\ Len(acc.applied) + 1 \in 1..Len(Append(acc.applied, e))
          /\ Append(acc.applied, e)[Len(acc.applied) + 1] = e
      BY <2>1
    <3> QED
      BY <3>4, <3>5 DEF Accounts
  <2> QED
    BY <2>2, <2>3
<1> QED
  BY <1>1, <1>2

\* The end of a line that is one readable event.
LEMMA EndLineReads ==
  ASSUME NEW st \in States, NEW ap \in Seq(Events), NEW e \in Events,
         e \notin LongEvents, Apply(st, EventOf[e]) # {}
  PROVE  EndLine(Result(st, ap, <<Whole(e)>>))
           = Result(CHOOSE x \in Apply(st, EventOf[e]) : TRUE, Append(ap, e), <<>>)
<1> DEFINE acc == Result(st, ap, <<Whole(e)>>)
           new == CHOOSE x \in Apply(st, EventOf[e]) : TRUE
<1>1. Whole(e) \in Pieces /\ Whole(e).kind = "whole" /\ Whole(e).event = e
  BY PieceFacts
<1>2. /\ acc \in Accs /\ acc.failed = FALSE /\ acc.state = st /\ acc.applied = ap
      /\ acc.line = <<Whole(e)>>
  BY <1>1 DEF Accs, Result
<1> HIDE DEF acc
<1>3. new \in States
  BY ApplyFacts
<1>4. /\ acc.line # <<>> /\ acc.line[1].event = e /\ Len(acc.line) = 1
      /\ acc.line[1].kind = "whole"
  BY <1>1, <1>2
<1>5. Readable(acc)
  BY <1>2, <1>4 DEF Readable
<1>6. EndLine(acc) = [acc EXCEPT !.state = new, !.applied = Append(ap, e), !.line = <<>>]
  <2> DEFINE x == CHOOSE y \in Apply(acc.state, EventOf[acc.line[1].event]) : TRUE
  <2>1. EndLine(acc) = [acc EXCEPT !.state = x,
                                   !.applied = Append(acc.applied, acc.line[1].event),
                                   !.line = <<>>]
    BY <1>2, <1>4, <1>5, EndLineIs
  <2>2. x = new
    BY <1>2, <1>4
  <2> QED
    BY <1>2, <1>4, <2>1, <2>2, Zenon
<1>7. Append(ap, e) \in Seq(Events) /\ <<>> \in Seq(Pieces)
  OBVIOUS
<1> HIDE DEF new
<1>8. EndLine(acc) = Result(new, Append(ap, e), <<>>)
  <2> DEFINE x == [acc EXCEPT !.state = new, !.applied = Append(ap, e), !.line = <<>>]
             v == Result(new, Append(ap, e), <<>>)
  <2>1. /\ x \in Accs /\ x.state = new /\ x.applied = Append(ap, e) /\ x.line = <<>>
        /\ x.failed = FALSE
    BY <1>2, <1>3, <1>7 DEF Accs
  <2>2. /\ v \in Accs /\ v.state = new /\ v.applied = Append(ap, e) /\ v.line = <<>>
        /\ v.failed = FALSE
    BY <1>3, <1>7 DEF Accs, Result
  <2> HIDE DEF x, v
  <2>3. x = v
    BY <2>1, <2>2, FourFields DEF Accs
  <2> QED
    BY <1>6, <2>3 DEF x, v
<1> QED
  BY <1>8 DEF acc, new

LEMMA StepWriteNewline == ASSUME LogInv, WriteNewline PROVE LogInv'
<1>1. /\ pc = "newline" /\ pc' = "sync" /\ file' = Append(file, Newline)
      /\ synced' = synced /\ cur' = cur /\ state' = state /\ acked' = acked
      /\ appends' = appends /\ damage' = damage
  BY DEF WriteNewline
<1>2. Marks' = Marks /\ Newline \in Pieces
  BY <1>1, PieceFacts DEF Marks
<1>3. /\ file' \in Seq(Pieces) /\ Len(file') = Len(file) + 1
      /\ End' = ReadPiece(End, Newline) /\ At(synced)' = At(synced)
      /\ ScansOK' /\ AckedOK' /\ EarlierOK'
  BY <1>1, <1>2, Appended
<1>4. End' = EndLine(End) /\ End \in Accs
  BY <1>2, <1>3, EndIsAcc, ReadPieceIs
<1>5. LogTypeOK'
  BY <1>1, <1>3, LogTypes DEF LogTypeOK
<1>6. WritingOK'
  <2>1. End.failed \/ (Len(End.line) > 0 /\ End.line[Len(End.line)] = Whole(cur))
    BY <1>1 DEF LogInv, WritingOK
  <2>2. Accounts(EndLine(End), cur)
    BY <1>4, <2>1, EndLineAccounts, LogTypes
  <2>3. Accounts(End', cur')
    BY <1>1, <1>4, <2>2
  <2> QED
    BY <1>1, <2>3 DEF WritingOK
<1>7. CleanOK'
  <2> SUFFICES ASSUME damage' = {} PROVE CleanOK'
    BY DEF CleanOK
  <2>1. /\ At(synced) = Result(state, acked, <<>>) /\ Apply(state, EventOf[cur]) # {}
        /\ cur \notin LongEvents /\ End = Result(state, acked, <<Whole(cur)>>)
    BY <1>1 DEF LogInv, CleanOK
  <2>2. EndLine(End) = Result(CHOOSE st \in Apply(state, EventOf[cur]) : TRUE,
                              Append(acked, cur), <<>>)
    BY <2>1, EndLineReads, LogTypes
  <2>3. /\ End' = Result(CHOOSE st \in Apply(state', EventOf[cur']) : TRUE,
                         Append(acked', cur'), <<>>)
        /\ At(synced)' = Result(state', acked', <<>>)
    BY <1>1, <1>3, <1>4, <2>1, <2>2
  <2> QED
    BY <1>1, <2>1, <2>3 DEF CleanOK
<1> QED
  BY <1>3, <1>5, <1>6, <1>7 DEF LogInv

LEMMA StepSync == ASSUME LogInv, Sync PROVE LogInv'
<1>1. /\ pc = "sync" /\ pc' = "idle" /\ synced' = Len(file) /\ acked' = Append(acked, cur)
      /\ state' \in Apply(state, EventOf[cur])
      /\ file' = file /\ cur' = cur /\ appends' = appends /\ damage' = damage
  BY DEF Sync
<1>2. /\ file \in Seq(Pieces) /\ Len(file) \in Nat /\ acked \in Seq(Events) /\ Len(acked) \in Nat
      /\ cur \in Events /\ state \in States /\ appends \in Nat
      /\ damage \in {{}} \cup {{n} : n \in 0..Len(acked)} /\ synced \in Nat /\ synced <= Len(file)
  BY LogTypes
<1>3. /\ acked' \in Seq(Events) /\ Len(acked') = Len(acked) + 1
      /\ acked'[Len(acked) + 1] = cur /\ \A i \in 1..Len(acked) : acked'[i] = acked[i]
  BY <1>1, <1>2
<1>4. state' \in States
  BY <1>1, <1>2, ApplyFacts
<1>5. LogTypeOK'
  BY <1>1, <1>2, <1>3, <1>4 DEF LogTypeOK
<1>6. \A n : Scanned(file')[n] = At(n)
  BY <1>1 DEF At
<1>7. ScansOK'
  BY <1>1, <1>6 DEF LogInv, ScansOK, At
<1>8. Len(file) \in synced..Len(file) /\ Accounts(End, cur)
  BY <1>1, <1>2 DEF LogInv, WritingOK
<1>9. AckedOK'
  <2> SUFFICES ASSUME NEW n \in Len(file)..Len(file), NEW i \in 1..(Len(acked) + 1)
               PROVE  Accounts(At(n), acked'[i])
    BY <1>1, <1>3, <1>6 DEF AckedOK, At
  <2>1. At(n) = End
    BY <1>2 DEF End
  <2>2. CASE i = Len(acked) + 1
    BY <1>3, <1>8, <2>1, <2>2
  <2>3. CASE i # Len(acked) + 1
    <3>1. i \in 1..Len(acked)
      BY <1>2, <2>3
    <3>2. Accounts(End, acked[i])
      BY <1>8, <3>1 DEF LogInv, AckedOK, End
    <3> QED
      BY <1>3, <2>1, <3>1, <3>2
  <2> QED
    BY <2>2, <2>3
<1>10. damage = {} => End = Result(CHOOSE st \in Apply(state, EventOf[cur]) : TRUE, acked', <<>>)
  BY <1>1 DEF LogInv, CleanOK
<1>11. EarlierOK'
  <2> SUFFICES ASSUME NEW k \in Marks', NEW n \in Len(file)..Len(file)
               PROVE  k <= Len(At(n).applied) /\ \A i \in 1..k : At(n).applied[i] = acked'[i]
    BY <1>1, <1>6 DEF EarlierOK, At
  <2>1. At(n) = End
    BY <1>2 DEF End
  <2>2. CASE damage = {}
    <3>1. k = Len(acked')
      BY <1>1, <2>2 DEF Marks
    <3>2. At(n).applied = acked'
      BY <1>10, <2>1, <2>2 DEF Result
    <3> QED
      BY <1>2, <1>3, <3>1, <3>2
  <2>3. CASE damage # {}
    <3>1. k \in Marks /\ k \in damage
      BY <1>1, <2>3 DEF Marks
    <3>2. k \in 0..Len(acked)
      BY <1>2, <3>1
    <3>3. k <= Len(End.applied) /\ \A i \in 1..k : End.applied[i] = acked[i]
      BY <1>8, <3>1 DEF LogInv, EarlierOK, End
    <3> QED
      BY <1>2, <1>3, <2>1, <3>2, <3>3
  <2> QED
    BY <2>2, <2>3
<1>12. WritingOK'
  BY <1>1 DEF WritingOK
<1>13. CleanOK'
  <2> SUFFICES ASSUME damage' = {} PROVE CleanOK'
    BY DEF CleanOK
  <2>1. state' = CHOOSE st \in Apply(state, EventOf[cur]) : TRUE
    BY <1>1, <1>2, ApplyFacts
  <2>2. End = Result(state', acked', <<>>)
    BY <1>1, <1>10, <2>1
  <2>3. At(synced)' = Result(state', acked', <<>>)
    BY <1>1, <2>2 DEF End, At
  <2> QED
    BY <1>1, <2>3 DEF CleanOK
<1> QED
  BY <1>5, <1>7, <1>9, <1>11, <1>12, <1>13 DEF LogInv

LEMMA StepCrash == ASSUME LogInv, Crash PROVE LogInv'
<1>1. /\ pc # "down" /\ pc' = "down" /\ file' \in Remains
      /\ IF pc = "idle" THEN UNCHANGED damage ELSE Damaged
      /\ synced' = synced /\ cur' = cur /\ state' = state /\ acked' = acked /\ appends' = appends
  BY DEF Crash
<1>2. /\ file \in Seq(Pieces) /\ Len(file) \in Nat /\ synced \in Nat /\ synced <= Len(file)
  BY LogTypes
<1>3. \/ \E m \in synced..Len(file) : file' = SubSeq(file, 1, m)
      \/ \E m \in synced..Len(file), p \in Pieces :
           m < Len(file) /\ file' = Append(SubSeq(file, 1, m), p)
  <2>1. CASE file' \in {SubSeq(file, 1, n) : n \in synced..Len(file)}
    BY <2>1
  <2>2. ASSUME NEW n \in (synced + 1)..Len(file), file[n].kind = "whole",
               file' = Append(SubSeq(file, 1, n - 1), Torn(file[n].event))
        PROVE  \E m \in synced..Len(file), p \in Pieces :
                 m < Len(file) /\ file' = Append(SubSeq(file, 1, m), p)
    <3>1. n - 1 \in synced..Len(file) /\ n - 1 < Len(file) /\ file[n] \in Pieces
      BY <1>2
    <3>2. Torn(file[n].event) \in Pieces
      BY <2>2, <3>1, PieceFacts
    <3> QED
      BY <2>2, <3>1, <3>2
  <2> QED
    BY <1>1, <2>1, <2>2 DEF Remains
<1>4. CASE pc = "idle" /\ damage = {}
  <2>1. Len(file) = synced /\ At(synced) = Result(state, acked, <<>>)
    BY <1>4 DEF LogInv, CleanOK
  <2>2. file' = file
    BY <1>2, <1>3, <2>1
  <2>3. damage' = damage /\ Marks' = Marks
    BY <1>1, <1>4 DEF Marks
  <2>4. /\ ScansOK' /\ AckedOK' /\ EarlierOK' /\ At(synced)' = At(synced)
    BY <1>1, <2>2, <2>3, SameFile
  <2>5. LogTypeOK'
    BY <1>1, <2>2, <2>3, LogTypes DEF LogInv, LogTypeOK
  <2>6. WritingOK' /\ CleanOK'
    BY <1>1, <2>1, <2>2, <2>3, <2>4 DEF WritingOK, CleanOK
  <2> QED
    BY <2>4, <2>5, <2>6 DEF LogInv
<1>5. CASE ~(pc = "idle" /\ damage = {})
  <2>1. Marks' = Marks /\ damage' = Marks
    <3>1. CASE pc = "idle"
      BY <1>1, <1>5, <3>1 DEF Marks
    <3>2. CASE pc # "idle"
      BY <1>1, <3>2, DamagedMarks
    <3> QED
      BY <3>1, <3>2
  <2>2. /\ file' \in Seq(Pieces) /\ synced \in 0..Len(file')
        /\ ScansOK' /\ AckedOK' /\ EarlierOK'
    <3>1. ASSUME NEW m \in synced..Len(file), file' = SubSeq(file, 1, m)
          PROVE  /\ file' \in Seq(Pieces) /\ synced \in 0..Len(file')
                 /\ ScansOK' /\ AckedOK' /\ EarlierOK'
      <4>1. /\ file' \in Seq(Pieces) /\ Len(file') = m
            /\ ScansOK' /\ AckedOK' /\ EarlierOK'
        BY <1>1, <2>1, <3>1, CutOff
      <4> QED
        BY <1>2, <4>1
    <3>2. ASSUME NEW m \in synced..Len(file), NEW p \in Pieces,
                 file' = Append(SubSeq(file, 1, m), p)
          PROVE  /\ file' \in Seq(Pieces) /\ synced \in 0..Len(file')
                 /\ ScansOK' /\ AckedOK' /\ EarlierOK'
      <4>1. /\ file' \in Seq(Pieces) /\ Len(file') = m + 1
            /\ ScansOK' /\ AckedOK' /\ EarlierOK'
        BY <1>1, <2>1, <3>2, Extended
      <4> QED
        BY <1>2, <4>1
    <3> QED
      BY <1>3, <3>1, <3>2
  <2> QED
    BY <1>1, <2>1, <2>2, DamageKeeps
<1> QED
  BY <1>4, <1>5

LEMMA StepClose == ASSUME LogInv, Close PROVE LogInv'
<1>1. /\ pc = "idle" /\ pc' = "down"
      /\ UNCHANGED <<file, synced, cur, state, acked, appends, damage>>
  BY DEF Close
<1>2. Marks' = Marks
  BY <1>1 DEF Marks
<1>3. ScansOK' /\ AckedOK' /\ EarlierOK' /\ At(synced)' = At(synced)
  BY <1>1, <1>2, SameFile
<1>4. LogTypeOK'
  BY <1>1, LogTypes DEF LogInv, LogTypeOK
<1>5. WritingOK' /\ CleanOK'
  BY <1>1, <1>3 DEF LogInv, WritingOK, CleanOK
<1> QED
  BY <1>3, <1>4, <1>5 DEF LogInv

\* Replay is the end of the last line; without damage between two appends that
\* line is blank.
LEMMA ReplayIs ==
  ASSUME LogInv
  PROVE  /\ Replay(file) = EndLine(End) /\ Grows(End, Replay(file))
         /\ damage = {} /\ pc \in {"idle", "down"} => Replay(file) = Result(state, acked, <<>>)
<1>1. Replay(file) = EndLine(End) /\ End \in Accs
  BY EndIsAcc DEF Replay, End, At
<1>2. Grows(End, Replay(file))
  BY <1>1, EndLineGrows
<1>3. ASSUME damage = {}, pc \in {"idle", "down"} PROVE Replay(file) = Result(state, acked, <<>>)
  <2>1. End = Result(state, acked, <<>>)
    BY <1>3 DEF LogInv, CleanOK, End
  <2>2. End.line = <<>>
    BY <2>1 DEF Result
  <2> QED
    BY <1>1, <2>1, <2>2, EndLineIs
<1> QED
  BY <1>1, <1>2, <1>3

LEMMA StepOpen == ASSUME LogInv, Open PROVE LogInv'
<1>1. /\ pc = "down" /\ pc' = "idle" /\ state' = Replay(file).state
      /\ UNCHANGED <<file, synced, cur, acked, appends, damage>>
  BY DEF Open
<1>2. Marks' = Marks
  BY <1>1 DEF Marks
<1>3. ScansOK' /\ AckedOK' /\ EarlierOK' /\ At(synced)' = At(synced)
  BY <1>1, <1>2, SameFile
<1>4. state' \in States
  BY <1>1, ReplayIs DEF Grows, Accs
<1>5. LogTypeOK'
  BY <1>1, <1>4, LogTypes DEF LogInv, LogTypeOK
<1>6. WritingOK'
  BY <1>1 DEF WritingOK
<1>7. CleanOK'
  <2> SUFFICES ASSUME damage' = {} PROVE CleanOK'
    BY DEF CleanOK
  <2>1. At(synced) = Result(state, acked, <<>>) /\ Len(file) = synced
    BY <1>1 DEF LogInv, CleanOK
  <2>2. state' = state
    BY <1>1, ReplayIs DEF Result
  <2> QED
    BY <1>1, <1>3, <2>1, <2>2 DEF CleanOK
<1> QED
  BY <1>3, <1>5, <1>6, <1>7 DEF LogInv

LEMMA LogStutter == ASSUME LogInv, UNCHANGED logVars PROVE LogInv'
<1>1. UNCHANGED <<file, synced, pc, cur, state, acked, appends, damage>>
  BY DEF logVars
<1>2. Marks' = Marks
  BY <1>1 DEF Marks
<1>3. ScansOK' /\ AckedOK' /\ EarlierOK' /\ End' = End /\ At(synced)' = At(synced)
  BY <1>1, <1>2, SameFile
<1>4. LogTypeOK'
  BY <1>1, LogTypes DEF LogInv, LogTypeOK
<1>5. WritingOK'
  BY <1>1, <1>3 DEF LogInv, WritingOK, Accounts
<1>6. CleanOK'
  BY <1>1, <1>3 DEF LogInv, CleanOK
<1> QED
  BY <1>3, <1>4, <1>5, <1>6 DEF LogInv

--------------------------------------------------------------------------------
\* Event log: the theorems

\* The inductive invariant: wherever a stop may cut the file, the scanner's result
\* accounts for the acknowledged events; it is kept by every step of Append, by its
\* failures, by a stop of the process or the machine, and by Replay at the start.
THEOREM LogInvariance == LogSpec => []LogInv
<1>1. LogInit => LogInv
  BY LogInitOK
<1>2. LogInv /\ [LogNext]_logVars => LogInv'
  <2> SUFFICES ASSUME LogInv, [LogNext]_logVars PROVE LogInv'
    OBVIOUS
  <2>1. ASSUME NEW e \in Events, AppendEvent(e) PROVE LogInv'
    BY <2>1, StepAppendEvent
  <2>2. CASE WriteData
    BY <2>2, StepWriteData
  <2>3. CASE WriteDataFails \/ WriteNewlineFails \/ SyncFails
    BY <2>3, StepsFail
  <2>4. CASE WriteNewline
    BY <2>4, StepWriteNewline
  <2>5. CASE Sync
    BY <2>5, StepSync
  <2>6. CASE Crash
    BY <2>6, StepCrash
  <2>7. CASE Close
    BY <2>7, StepClose
  <2>8. CASE Open
    BY <2>8, StepOpen
  <2>9. CASE Unreadable \/ AllDone \/ UNCHANGED logVars
    BY <2>9, LogStutter DEF Unreadable, AllDone
  <2> QED
    BY <2>1, <2>2, <2>3, <2>4, <2>5, <2>6, <2>7, <2>8, <2>9 DEF LogNext
<1> QED
  BY <1>1, <1>2, PTL DEF LogSpec

\* Every variable of the event log keeps its type.
THEOREM LogTypeCorrect == LogSpec => []LogTypeOK
<1>1. LogInv => LogTypeOK
  BY DEF LogInv
<1> QED
  BY <1>1, LogInvariance, PTL

\* While no append has broken off, and no acknowledged line is too long to be read
\* back, Replay of the file gives the acknowledged events in their order and the
\* state that the process has, or had when it stopped.
THEOREM ReplayGivesState == LogSpec => []StateIsReplayed
<1>1. LogInv => StateIsReplayed
  <2> SUFFICES ASSUME LogInv, damage = {}, pc \in {"idle", "down"}
               PROVE  /\ ~Replay(file).failed
                      /\ Replay(file).applied = acked /\ Replay(file).state = state
    BY DEF StateIsReplayed
  <2>1. Replay(file) = Result(state, acked, <<>>)
    BY ReplayIs
  <2> QED
    BY <2>1 DEF Result
<1> QED
  BY <1>1, LogInvariance, PTL

\* Whatever breaks off, and as often as it does, Replay still applies first, in their
\* order, the events that were acknowledged before the first damage.
THEOREM EarlierSurvive == LogSpec => []EarlierEventsSurvive
<1>1. LogInv => EarlierEventsSurvive
  <2> SUFFICES ASSUME LogInv, NEW n \in damage
               PROVE  IsPrefix(SubSeq(acked, 1, n), Replay(file).applied)
    BY DEF EarlierEventsSurvive
  <2>1. n \in Marks /\ n \in 0..Len(acked) /\ acked \in Seq(Events) /\ Len(acked) \in Nat
    BY LogTypes DEF Marks
  <2>2. n <= Len(End.applied) /\ \A i \in 1..n : End.applied[i] = acked[i]
    <3>1. Len(file) \in synced..Len(file)
      BY LogTypes
    <3> QED
      BY <2>1, <3>1 DEF LogInv, EarlierOK, End
  <2>3. n <= Len(Replay(file).applied) /\ \A i \in 1..n : Replay(file).applied[i] = acked[i]
    BY <2>1, <2>2, ReplayIs, EndIsAcc, GrownKeeps
  <2>4. Replay(file).applied \in Seq(Events)
    BY ReplayIs DEF Grows, Accs
  <2>5. /\ SubSeq(acked, 1, n) \in Seq(Events) /\ Len(SubSeq(acked, 1, n)) = n
        /\ \A i \in 1..n : SubSeq(acked, 1, n)[i] = acked[i]
    BY <2>1
  <2> QED
    BY <2>1, <2>3, <2>4, <2>5 DEF IsPrefix
<1> QED
  BY <1>1, LogInvariance, PTL

\* Replay applies every acknowledged event or returns an error, whatever writes
\* failed and wherever a stop cut the file.
THEOREM NothingLostSilently == LogSpec => []NoSilentLoss
<1>1. LogInv => NoSilentLoss
  <2> SUFFICES ASSUME LogInv PROVE \A n \in 1..Len(acked) : Accounts(Replay(file), acked[n])
    BY DEF NoSilentLoss, Accounts
  <2>1. Len(file) \in synced..Len(file)
    BY LogTypes
  <2>2. \A n \in 1..Len(acked) : Accounts(End, acked[n])
    BY <2>1 DEF LogInv, AckedOK, End
  <2> QED
    BY <2>2, ReplayIs, EndIsAcc, GrownKeeps
<1> QED
  BY <1>1, LogInvariance, PTL

--------------------------------------------------------------------------------
\* Mock provider: the inductive invariant

\* The promise lets a record follow another in one step.
Follows(old, new) ==
  \/ (old = NotFound \/ old.retryable) /\ new \in Records \ {NotFound}
  \/ /\ old.status \in {"PROCESSING", "UNKNOWN"} \/ old.retryable
     /\ new \in Records /\ new.status \in {"SUCCEEDED", "FAILED"}

\* The file is memory with operation o one step further.
AheadBy(o) ==
  /\ disk = [mem EXCEPT ![o] = disk[o]]
  /\ diskBody = [body EXCEPT ![o] = diskBody[o]]
  /\ Follows(mem[o], disk[o])
  /\ mem[o].status # "NOT_FOUND" => diskBody[o] = body[o]

AtMostOneAhead ==
  (disk = mem /\ diskBody = body) \/ \E o \in Operations : AheadBy(o)

MockInv == TypeOK /\ AtMostOneAhead /\ ToldIsKept

--------------------------------------------------------------------------------
\* Mock provider: records

\* A final record is followed by none, and no record is followed by its absence.
LEMMA FinalHasNoFollower ==
  ASSUME NEW old \in Records, NEW new, Follows(old, new)
  PROVE  ~IsFinal(old) /\ new \in Records /\ new.status # "NOT_FOUND"
  BY DEF Follows, IsFinal, Records, NotFound, ProviderStatuses

\* What a mode makes of an operation that is not replayed follows its record.
LEMMA SubmissionFollows ==
  ASSUME NEW old \in Records, ~Replayed(old), NEW m \in Modes
  PROVE  Follows(old, ModeRecord(m)) /\ ModeRecord(m) \in Records
<1>1. ModeRecord(m) \in Records
  BY DEF ModeRecord, Records, ProviderStatuses, Modes
<1>2. ModeRecord(m) # NotFound
  BY DEF ModeRecord, NotFound, Modes
<1>3. old = NotFound \/ old.retryable
  BY DEF Replayed, Records, NotFound, ProviderStatuses
<1> QED
  BY <1>1, <1>2, <1>3 DEF Follows

\* So does what an operator may resolve an operation to.
LEMMA ResolutionFollows ==
  ASSUME NEW old \in Records, NEW new \in Resolutions(old)
  PROVE  Follows(old, new) /\ new \in Records /\ old.status # "NOT_FOUND"
<1>1. old.status # "NOT_FOUND" /\ ~IsFinal(old)
  BY DEF Resolutions
<1>2. new \in Records /\ new.status \in {"SUCCEEDED", "FAILED"}
  <2>1. CASE new = [status |-> "SUCCEEDED", retryable |-> FALSE]
    BY <2>1 DEF Records, ProviderStatuses
  <2>2. CASE new \in [status : {"FAILED"}, retryable : BOOLEAN]
    BY <2>2 DEF Records, ProviderStatuses
  <2> QED
    BY <1>1, <2>1, <2>2 DEF Resolutions
<1>3. old.status \in {"PROCESSING", "UNKNOWN"} \/ old.retryable
  BY <1>1 DEF IsFinal, Records, ProviderStatuses
<1> QED
  BY <1>1, <1>2, <1>3 DEF Follows

\* A final record in memory is the one in the file, and an operation known in
\* memory is known to the file.
LEMMA FinalInFile ==
  ASSUME MockInv, NEW o \in Operations
  PROVE  /\ IsFinal(mem[o]) => disk[o] = mem[o]
         /\ mem[o].status # "NOT_FOUND" =>
              disk[o].status # "NOT_FOUND" /\ diskBody[o] = body[o]
<1> USE DEF MockInv, TypeOK
<1>1. CASE disk = mem /\ diskBody = body
  BY <1>1
<1>2. CASE \E p \in Operations : AheadBy(p)
  <2>1. PICK p \in Operations : AheadBy(p)
    BY <1>2
  <2>2. CASE p = o
    BY <2>1, <2>2, FinalHasNoFollower DEF AheadBy
  <2>3. CASE p # o
    BY <2>1, <2>3 DEF AheadBy
  <2> QED
    BY <2>2, <2>3
<1> QED
  BY <1>1, <1>2 DEF AtMostOneAhead

--------------------------------------------------------------------------------
\* Mock provider: saveLocked

\* Saving a follower of the record in memory keeps the invariant, if nothing is
\* told or the saved record is.
LEMMA SavePreserves ==
  ASSUME MockInv, NEW o \in Operations, NEW new, Follows(mem[o], new),
         NEW b \in Bodies, mem[o].status # "NOT_FOUND" => b = body[o],
         NEW outcome \in SaveOutcomes, SaveLocked(o, new, b, outcome),
         IF outcome = "saved" THEN Tell(o, new) ELSE UNCHANGED told,
         UNCHANGED mode
  PROVE  MockInv'
<1> USE DEF MockInv, TypeOK
<1> DEFINE next == [mem EXCEPT ![o] = new]
           nextBody == [body EXCEPT ![o] = b]
<1>1. mem[o] \in Records /\ new \in Records /\ ~IsFinal(mem[o])
  BY FinalHasNoFollower
<1>2. next \in [Operations -> Records] /\ nextBody \in [Operations -> Bodies]
  BY <1>1
<1>3. TypeOK'
  BY <1>1, <1>2 DEF SaveLocked, Tell
<1>4. AtMostOneAhead'
  <2>1. CASE outcome = "saved"
    BY <2>1 DEF SaveLocked, AtMostOneAhead
  <2>2. CASE outcome = "unchanged"
    BY <2>2 DEF SaveLocked, AtMostOneAhead, AheadBy
  <2>3. CASE outcome = "renamed"
    <3>1. mem' = mem /\ body' = body /\ disk' = next /\ diskBody' = nextBody
      BY <2>3 DEF SaveLocked
    <3>2. next[o] = new /\ nextBody[o] = b
      BY <1>1
    <3>3. AheadBy(o)'
      BY <3>1, <3>2 DEF AheadBy
    <3> QED
      BY <3>3 DEF AtMostOneAhead
  <2> QED
    BY <2>1, <2>2, <2>3 DEF SaveOutcomes
<1>5. ToldIsKept'
  <2> SUFFICES ASSUME NEW p \in Operations, IsFinal(told'[p])
               PROVE  mem'[p] = told'[p] /\ disk'[p] = told'[p]
    BY DEF ToldIsKept
  <2>1. CASE outcome = "saved"
    <3>1. mem' = next /\ disk' = next /\ told' = [told EXCEPT ![o] = new]
      BY <2>1 DEF SaveLocked, Tell
    <3>2. CASE p = o
      BY <3>1, <3>2, <1>1
    <3>3. CASE p # o
      BY <3>1, <3>3, <1>1 DEF ToldIsKept
    <3> QED
      BY <3>2, <3>3
  <2>2. CASE outcome # "saved"
    <3>1. mem' = mem /\ told' = told /\ disk' \in {disk, next}
      BY <2>2 DEF SaveLocked
    <3>2. mem[p] = told[p] /\ disk[p] = told[p]
      BY <3>1 DEF ToldIsKept
    <3>3. p # o
      BY <3>1, <3>2, <1>1
    <3> QED
      BY <3>1, <3>2, <3>3
  <2> QED
    BY <2>1, <2>2
<1> QED
  BY <1>3, <1>4, <1>5

--------------------------------------------------------------------------------
\* Mock provider: the handlers

LEMMA SubmitPreserves ==
  ASSUME MockInv, NEW o \in Operations, NEW b \in Bodies, Submit(o, b)
  PROVE  MockInv'
<1> USE DEF MockInv
<1>1. CASE Unsaved /\ told' = told
  BY <1>1 DEF Submit, Unsaved, TypeOK, AtMostOneAhead, AheadBy, ToldIsKept
<1>2. CASE Unsaved /\ Tell(o, mem[o])
  BY <1>2, FinalInFile DEF Submit, Unsaved, Tell, TypeOK, AtMostOneAhead,
                           AheadBy, ToldIsKept
<1>3. CASE /\ ~Replayed(mem[o])
           /\ mem[o].status = "NOT_FOUND" \/ body[o] = b
           /\ \E outcome \in SaveOutcomes :
                /\ SaveLocked(o, ModeRecord(mode), b, outcome)
                /\ IF outcome = "saved" THEN Tell(o, ModeRecord(mode))
                                        ELSE UNCHANGED told
  <2>1. Follows(mem[o], ModeRecord(mode))
    BY <1>3, SubmissionFollows DEF TypeOK
  <2> QED
    BY <1>3, <2>1, SavePreserves DEF Submit
<1> QED
  BY <1>1, <1>2, <1>3 DEF Submit

LEMMA ResolvePreserves ==
  ASSUME MockInv, NEW o \in Operations, Resolve(o)
  PROVE  MockInv'
<1> USE DEF MockInv
<1>1. PICK new \in Resolutions(mem[o]), outcome \in SaveOutcomes :
        /\ SaveLocked(o, new, body[o], outcome)
        /\ IF outcome = "saved" THEN Tell(o, new) ELSE UNCHANGED told
  BY DEF Resolve
<1>2. Follows(mem[o], new) /\ body[o] \in Bodies
  BY ResolutionFollows DEF TypeOK
<1> QED
  BY <1>1, <1>2, SavePreserves DEF Resolve

\* Reading shows a record of memory; a final one is in the file too.
LEMMA LookupPreserves ==
  ASSUME MockInv, NEW o \in Operations, Lookup(o)
  PROVE  MockInv'
  BY FinalInFile DEF MockInv, Lookup, Unsaved, Tell, TypeOK, AtMostOneAhead,
                     AheadBy, ToldIsKept

LEMMA RestartPreserves ==
  ASSUME MockInv, Restart
  PROVE  MockInv'
<1> USE DEF MockInv
<1>1. TypeOK'
  BY DEF Restart, TypeOK
<1>2. AtMostOneAhead'
  BY DEF Restart, AtMostOneAhead
<1>3. ToldIsKept'
  BY DEF Restart, ToldIsKept
<1> QED
  BY <1>1, <1>2, <1>3

--------------------------------------------------------------------------------
\* Mock provider: the theorems

\* However the server fails to write and restarts, its file is at most one record
\* of one operation ahead of its memory, and a final result it told is kept.
THEOREM MockInvariance == Spec => []MockInv
<1>1. Init => MockInv
  BY DEF Init, MockInv, TypeOK, AtMostOneAhead, ToldIsKept, IsFinal,
         Records, NotFound, ProviderStatuses
<1>2. MockInv /\ [Next]_vars => MockInv'
  <2> SUFFICES ASSUME MockInv, [Next]_vars PROVE MockInv'
    OBVIOUS
  <2>1. ASSUME NEW o \in Operations, NEW b \in Bodies, Submit(o, b) PROVE MockInv'
    BY <2>1, SubmitPreserves
  <2>2. ASSUME NEW o \in Operations, Lookup(o) PROVE MockInv'
    BY <2>2, LookupPreserves
  <2>3. ASSUME NEW o \in Operations, Resolve(o) PROVE MockInv'
    BY <2>3, ResolvePreserves
  <2>4. ASSUME NEW m \in Modes, SetMode(m) PROVE MockInv'
    BY <2>4 DEF SetMode, Unsaved, MockInv, TypeOK, AtMostOneAhead, AheadBy,
                ToldIsKept
  <2>5. CASE Restart
    BY <2>5, RestartPreserves
  <2>6. CASE UNCHANGED vars
    BY <2>6 DEF vars, MockInv, TypeOK, AtMostOneAhead, AheadBy, ToldIsKept
  <2> QED
    BY <2>1, <2>2, <2>3, <2>4, <2>5, <2>6 DEF Next
<1> QED
  BY <1>1, <1>2, PTL DEF Spec

\* Every variable keeps its type.
THEOREM MockTypeCorrect == Spec => []TypeOK
  BY MockInvariance, PTL DEF MockInv

\* The write-ahead order of saveLocked holds after every failure and restart.
THEOREM FileStaysAhead == Spec => []FileIsAhead
<1>1. MockInv => FileIsAhead
  BY FinalInFile DEF FileIsAhead
<1> QED
  BY <1>1, MockInvariance, PTL

\* A final result a client was told is the one every later client is told.
THEOREM ToldStays == Spec => []ToldIsKept
  BY MockInvariance, PTL DEF MockInv

\* What each step does to memory is nothing, or one step of the promise.
LEMMA StepKeepsPromise ==
  ASSUME MockInv, [Next]_vars
  PROVE  mem' = mem \/ \E o \in Operations : /\ mem' = [mem EXCEPT ![o] = mem'[o]]
                                             /\ Follows(mem[o], mem'[o])
<1> USE DEF MockInv, TypeOK
<1>1. ASSUME NEW o \in Operations, NEW b \in Bodies, Submit(o, b), mem' # mem
      PROVE  mem' = [mem EXCEPT ![o] = mem'[o]] /\ Follows(mem[o], mem'[o])
  <2>1. ~Replayed(mem[o]) /\ mem' = [mem EXCEPT ![o] = ModeRecord(mode)]
    BY <1>1 DEF Submit, Unsaved, SaveLocked
  <2> QED
    BY <2>1, SubmissionFollows
<1>2. ASSUME NEW o \in Operations, Resolve(o), mem' # mem
      PROVE  mem' = [mem EXCEPT ![o] = mem'[o]] /\ Follows(mem[o], mem'[o])
  <2>1. PICK new \in Resolutions(mem[o]) : mem' = [mem EXCEPT ![o] = new]
    BY <1>2 DEF Resolve, SaveLocked
  <2> QED
    BY <2>1, ResolutionFollows
<1>3. ASSUME Restart, mem' # mem
      PROVE  \E o \in Operations : mem' = [mem EXCEPT ![o] = mem'[o]] /\ Follows(mem[o], mem'[o])
  BY <1>3 DEF Restart, AtMostOneAhead, AheadBy
<1>4. ASSUME \/ \E o \in Operations : Lookup(o)
             \/ \E m \in Modes : SetMode(m)
             \/ UNCHANGED vars
      PROVE  mem' = mem
  BY <1>4 DEF Lookup, SetMode, Unsaved, vars
<1> QED
  BY <1>1, <1>2, <1>3, <1>4 DEF Next

\* The server refines the promise: with a file that can fail at any write, and
\* restarts at any time, callers see executions and settlements and nothing else.
THEOREM PromiseKept == Spec => KeepsPromise
<1>1. Init => Promise!Init
  BY DEF Init, Promise!Init, NotFound, Promise!NotFound
<1>2. MockInv /\ [Next]_vars => [Promise!Next]_mem
  <2> SUFFICES ASSUME MockInv, [Next]_vars, mem' # mem PROVE Promise!Next
    OBVIOUS
  <2>1. PICK o \in Operations : mem' = [mem EXCEPT ![o] = mem'[o]] /\ Follows(mem[o], mem'[o])
    BY StepKeepsPromise
  <2>2. Records = Promise!Records /\ NotFound = Promise!NotFound
    BY DEF Records, Promise!Records, NotFound, Promise!NotFound,
           ProviderStatuses, Promise!ProviderStatuses
  <2>3. Promise!Execute(o) \/ Promise!Settle(o)
    BY <2>1, <2>2 DEF Follows, Promise!Execute, Promise!Settle, Promise!Executable
  <2> QED
    BY <2>3 DEF Promise!Next
<1> QED
  BY <1>1, <1>2, MockInvariance, PTL DEF Spec, KeepsPromise, Promise!Spec

\* No final result is taken back, and no operation is forgotten.
THEOREM NothingTakenBack == Spec => NeverTakesBack
<1>1. MockInv /\ [Next]_vars =>
        [\A o \in Operations :
           /\ IsFinal(mem[o]) => mem'[o] = mem[o]
           /\ mem[o].status # "NOT_FOUND" => mem'[o].status # "NOT_FOUND"]_vars
  <2> SUFFICES ASSUME MockInv, [Next]_vars, NEW o \in Operations
               PROVE  /\ IsFinal(mem[o]) => mem'[o] = mem[o]
                      /\ mem[o].status # "NOT_FOUND" => mem'[o].status # "NOT_FOUND"
    OBVIOUS
  <2>1. CASE mem' = mem
    BY <2>1
  <2>2. CASE mem' # mem
    <3>1. PICK p \in Operations : mem' = [mem EXCEPT ![p] = mem'[p]] /\ Follows(mem[p], mem'[p])
      BY <2>2, StepKeepsPromise
    <3>2. mem[p] \in Records /\ mem[o] \in Records
      BY DEF MockInv, TypeOK
    <3>3. CASE p = o
      BY <3>1, <3>2, <3>3, FinalHasNoFollower
    <3>4. CASE p # o
      BY <3>1, <3>4 DEF MockInv, TypeOK
    <3> QED
      BY <3>3, <3>4
  <2> QED
    BY <2>1, <2>2
<1> QED
  BY <1>1, MockInvariance, PTL DEF Spec, NeverTakesBack

\* The request an operation was made for is never replaced.
THEOREM BodiesFixed == Spec => BodyIsFixed
<1>1. MockInv /\ [Next]_vars =>
        [\A o \in Operations : mem[o].status # "NOT_FOUND" => body'[o] = body[o]]_vars
  <2> SUFFICES ASSUME MockInv, [Next]_vars, NEW o \in Operations,
                      mem[o].status # "NOT_FOUND"
               PROVE  body'[o] = body[o]
    OBVIOUS
  <2> USE DEF MockInv, TypeOK
  <2>1. ASSUME NEW p \in Operations, NEW b \in Bodies, Submit(p, b) PROVE body'[o] = body[o]
    <3>1. CASE p = o
      BY <2>1, <3>1 DEF Submit, Unsaved, SaveLocked
    <3>2. CASE p # o
      BY <2>1, <3>2 DEF Submit, Unsaved, SaveLocked
    <3> QED
      BY <3>1, <3>2
  <2>2. ASSUME NEW p \in Operations, Resolve(p) PROVE body'[o] = body[o]
    BY <2>2 DEF Resolve, SaveLocked
  <2>3. CASE Restart
    BY <2>3, FinalInFile DEF Restart
  <2>4. ASSUME \/ \E p \in Operations : Lookup(p)
               \/ \E m \in Modes : SetMode(m)
               \/ UNCHANGED vars
        PROVE  body'[o] = body[o]
    BY <2>4 DEF Lookup, SetMode, Unsaved, vars
  <2> QED
    BY <2>1, <2>2, <2>3, <2>4 DEF Next
<1> QED
  BY <1>1, MockInvariance, PTL DEF Spec, BodyIsFixed

================================================================================
