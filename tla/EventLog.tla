-------------------------------- MODULE EventLog --------------------------------
(***************************************************************************)
(* The append-only file of events (internal/eventlog/jsonl_store.go) under *)
(* the state of EventState.  The file is a sequence of pieces: a whole     *)
(* event, the torn beginning of one, or a newline.  Append writes the      *)
(* event, the newline and then syncs, under one mutex; each of the three   *)
(* may fail, and the process or the machine may stop between any two.      *)
(*                                                                         *)
(* No other package uses the log.  Its caller here keeps a state, appends  *)
(* the events that state accepts, applies what was appended, may try again *)
(* after an error, and starts by replaying the file into a new state.      *)
(***************************************************************************)
EXTENDS EventState, SequencesExt

CONSTANTS LongEvents,   \* events whose line is longer than the scanner's buffer
          MaxAppends

VARIABLES
  file,
  synced,    \* the length of the file the last sync covered
  pc,        \* where Append is; "down" while no process runs
  cur,       \* the event it writes
  state,     \* the caller's state
  acked,     \* the events whose Append returned nil, in that order
  appends,
  damage     \* {} or {n}: Append had returned nil n times when one first broke off,
             \* or wrote a line that is too long

logVars == <<file, synced, pc, cur, state, acked, appends, damage>>

\* The file is a sequence of these.
Whole(e) == [kind |-> "whole", event |-> e]
Torn(e) == [kind |-> "torn", event |-> e]
Newline == [kind |-> "newline"]

--------------------------------------------------------------------------------
\* Replay: what the scanner makes of the pieces

Start == [state |-> NewStore, applied |-> <<>>, line |-> <<>>, failed |-> FALSE]

\* Mutant: a line that cannot be parsed is skipped.
EndLineMutant(acc) ==
  IF acc.failed \/ acc.line = <<>> THEN acc
  ELSE CASE Len(acc.line) = 1 /\ acc.line[1].kind = "whole"
              /\ Apply(acc.state, EventOf[acc.line[1].event]) # {} ->
              [acc EXCEPT !.state = CHOOSE st \in Apply(@, EventOf[acc.line[1].event]) : TRUE,
                          !.applied = Append(@, acc.line[1].event),
                          !.line = <<>>]
         [] OTHER -> [acc EXCEPT !.line = <<>>]

\* Mutant: a blank line, and the end of the file after a newline, is an error.
EndLineBlankMutant(acc) ==
  IF acc.failed THEN acc
  ELSE CASE Len(acc.line) = 1 /\ acc.line[1].kind = "whole"
              /\ Apply(acc.state, EventOf[acc.line[1].event]) # {} ->
              [acc EXCEPT !.state = CHOOSE st \in Apply(@, EventOf[acc.line[1].event]) : TRUE,
                          !.applied = Append(@, acc.line[1].event),
                          !.line = <<>>]
         [] OTHER -> [acc EXCEPT !.failed = TRUE]

\* The end of a line.  A blank one is skipped; one event is applied; anything
\* else is no JSON document, and a line too long for the buffer is not read.
EndLine(acc) ==
  IF acc.failed \/ acc.line = <<>> THEN acc
  ELSE CASE Len(acc.line) = 1 /\ acc.line[1].kind = "whole"
              /\ acc.line[1].event \notin LongEvents ->
              LET next == Apply(acc.state, EventOf[acc.line[1].event])
              IN  IF next = {}
                  THEN [acc EXCEPT !.failed = TRUE]
                  ELSE [acc EXCEPT !.state = CHOOSE st \in next : TRUE,
                                   !.applied = Append(@, acc.line[1].event),
                                   !.line = <<>>]
         [] OTHER -> [acc EXCEPT !.failed = TRUE]

ReadPiece(acc, piece) ==
  IF piece = Newline THEN EndLine(acc)
  ELSE [acc EXCEPT !.line = IF acc.failed THEN @ ELSE Append(@, piece)]

\* What has become of the first n pieces, for every n.
Scanned(pieces) ==
  LET scan[n \in 0..Len(pieces)] ==
        IF n = 0 THEN Start ELSE ReadPiece(scan[n - 1], pieces[n])
  IN  scan

\* Mutant: nothing is applied before the whole file has been parsed.
ReplayMutant(pieces) ==
  LET r == EndLine(Scanned(pieces)[Len(pieces)])
  IN  IF r.failed THEN [Start EXCEPT !.failed = TRUE] ELSE r

\* The last line counts although no newline follows it.
Replay(pieces) == EndLine(Scanned(pieces)[Len(pieces)])

--------------------------------------------------------------------------------
LogInit ==
  /\ file = <<>> /\ synced = 0
  /\ pc = "idle" /\ cur \in Events
  /\ state = NewStore
  /\ acked = <<>> /\ appends = 0 /\ damage = {}

Damaged == damage' = IF damage = {} THEN {Len(acked)} ELSE damage

\* The caller appends an event its state accepts.
AppendEvent(e) ==
  /\ pc = "idle" /\ appends < MaxAppends
  /\ Apply(state, EventOf[e]) # {}
  /\ cur' = e /\ pc' = "data" /\ appends' = appends + 1
  /\ UNCHANGED <<file, synced, state, acked, damage>>

Failed == pc' = "idle" /\ Damaged /\ UNCHANGED <<synced, cur, state, acked, appends>>

WriteData ==
  /\ pc = "data"
  /\ file' = Append(file, Whole(cur)) /\ pc' = "newline"
  /\ IF cur \in LongEvents THEN Damaged ELSE UNCHANGED damage
  /\ UNCHANGED <<synced, cur, state, acked, appends>>

\* A write that fails may have written a part.
WriteDataFails ==
  /\ pc = "data"
  /\ file' \in {file, Append(file, Torn(cur))}
  /\ Failed

WriteNewline ==
  /\ pc = "newline"
  /\ file' = Append(file, Newline) /\ pc' = "sync"
  /\ UNCHANGED <<synced, cur, state, acked, appends, damage>>

WriteNewlineFails == pc = "newline" /\ Failed /\ UNCHANGED file

\* Append returns nil, and the caller applies the event.
Sync ==
  /\ pc = "sync"
  /\ synced' = Len(file)
  /\ acked' = Append(acked, cur)
  /\ state' \in Apply(state, EventOf[cur])
  /\ pc' = "idle"
  /\ UNCHANGED <<file, cur, appends, damage>>

SyncFails == pc = "sync" /\ Failed /\ UNCHANGED file

\* The pieces that may be left of a file after a stop: what was synced, and any
\* beginning of the rest, cut off within an event perhaps.
Remains ==
  LET cut(n) == SubSeq(file, 1, n)
  IN  {cut(n) : n \in synced..Len(file)}
      \cup {Append(cut(n - 1), Torn(file[n].event)) :
              n \in {m \in (synced + 1)..Len(file) : file[m].kind = "whole"}}

Crash ==
  /\ pc # "down" /\ pc' = "down"
  /\ file' \in Remains
  /\ IF pc = "idle" THEN UNCHANGED damage ELSE Damaged
  /\ UNCHANGED <<synced, cur, state, acked, appends>>

\* Close between two appends.
Close ==
  /\ pc = "idle" /\ pc' = "down"
  /\ UNCHANGED <<file, synced, cur, state, acked, appends, damage>>

\* NewJSONLStore and Replay into a new state; what an error leaves is not used.
Open ==
  /\ pc = "down" /\ ~Replay(file).failed
  /\ pc' = "idle"
  /\ state' = Replay(file).state
  /\ UNCHANGED <<file, synced, cur, acked, appends, damage>>

\* The file cannot be replayed: somebody has to repair it.
Unreadable == pc = "down" /\ Replay(file).failed /\ UNCHANGED logVars

AllDone == pc = "idle" /\ appends = MaxAppends /\ UNCHANGED logVars

LogNext ==
  \/ \E e \in Events : AppendEvent(e)
  \/ WriteData \/ WriteDataFails \/ WriteNewline \/ WriteNewlineFails
  \/ Sync \/ SyncFails \/ Crash \/ Close \/ Open \/ Unreadable \/ AllDone

LogSpec == LogInit /\ [][LogNext]_logVars

--------------------------------------------------------------------------------
\* Properties

Pieces == {Whole(e) : e \in Events} \cup {Torn(e) : e \in Events} \cup {Newline}

\* The states of EventState.
States == [payment : [Ids -> {None, "PENDING", "SUCCEEDED", "CANCELLED"}],
           key : [Ids -> Keys \cup {None}], index : [Keys -> Ids \cup {None}],
           active : [Ids -> {None, "on", "off"}]]

\* Every variable keeps its type, and what was synced is never more than the file.
LogTypeOK ==
  /\ file \in Seq(Pieces) /\ synced \in 0..Len(file)
  /\ pc \in {"idle", "data", "newline", "sync", "down"} /\ cur \in Events
  /\ state \in States /\ acked \in Seq(Events) /\ appends \in Nat
  /\ damage \in {{}} \cup {{n} : n \in 0..Len(acked)}

\* As long as no append broke off, and no acknowledged line is longer than Replay
\* reads, replaying the file gives the acknowledged events in their order and the
\* state the process had when it stopped.
StateIsReplayed ==
  damage = {} /\ pc \in {"idle", "down"} =>
    LET r == Replay(file)
    IN  ~r.failed /\ r.applied = acked /\ r.state = state

\* Append does not repair the half line an earlier one left, so what follows it is
\* lost to Replay; but what was acknowledged before is still replayed, in order.
EarlierEventsSurvive ==
  \A n \in damage : IsPrefix(SubSeq(acked, 1, n), Replay(file).applied)

\* Replay does not pass over an acknowledged event in silence: it applies the
\* event or returns an error.
NoSilentLoss ==
  LET r == Replay(file)
  IN  r.failed \/ \A n \in 1..Len(acked) : \E i \in 1..Len(r.applied) : r.applied[i] = acked[n]

================================================================================
