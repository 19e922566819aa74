------------------------------ MODULE RunLog ------------------------------
(***************************************************************************)
(* What logging a run promises its user, with no buffers, threads or       *)
(* files: the filled units of a run reach the log in the order in which    *)
(* they were filled, each exactly once, and a run does not end before all  *)
(* of them are there.  The first unit of a run holds its begin-run event   *)
(* and the last one its end-run event, so the log brackets every run.      *)
(* BufferRing and RemoteLog are shown to implement this.                   *)
(*                                                                         *)
(* The environment may declare faults: while the log is lossy units may be *)
(* left out, while it is faulty what is logged for a unit may be less than *)
(* the unit, or something else.  But no unit is logged twice or out of     *)
(* order even then.                                                        *)
(***************************************************************************)
EXTENDS Naturals, Sequences

VARIABLES
  lossy,     \* units may be left out now; the environment's
  faulty,    \* units may be spoiled now; the environment's
  run,       \* number of the current or the last run
  active,    \* a run is going on
  accepted,  \* units filled in this run
  log        \* sequence of [run, nr, whole]; not whole: spoiled

vars == <<run, active, accepted, log>>

\* Units of the current run that have reached the log.
Logged ==
  IF log = <<>> THEN 0
  ELSE IF log[Len(log)].run = run THEN log[Len(log)].nr ELSE 0

Init == run = 0 /\ active = FALSE /\ accepted = 0 /\ log = <<>>

BeginRun ==
  /\ ~active
  /\ run' = run + 1 /\ active' = TRUE /\ accepted' = 0
  /\ UNCHANGED log

\* A begin that is refused uses up a number.
RefuseRun ==
  /\ ~active
  /\ run' = run + 1
  /\ UNCHANGED <<active, accepted, log>>

Accept ==
  /\ active
  /\ accepted' = accepted + 1
  /\ UNCHANGED <<run, active, log>>

\* The next unit or, if the log is lossy, a later one.  What spoils a unit may
\* show with that unit at the earliest.
LogNext ==
  /\ active
  /\ \E nr \in Logged + 1 .. accepted : \E whole \in BOOLEAN :
       /\ ~lossy => nr = Logged + 1
       /\ ~faulty' => whole
       /\ log' = Append(log, [run |-> run, nr |-> nr, whole |-> whole])
  /\ UNCHANGED <<run, active, accepted>>

EndRun ==
  /\ active
  /\ Logged = accepted \/ lossy
  /\ active' = FALSE /\ accepted' = 0
  /\ UNCHANGED <<run, log>>

Next == BeginRun \/ RefuseRun \/ Accept \/ LogNext \/ EndRun

Spec == Init /\ [][Next]_vars

===========================================================================
