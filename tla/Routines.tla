---- MODULE Routines ----
(***************************************************************************)
(* The routines without state of their own, each checked on one set of       *)
(* arguments at a time: job is the call that is looked at.                   *)
(***************************************************************************)
EXTENDS Paths, MemoryRoutines, Clocks

CONSTANTS
    PathJobs,       \* cwd, path, further
    CopyJobs,       \* dest, src, n
    SetJobs,        \* dest, c, n
    ClockJobs,      \* base, target
    BaudJobs,       \* clockrate, baud
    TimeJobs,       \* the times of the reads of a timer whose halves count to Half
    Half,
    Memory          \* the bytes the copies work on

\* The shell's directory is what simplifyPath returned, the root at first; a string has a piece,
\* if only an empty one.  Copies read bytes there are; memset gets a byte or -1; time
\* does not run backwards, and reading the timer takes less than a turn of its lower half.
ASSUME JobAssumption ==
    /\ DOMAIN Memory \subseteq Nat /\ Memory = [p \in DOMAIN Memory |-> Memory[p]]
    /\ \A j \in PathJobs :
          /\ {j.cwd, j.path, j.further} \subseteq Seq(STRING) \ {<<>>}
          /\ j.cwd = EmptyPath \/ Canonical(j.cwd)
    /\ \A j \in CopyJobs :
          /\ j.dest \in Nat /\ j.src \in Nat /\ j.n \in Nat
          /\ j.src .. j.src + j.n - 1 \subseteq DOMAIN Memory
    /\ \A j \in SetJobs : j.dest \in Nat /\ j.n \in Nat /\ j.c \in 0 .. 255 \cup {-1}
    /\ \A j \in ClockJobs : j.base \in Nat /\ j.target \in Nat \ {0}
    /\ \A j \in BaudJobs : j.clockrate \in Nat /\ j.baud \in Nat \ {0}
    /\ Half \in Nat \ {0}
    /\ \A at \in TimeJobs :
          /\ at \in [1 .. 5 -> Nat] /\ \A i \in 1 .. 4 : at[i] <= at[i + 1]
          /\ at[5] - at[1] < Half

VARIABLES
    routine,        \* which job it is, or "none"
    job

RoutineInit ==
    \/ routine = "path"  /\ job \in PathJobs
    \/ routine = "copy"  /\ job \in CopyJobs
    \/ routine = "set"   /\ job \in SetJobs
    \/ routine = "clock" /\ job \in ClockJobs
    \/ routine = "baud"  /\ job \in BaudJobs
    \/ routine = "time"  /\ job \in TimeJobs

\* They have no steps that others could see.
RoutineSpec == RoutineInit /\ [][FALSE]_<<routine, job>>

(* See PathAgrees: simplifyPath, pathFirst, pathLast and pathParent have the same idea of a  *)
(* path, so the shell's working directory and the driver's walk never part company.          *)
PathsAgree == routine = "path" => PathAgrees(job.cwd, job.path, job.further)

(* See CopyAgrees and SetAgrees: the copies and fills move what they should and nothing else. *)
CopiesAgree ==
    /\ routine = "copy" => CopyAgrees(Memory, job.dest, job.src, job.n)
    /\ routine = "set"  => SetAgrees(Memory, job.dest, job.c, job.n)

(* See DividerAgrees, BaudAgrees and TimeAgrees: the card's clock is the fastest power of two *)
(* that does not exceed what the divisor stands for, the line's rate is as near as it can be *)
(* or the kernel stops for a known reason, and no delay is cut short by a timer read while   *)
(* it carries.                                                                               *)
ClocksAgree ==
    /\ routine = "clock" => DividerAgrees(job.base, job.target)
    /\ routine = "baud"  => BaudAgrees(job.clockrate, job.baud)
    /\ routine = "time"  => TimeAgrees(job, Half)

====
