-------------------------------- MODULE Jobs --------------------------------
(***************************************************************************)
(* W2KIsProcessInJob, which exists twice: in src/compat/w2k_sync.c, with   *)
(* QueryInformationJobObject, and in src/compat/w2k_job.c, with the system *)
(* call below it.  Both ask for the list of the job's processes with a     *)
(* buffer that they enlarge until the list fits, while processes enter the *)
(* job and end; both know only what one answer of the kernel says.         *)
(***************************************************************************)
EXTENDS Naturals, FiniteSets

CONSTANTS Process, Self,       \* processes; Self is the caller
          SyncCapacity,        \* first capacity in w2k_sync.c: 64
          JobCapacity,         \* first capacity in w2k_job.c: 32
          JobLimit             \* capacity at which w2k_job.c gives up: 16384

ASSUME JobsAssumption ==
    /\ Self \in Process /\ IsFiniteSet(Process)
    /\ SyncCapacity \in Nat \ {0} /\ JobCapacity \in Nat \ {0} /\ JobLimit \in Nat

VARIABLES
    members,     \* the processes of the job
    query,       \* a call in progress: "none", "sync" or "job"
    handle,      \* "job", or "null" for the job handle NULL
    target,      \* the process asked about
    capacity,    \* of the list
    been,        \* history: the answers that were true of target since the call began
    crowded,     \* history: the job had more than JobLimit members meanwhile
    answer       \* of the last call: "TRUE", "FALSE", or an error

jvars == <<members, query, handle, target, capacity, been, crowded, answer>>

JInit ==
    /\ members = {} /\ query = "none" /\ handle = "job" /\ target = Self
    /\ capacity = 0 /\ been = {} /\ crowded = FALSE
    /\ answer = "none"

\* What the list of the members m says of p.
Says(p, m) == IF p \in m THEN "TRUE" ELSE "FALSE"

Answer(a) ==
    /\ answer' = a
    /\ query' = "none"
    /\ UNCHANGED <<members, handle, target, capacity, been, crowded>>

\* Between two calls the job becomes whatever it becomes.
IsProcessInJob ==
    /\ query = "none" /\ answer = "none"
    /\ query' \in {"sync", "job"}
    /\ handle' \in {"job", "null"}
    /\ target' \in Process
    /\ members' \in SUBSET Process
    /\ capacity' = IF query' = "sync" THEN SyncCapacity ELSE JobCapacity
    /\ been' = {Says(target', members')}
    /\ crowded' = (Cardinality(members') > JobLimit)
    /\ UNCHANGED answer

\* A process enters the job or ends.
JobChanges ==
    /\ query # "none"
    /\ \E p \in Process :
          members' = IF p \in members THEN members \ {p} ELSE members \cup {p}
    /\ been' = been \cup {Says(target, members')}
    /\ crowded' = (crowded \/ Cardinality(members') > JobLimit)
    /\ UNCHANGED <<query, handle, target, capacity, answer>>

\* The process handle or the job handle is bad, or there is no memory for the list.
QueryFails ==
    /\ query # "none"
    /\ \E e \in {"invalid handle", "no memory"} : Answer(e)

\* w2k_job.c does not ask about NULL: a desktop process is in no job it was not told of.
AssumeNoJob ==
    /\ query = "job" /\ handle = "null"
    /\ Answer("FALSE")

\* w2k_sync.c asks, and NULL means the caller's own job, if it is in one.
NoJobOfOurs ==
    /\ query = "sync" /\ handle = "null" /\ Self \notin members
    /\ Answer("FALSE")

Asks == handle = "job" \/ (query = "sync" /\ Self \in members)

ListFits ==
    /\ query # "none" /\ Asks
    /\ Cardinality(members) <= capacity
    /\ Answer(Says(target, members))

\* Mutant: one too few.
ReportedLess == Cardinality(members) - 1
Reported == Cardinality(members)

\* The number of processes the kernel reports is the next capacity, ...
Enlarge ==
    /\ query = "sync" /\ Asks
    /\ Cardinality(members) > capacity
    /\ capacity' = Reported
    /\ UNCHANGED <<members, query, handle, target, been, crowded, answer>>

\* Mutant: the last capacity is not tried.
GivesUpEarly == 2 * capacity >= JobLimit
GivesUp == capacity >= JobLimit

\* ... or twice the last, up to a limit.
Double ==
    /\ query = "job" /\ Asks
    /\ Cardinality(members) > capacity
    /\ IF GivesUp
       THEN Answer("too many")
       ELSE /\ capacity' = 2 * capacity
            /\ UNCHANGED <<members, query, handle, target, been, crowded, answer>>

JForget ==
    /\ members' = {} /\ handle' = "job" /\ target' = Self /\ capacity' = 0
    /\ been' = {} /\ crowded' = FALSE /\ answer' = "none"
    /\ UNCHANGED query

\* What the calling thread does by itself.
QueryStep == AssumeNoJob \/ NoJobOfOurs \/ ListFits \/ Enlarge \/ Double

JNext == IsProcessInJob \/ JobChanges \/ QueryFails \/ QueryStep
----------------------------------------------------------------------------
(* An answer about a job was true at some moment of the call, however the  *)
(* job changed between the queries, and the call gives up only on a job    *)
(* that really had more processes than the limit.                          *)
AnswerOfTheMoment ==
    handle = "job" =>
       /\ answer \in {"TRUE", "FALSE"} => answer \in been
       /\ answer = "too many" => crowded
============================================================================
