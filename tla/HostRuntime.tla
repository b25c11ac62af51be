----------------------------- MODULE HostRuntime ----------------------------
(***************************************************************************)
(* The files through which the native host is found, and the processes     *)
(* that write, remove and read them: apps/linux-host/src/runtime.mjs and   *)
(* main of host.mjs on one side, readDriverRecord, readDriverToken and     *)
(* AutoPlatformDriver.initialize of platformDriver.ts on the other.        *)
(*                                                                         *)
(* Every access to a file is a step of its own: another process may come   *)
(* between any two.  A host may be killed at any time, and leaves what it  *)
(* has written.                                                            *)
(***************************************************************************)
EXTENDS Naturals, FiniteSets

CONSTANTS
    Hosts,      \* host processes, by pid (pids are not reused)
    Clients,    \* MCP server processes
    Nobody      \* a pid that belongs to no process

\* A file that is not there; a lock that is there and holds no pid yet.
Absent == "absent"
Empty == "empty"

ASSUME RuntimeAssumption ==
    Hosts \cap {Nobody, Absent, Empty} = {} /\ Nobody \notin {Absent, Empty}

VARIABLES
    phase,      \* what each host process does next
    attempt,    \* its attempt at the lock, 1 or 2
    lock,       \* host.lock: a pid
    token,      \* token: of the host that wrote it
    record,     \* driver.json: its host, and whether its heartbeat is recent
    client,     \* client -> where it is in initialize, the host it read of
    raced       \* history: two hosts were coming or going at the same time

files == <<lock, token, record>>
runtimeVars == <<phase, attempt, files, client, raced>>

Acquiring == {"create", "write", "inspect", "unlink"}
Preparing == {"record", "token", "newtoken", "abandon"}
Starting == Acquiring \cup Preparing \cup {"listen"}
Stopping == {"stop1", "stop2", "stop3", "exit1", "exit2", "exit3"}
Phases == {"new", "running", "dead"} \cup Starting \cup Stopping

IsAlive(h) == h \in Hosts /\ phase[h] \notin {"new", "dead"}
ComingOrGoing(h) == phase[h] \in Starting \cup Stopping

NoRecord == [host |-> Absent, fresh |-> FALSE]
NoTarget == [step |-> "idle", host |-> Nobody]

\* A former host may have crashed and left its lock, token and record.
RuntimeInit ==
    /\ phase = [h \in Hosts |-> "new"]
    /\ attempt = [h \in Hosts |-> 1]
    /\ \/ lock = Absent /\ token = Absent /\ record = NoRecord
       \/ lock = Nobody /\ token = Nobody /\ record = [host |-> Nobody, fresh |-> TRUE]
    /\ client = [c \in Clients |-> NoTarget]
    /\ raced = FALSE

Goto(h, p) ==
    /\ phase' = [phase EXCEPT ![h] = p]
    /\ raced' = (raced \/ ( /\ p \in Starting \cup Stopping
                            /\ \E g \in Hosts \ {h} : ComingOrGoing(g)))

At(h, p) == phase[h] = p

-----------------------------------------------------------------------------
(* createDriverRuntime: acquireRuntimeLock.                                *)

\* The directory is this user's and private, or is made so; a host that finds
\* another's there ends with nothing done, as one that crashes here.
StartHost(h) ==
    /\ At(h, "new") /\ Goto(h, "create")
    /\ UNCHANGED <<attempt, files, client>>

\* writeFileSync with "wx" creates the file, then writes the pid into it.
\* main rejects and the process ends after the second attempt.
CreateLock(h) ==
    /\ At(h, "create")
    /\ IF lock = Absent
       THEN lock' = Empty /\ Goto(h, "write")
       ELSE UNCHANGED lock /\ Goto(h, "inspect")
    /\ UNCHANGED <<attempt, token, record, client>>

\* A file that was unlinked in between takes the pid with it.
WriteLock(h) ==
    /\ At(h, "write") /\ Goto(h, "record")
    /\ lock' = IF lock = Empty THEN h ELSE lock
    /\ UNCHANGED <<attempt, token, record, client>>

(* Mutants: every lock counts as stale; a host that is refused gives up a  *)
(* lock that is not its own.                                               *)
InspectStale(h) ==
    /\ At(h, "inspect") /\ Goto(h, "unlink")
    /\ UNCHANGED <<attempt, files, client>>

InspectAndAbandon(h) ==
    /\ At(h, "inspect")
    /\ IF IsAlive(lock) THEN Goto(h, "abandon") ELSE Goto(h, "unlink")
    /\ UNCHANGED <<attempt, files, client>>

\* A lock that cannot be read, or that holds no pid, counts as stale.
InspectLock(h) ==
    /\ At(h, "inspect")
    /\ IF IsAlive(lock) THEN Goto(h, "dead") ELSE Goto(h, "unlink")
    /\ UNCHANGED <<attempt, files, client>>

UnlinkLock(h) ==
    /\ At(h, "unlink")
    /\ lock' = Absent
    /\ IF attempt[h] = 1
       THEN attempt' = [attempt EXCEPT ![h] = 2] /\ Goto(h, "create")
       ELSE UNCHANGED attempt /\ Goto(h, "dead")
    /\ UNCHANGED <<token, record, client>>

-----------------------------------------------------------------------------
(* createDriverRuntime after the lock, then listen and the first record.   *)

RemoveRecord(h) ==
    /\ At(h, "record") /\ Goto(h, "token")
    /\ record' = NoRecord
    /\ UNCHANGED <<attempt, lock, token, client>>

RemoveToken(h) ==
    /\ At(h, "token") /\ Goto(h, "newtoken")
    /\ token' = Absent
    /\ UNCHANGED <<attempt, lock, record, client>>

\* Exclusively: where another host was quicker, this one gives up, and the
\* lock with it, whoever holds it.
CreateToken(h) ==
    /\ At(h, "newtoken")
    /\ IF token = Absent
       THEN token' = h /\ Goto(h, "listen")
       ELSE UNCHANGED token /\ Goto(h, "abandon")
    /\ UNCHANGED <<attempt, lock, record, client>>

AbandonLock(h) ==
    /\ At(h, "abandon") /\ Goto(h, "dead")
    /\ lock' = Absent
    /\ UNCHANGED <<attempt, token, record, client>>

\* atomicPrivateJSON: a temporary file is renamed over driver.json, of which
\* nobody reads a part.
Replaced(new) == record' = new

\* writeRecord.
WriteRecord(h) == Replaced([host |-> h, fresh |-> TRUE])

Listen(h) ==
    /\ At(h, "listen") /\ Goto(h, "running")
    /\ WriteRecord(h)
    /\ UNCHANGED <<attempt, lock, token, client>>

(* Mutant: the heartbeat renews its own record only.                       *)
HeartbeatOfItsOwn(h) ==
    /\ At(h, "running")
    /\ IF record.host = h THEN WriteRecord(h) ELSE UNCHANGED record
    /\ UNCHANGED <<phase, attempt, lock, token, client, raced>>

Heartbeat(h) ==
    /\ At(h, "running")
    /\ WriteRecord(h)
    /\ UNCHANGED <<phase, attempt, lock, token, client, raced>>

-----------------------------------------------------------------------------
(* shutdown, which calls cleanup, and the exit handler, which calls it     *)
(* again; cleanup removes the lock only if it holds this process's pid.    *)

Signal(h) ==
    /\ At(h, "running") /\ Goto(h, "stop1")
    /\ UNCHANGED <<attempt, files, client>>

Cleanup(h, p1, p2, p3, after) ==
    \/ At(h, p1) /\ Goto(h, p2) /\ record' = NoRecord /\ UNCHANGED <<lock, token>>
    \/ At(h, p2) /\ Goto(h, p3) /\ token' = Absent /\ UNCHANGED <<lock, record>>
    \/ /\ At(h, p3) /\ Goto(h, after)
       /\ lock' = IF lock = h THEN Absent ELSE lock
       /\ UNCHANGED <<token, record>>

Stop(h) ==
    /\ \/ Cleanup(h, "stop1", "stop2", "stop3", "exit1")
       \/ Cleanup(h, "exit1", "exit2", "exit3", "dead")
    /\ UNCHANGED <<attempt, client>>

\* SIGKILL, a power failure, or a startup that fails after the lock was taken
\* (the exit handler is not installed yet).
Crash(h) ==
    /\ IsAlive(h) /\ Goto(h, "dead")
    /\ UNCHANGED <<attempt, files, client>>

\* The heartbeat of a record that nobody renews is older than 20 s.
GrowStale ==
    /\ record.fresh /\ ~(record.host \in Hosts /\ At(record.host, "running"))
    /\ record' = [record EXCEPT !.fresh = FALSE]
    /\ UNCHANGED <<phase, attempt, lock, token, client, raced>>

-----------------------------------------------------------------------------
(* AutoPlatformDriver.initialize.                                          *)

\* readDriverRecord.
Discoverable == record.fresh /\ IsAlive(record.host)

ReadRecord(c) ==
    /\ client[c].step # "reading"
    /\ client' = [client EXCEPT ![c] =
          IF Discoverable
          THEN [step |-> "reading", host |-> record.host]
          ELSE [step |-> "unavailable", host |-> Nobody]]
    /\ UNCHANGED <<phase, attempt, files, raced>>

\* The token, after the connection was made (connectAndInitialize); the host
\* compares it with its own.  A process that is gone accepts no connection.
Authenticate(c) ==
    /\ client[c].step = "reading"
    /\ client' = [client EXCEPT ![c].step =
          IF ~At(client[c].host, "running") THEN "unavailable"
          ELSE IF token = client[c].host THEN "connected" ELSE "denied"]
    /\ UNCHANGED <<phase, attempt, files, raced>>

-----------------------------------------------------------------------------
Step(h) ==
    \/ CreateLock(h) \/ WriteLock(h) \/ InspectLock(h) \/ UnlinkLock(h)
    \/ RemoveRecord(h) \/ RemoveToken(h) \/ CreateToken(h) \/ AbandonLock(h) \/ Listen(h)
    \/ Stop(h)

RuntimeNext ==
    \/ \E h \in Hosts : StartHost(h) \/ Step(h) \/ Heartbeat(h) \/ Signal(h) \/ Crash(h)
    \/ GrowStale
    \/ \E c \in Clients : ReadRecord(c) \/ Authenticate(c)

\* A process that lives goes on; setInterval renews the record.
RuntimeFairness == \A h \in Hosts : WF_runtimeVars(Step(h)) /\ WF_runtimeVars(Heartbeat(h))

RuntimeSpec == RuntimeInit /\ [][RuntimeNext]_runtimeVars /\ RuntimeFairness

-----------------------------------------------------------------------------
(* Properties.                                                             *)

RuntimeTypeOK ==
    /\ phase \in [Hosts -> Phases]
    /\ attempt \in [Hosts -> {1, 2}]
    /\ lock \in Hosts \cup {Nobody, Absent, Empty}
    /\ token \in Hosts \cup {Nobody, Absent}
    /\ record \in [host : Hosts \cup {Nobody, Absent}, fresh : BOOLEAN]
    /\ client \in [Clients -> [step : {"idle", "reading", "connected", "denied", "unavailable"},
                               host : Hosts \cup {Nobody}]]
    /\ raced \in BOOLEAN

\* What the lock is for (runtime.mjs): as long as hosts come and go one after
\* the other, crash as they may, no two of them run.  Two that start together
\* may both find the lock stale, or empty, and both run; and then a third that
\* starts alone may join them.
OneHostRuns ==
    \A g, h \in Hosts : At(g, "running") /\ At(h, "running") /\ g # h => raced

\* Likewise a running host holds the lock and has its token on disk, after
\* crashes of former hosts and refused starts of others.  A host that starts
\* while the former one shuts down loses its record and its token to the
\* cleanup of the other's exit handler, and only the record comes back.
RunningHostIsFound ==
    \A h \in Hosts : At(h, "running") => raced \/ (lock = h /\ token = h)

\* A client that follows a record is let in or finds the host gone: a host
\* turns it away only after such a race.
DeniedMeansARace == \A c \in Clients : client[c].step = "denied" => raced

\* A record that another host's cleanup removed comes back: once one host is
\* left and goes on running, the record is its own and stays so.
RecordHeals ==
    \A h \in Hosts :
        <>[](At(h, "running") /\ \A g \in Hosts \ {h} : At(g, "dead")) => <>[](record.host = h)
=============================================================================
