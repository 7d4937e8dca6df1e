---------------------------- MODULE SharedMemory ----------------------------
(***************************************************************************)
(* XSI shared memory: the segments that the cygserver keeps                *)
(* (cygserver/shm.cc, server_shmmgr), the clients that attach and detach   *)
(* them (cygwin/shm.cc, client_shmmgr), and the process cache between      *)
(* them, whose cleanup routines detach what a client leaves behind.        *)
(*                                                                         *)
(* A call of the server works inside _segments_lock and is one step.  It   *)
(* looks a segment up by the internal id that it takes out of a shmid;     *)
(* internal ids are used again, the sequence number that makes the shmids  *)
(* of one internal id differ is not compared.                              *)
(*                                                                         *)
(* Sizes, permissions and times, and the commands of shmctl that only read *)
(* or write those, are left out: they decide on errors that change nothing.*)
(***************************************************************************)
EXTENDS ProcessCache, Functions

CONSTANTS
  OPEN_MAX,       \* file descriptors, below all the ids
  IPCMNI,         \* how many ids a sequence number is for: a power of two
  SHMMNI,         \* how many segments there can be
  Keys,           \* the keys of shmget
  IPC_PRIVATE,    \* the key that no segment is found by
  MaxSequence,    \* bound on the segments that are ever made
  MaxCalls        \* bound on the calls of the clients

IPC_SUBSYS_COUNT == 3
IPC_SHMOP == 2

\* What cygserver_ipc.h and cygserver_shm.h say of their constants.  The ids of
\* all segments need not fit below IPCMNI, and those of 65536 do not.
ASSUME IdAssumption ==
  /\ IPCMNI \in Nat \ {0} /\ IPCMNI % IPC_SUBSYS_COUNT # 0
  /\ OPEN_MAX \in 0 .. IPCMNI - 1
  /\ SHMMNI \in 1 .. IPCMNI
  /\ MaxSequence \in Nat /\ MaxCalls \in Nat

VARIABLES
  segments,       \* the list at the server's _segments_head
  sequence,       \* segment_t::_sequence
  shm_ids,        \* _shm_ids
  shm_atts,       \* _shm_atts
  request,        \* what each thread asks of the server
  cpc,            \* where each thread is in client_shmmgr
  client_lock,    \* the thread inside the _segments_lock of each client
  attached,       \* the attachments each client has asked for: the list at its
                  \*   _segments_head, and those it could not give back
  untold,         \* how many of them it could not give back
  calls           \* how many calls there have been

serverVars == <<segments, sequence, shm_ids, shm_atts>>
shmClientVars == <<cpc, client_lock, attached, untold, calls>>
shmVars == <<vars, serverVars, request, shmClientVars>>

intids == 0 .. SHMMNI - 1

\* x | y, for a y of two bits
Or(x, y) ==
  LET Missing(k) == IF (x \div k) % 2 < (y \div k) % 2 THEN k ELSE 0
  IN x + Missing(1) + Missing(2)

\* ipc_int2ext: an id that is not below IPCMNI runs into the sequence number.
Int2Ext(intid, seq) ==
  LET id == OPEN_MAX + intid * IPC_SUBSYS_COUNT + IPC_SHMOP
  IN Or(seq % 32768, id \div IPCMNI) * IPCMNI + (id % IPCMNI)

\* ipc_ext2int: -1 for the id of another subsystem.  The remainder of a negative
\* number is not positive.
Ext2Int(shmid) ==
  LET id == (shmid % IPCMNI) - OPEN_MAX
  IN IF id >= 0 /\ id % IPC_SUBSYS_COUNT = IPC_SHMOP THEN id \div IPC_SUBSYS_COUNT
                                                    ELSE -1

shmids == {Int2Ext(i, n) : i \in intids, n \in 1 .. MaxSequence}

ASSUME KeysAreIds == RoutineKey = shmids

NoSegment == [shmid |-> 0, key |-> Null, deleted |-> FALSE, nattch |-> 0,
              refcnt |-> [a \in Address |-> 0]]

SegmentOf(i, n, k) == [NoSegment EXCEPT !.shmid = Int2Ext(i, n), !.key = k]

NoRequest == [op |-> "none"]

Exists(i) == segments[i] # NoSegment
Existing == {i \in intids : Exists(i)}

ShmInit ==
  /\ Init
  /\ segments = [i \in intids |-> NoSegment]
  /\ sequence = 0
  /\ shm_ids = 0
  /\ shm_atts = 0
  /\ request = [t \in Thread |-> NoRequest]
  /\ cpc = [t \in Thread |-> "idle"]
  /\ client_lock = [c \in Client |-> Null]
  /\ attached = [c \in Client |-> [s \in shmids |-> 0]]
  /\ untold = [c \in Client |-> [s \in shmids |-> 0]]
  /\ calls = 0

-----------------------------------------------------------------------------
(* The server: shmget, shmat, shmdt, shmctl (IPC_RMID) *)

\* The answer: a thread goes on with it unless its process has ended.
Answer(t, ok) ==
  LET mapping == cpc[t] = "attaching" /\ ok IN
  /\ cpc' = [cpc EXCEPT ![t] = IF @ = "ended" THEN "ended"
                               ELSE IF mapping THEN "map" ELSE "idle"]
  /\ client_lock' = IF client_lock[Owner[t]] = t /\ ~mapping
                      THEN [client_lock EXCEPT ![Owner[t]] = Null]
                      ELSE client_lock
  /\ request' = IF mapping THEN request ELSE [request EXCEPT ![t] = NoRequest]
  /\ UNCHANGED <<attached, untold, calls>>

\* The object of process that a worker hands to the request
client(t) == obj[t]

Asked(t, op) == rpc[t] = "serve" /\ request[t].op = op

\* The lowest internal id that is free is taken.
NewSegment(t, k) ==
  /\ sequence < MaxSequence
  /\ sequence' = sequence + 1
  /\ \E i \in intids :
       /\ ~Exists(i)
       /\ \A j \in 0 .. i - 1 : Exists(j)
       /\ segments' = [segments EXCEPT ![i] = SegmentOf(i, sequence', k)]
  /\ shm_ids' = shm_ids + 1
  /\ UNCHANGED shm_atts
  /\ Answer(t, TRUE)

\* A private key, or one that no segment has, makes a segment, if there is room
\* for it; any other finds one or is an error (EIDRM, EEXIST, EACCES).
Shmget(t) ==
  /\ Asked(t, "shmget")
  /\ ServeOther(t)
  /\ LET k == request[t].key
         known == {i \in Existing : segments[i].key = k}
     IN \/ /\ k = IPC_PRIVATE \/ known = {}
           /\ NewSegment(t, k) \/ (Answer(t, FALSE) /\ UNCHANGED serverVars)
        \/ /\ k # IPC_PRIVATE /\ known # {}
           /\ Answer(t, \A i \in known : ~segments[i].deleted)
           /\ UNCHANGED serverVars

\* Does a request name a segment?
Found(t) == Ext2Int(request[t].shmid) \in Existing

\* Mutant: the attachment gets no cleanup routine.
ShmatForgotten(t) ==
  /\ Asked(t, "shmat")
  /\ Found(t)
  /\ ~Ended(Owner[t])
  /\ LET i == Ext2Int(request[t].shmid) IN
       /\ ServeOther(t)
       /\ segments' = [segments EXCEPT ![i].nattch = @ + 1,
                                       ![i].refcnt[client(t)] = @ + 1]
  /\ shm_atts' = shm_atts + 1
  /\ Answer(t, TRUE)
  /\ UNCHANGED <<sequence, shm_ids>>

\* segment_t::attach; the handle cannot be given to a process that has ended.
Shmat(t) ==
  /\ Asked(t, "shmat")
  /\ Found(t)
  /\ ~Ended(Owner[t])
  /\ LET i == Ext2Int(request[t].shmid) IN
       /\ AddRoutine(t, segments[i].shmid)
       /\ segments' = [segments EXCEPT ![i].nattch = @ + 1,
                                       ![i].refcnt[client(t)] = @ + 1]
  /\ shm_atts' = shm_atts + 1
  /\ Answer(t, TRUE)
  /\ UNCHANGED <<sequence, shm_ids>>

\* Mutant: a removed segment stays after the last detach.
DetachedAndKept(i, a) ==
  LET seg == [segments[i] EXCEPT !.nattch = @ - 1, !.refcnt[a] = @ - 1]
      gone == FALSE
  IN /\ segments' = [segments EXCEPT ![i] = IF gone THEN NoSegment ELSE seg]
     /\ shm_ids' = IF gone THEN shm_ids - 1 ELSE shm_ids
     /\ shm_atts' = shm_atts - 1
     /\ UNCHANGED sequence

\* The segments once a process has been detached from one of them, which goes
\* if it was marked and this was the last one.
DetachedFrom(i, a) ==
  LET seg == [segments[i] EXCEPT !.nattch = @ - 1, !.refcnt[a] = @ - 1]
      gone == seg.deleted /\ seg.nattch = 0
  IN /\ segments' = [segments EXCEPT ![i] = IF gone THEN NoSegment ELSE seg]
     /\ shm_ids' = IF gone THEN shm_ids - 1 ELSE shm_ids
     /\ shm_atts' = shm_atts - 1
     /\ UNCHANGED sequence

\* segment_t::detach; the routine of a process that is known to have ended
\* stays where it is.
Shmdt(t) ==
  /\ Asked(t, "shmdt")
  /\ Found(t)
  /\ LET i == Ext2Int(request[t].shmid) IN
       /\ segments[i].refcnt[client(t)] > 0
       /\ IF active[client(t)] THEN RemoveRoutine(t, segments[i].shmid)
                               ELSE ServeOther(t)
       /\ DetachedFrom(i, client(t))
  /\ Answer(t, TRUE)

\* IPC_RMID: the segment goes now or with its last attachment.
ShmctlRmid(t) ==
  /\ Asked(t, "rmid")
  /\ Found(t)
  /\ ServeOther(t)
  /\ LET i == Ext2Int(request[t].shmid) IN
       /\ ~segments[i].deleted
       /\ IF segments[i].nattch = 0
            THEN /\ segments' = [segments EXCEPT ![i] = NoSegment]
                 /\ shm_ids' = shm_ids - 1
            ELSE /\ segments' = [segments EXCEPT ![i].deleted = TRUE]
                 /\ UNCHANGED shm_ids
  /\ UNCHANGED <<sequence, shm_atts>>
  /\ Answer(t, TRUE)

\* Mutant: the early return of an error does not release the process.
ShmFailsHeld(t) ==
  /\ request[t].op \in {"shmat", "shmdt", "rmid"}
  /\ rpc[t] = "serve" /\ RequestAt(t, "idle")
  /\ obj' = [obj EXCEPT ![t] = Null]
  /\ UNCHANGED <<status, objectVars, access, cacheVars, submitterVars>>
  /\ LET i == Ext2Int(request[t].shmid) IN
       i \in Existing =>
         \/ request[t].op = "shmat" /\ Ended(Owner[t])
         \/ request[t].op = "shmdt" /\ segments[i].refcnt[client(t)] = 0
         \/ request[t].op = "rmid" /\ segments[i].deleted
  /\ UNCHANGED serverVars
  /\ Answer(t, FALSE)

\* EINVAL, EACCES, EIDRM
ShmFails(t) ==
  /\ request[t].op \in {"shmat", "shmdt", "rmid"}
  /\ ServeOther(t)
  /\ LET i == Ext2Int(request[t].shmid) IN
       i \in Existing =>
         \/ request[t].op = "shmat" /\ Ended(Owner[t])
         \/ request[t].op = "shmdt" /\ segments[i].refcnt[client(t)] = 0
         \/ request[t].op = "rmid" /\ segments[i].deleted
  /\ UNCHANGED serverVars
  /\ Answer(t, FALSE)

\* cleanup_t::cleanup calls shmdt with the shmid of the routine.
CleanupAttachment(a) ==
  /\ RunRoutine(a)
  /\ LET i == Ext2Int(Head(routines[a])) IN
       IF i \in Existing /\ segments[i].refcnt[a] > 0
         THEN DetachedFrom(i, a)
         ELSE UNCHANGED serverVars
  /\ UNCHANGED <<request, shmClientVars>>

-----------------------------------------------------------------------------
(* The client *)

Asks(t, r, step) ==
  /\ Arrive(t)
  /\ request' = [request EXCEPT ![t] = r]
  /\ cpc' = [cpc EXCEPT ![t] = step]
  /\ UNCHANGED serverVars

NewCall(t) ==
  /\ cpc[t] = "idle"
  /\ calls < MaxCalls
  /\ calls' = calls + 1

\* An id somebody has been given, that of a segment that is gone included
Given == {s \in shmids : \E i \in intids, n \in 1 .. sequence : s = Int2Ext(i, n)}

CallShmget(t, k) ==
  /\ NewCall(t)
  /\ Asks(t, [op |-> "shmget", key |-> k], "asking")
  /\ UNCHANGED <<client_lock, attached, untold>>

CallRmid(t, s) ==
  /\ NewCall(t)
  /\ Asks(t, [op |-> "rmid", shmid |-> s], "asking")
  /\ UNCHANGED <<client_lock, attached, untold>>

\* client_shmmgr::shmat asks the server inside its lock.  The client_shmmgr that
\* has the lock is there: two threads whose first calls come together may make
\* two (instance), which is left out.
CallShmat(t, s) ==
  /\ NewCall(t)
  /\ client_lock[Owner[t]] = Null
  /\ client_lock' = [client_lock EXCEPT ![Owner[t]] = t]
  /\ Asks(t, [op |-> "shmat", shmid |-> s], "attaching")
  /\ UNCHANGED <<attached, untold>>

\* What the server has attached stays so.
Keeps(t) ==
  /\ cpc[t] = "map"
  /\ attached' = [attached EXCEPT ![Owner[t]][request[t].shmid] = @ + 1]
  /\ client_lock' = [client_lock EXCEPT ![Owner[t]] = Null]
  /\ cpc' = [cpc EXCEPT ![t] = "idle"]
  /\ request' = [request EXCEPT ![t] = NoRequest]
  /\ UNCHANGED <<vars, serverVars, calls>>

\* MapViewOfFileEx: a new entry in the list ...
Map(t) == Keeps(t) /\ UNCHANGED untold

\* Mutant: a view that cannot be mapped is not given back.
MapFailsQuietly(t) ==
  /\ cpc[t] = "map"
  /\ client_lock' = [client_lock EXCEPT ![Owner[t]] = Null]
  /\ cpc' = [cpc EXCEPT ![t] = "idle"]
  /\ UNCHANGED <<vars, serverVars, request, attached, untold, calls>>

\* ... or it fails, and the server is asked to take the attachment back ...
MapFails(t) ==
  /\ cpc[t] = "map"
  /\ Asks(t, [op |-> "shmdt", shmid |-> request[t].shmid], "undoing")
  /\ UNCHANGED <<client_lock, attached, untold, calls>>

\* ... unless no request gets through (make_request, transport_layer_pipes::connect).
MapFailsUntold(t) ==
  /\ Keeps(t)
  /\ untold' = [untold EXCEPT ![Owner[t]][request[t].shmid] = @ + 1]

\* client_shmmgr::shmdt finds an entry in its list.
CallsShmdt(t, s) ==
  /\ NewCall(t)
  /\ client_lock[Owner[t]] = Null
  /\ attached[Owner[t]][s] > untold[Owner[t]][s]

\* It unlinks the entry inside its lock and asks after it ...
CallShmdt(t, s) ==
  /\ CallsShmdt(t, s)
  /\ attached' = [attached EXCEPT ![Owner[t]][s] = @ - 1]
  /\ Asks(t, [op |-> "shmdt", shmid |-> s], "asking")
  /\ UNCHANGED <<client_lock, untold>>

\* ... unless no request gets through.  The other calls fail then and nothing
\* changes.
CallShmdtUntold(t, s) ==
  /\ CallsShmdt(t, s)
  /\ untold' = [untold EXCEPT ![Owner[t]][s] = @ + 1]
  /\ UNCHANGED <<vars, serverVars, request, cpc, client_lock, attached>>

\* EAGAIN: there is no object for the client.
RefuseAndAnswer(t) ==
  Refuse(t) /\ Answer(t, FALSE) /\ UNCHANGED serverVars

\* A process ends, whatever its threads are doing; its mappings go with it.
ClientExit(c, how) ==
  /\ Exit(c, how)
  /\ cpc' = [t \in Thread |-> IF Owner[t] = c THEN "ended" ELSE cpc[t]]
  /\ client_lock' = [client_lock EXCEPT ![c] = Null]
  /\ attached' = [attached EXCEPT ![c] = [s \in shmids |-> 0]]
  /\ untold' = [untold EXCEPT ![c] = [s \in shmids |-> 0]]
  /\ UNCHANGED <<serverVars, request, calls>>

-----------------------------------------------------------------------------
Call(t) ==
  \/ \E k \in Keys : CallShmget(t, k)
  \/ \E s \in Given : CallShmat(t, s) \/ CallShmdt(t, s) \/ CallRmid(t, s)

ShmServe(t) ==
  Shmget(t) \/ Shmat(t) \/ Shmdt(t) \/ ShmctlRmid(t) \/ ShmFails(t)

Untold(t) == MapFailsUntold(t) \/ \E s \in Given : CallShmdtUntold(t, s)

\* The rest of the server knows nothing of segments.
WorkerGoesOn(t) ==
  /\ Enter(t) \/ \E a \in Address : Find(t, a) \/ Create(t, a)
  /\ UNCHANGED <<serverVars, request, shmClientVars>>

SubmitterGoesOn ==
  SubmitterStep /\ UNCHANGED <<serverVars, request, shmClientVars>>

CleanerGoesOn(a) ==
  \/ CleanupAttachment(a)
  \/ /\ Cleanup(a) \/ Delete(a)
     /\ UNCHANGED <<serverVars, request, shmClientVars>>

ShmWorker(t) ==
  ShmServe(t) \/ WorkerGoesOn(t) \/ RefuseAndAnswer(t)

ShmNext ==
  \/ \E t \in Thread : Call(t) \/ Map(t) \/ MapFails(t) \/ Untold(t) \/ ShmWorker(t)
  \/ \E c \in Client, how \in Statuses : ClientExit(c, how)
  \/ SubmitterGoesOn
  \/ \E a \in Address : CleanerGoesOn(a)

ShmSpec == ShmInit /\ [][ShmNext]_shmVars

\* The threads of the server run; clients need not do anything.  The clients
\* make finitely many calls, so a critical section somebody waits for is free
\* for good in the end.
ShmFairSpec ==
  /\ ShmSpec
  /\ \A t \in Thread : WF_shmVars(ShmWorker(t))
  /\ WF_shmVars(SubmitterGoesOn)
  /\ \A a \in Address : WF_shmVars(CleanerGoesOn(a))

-----------------------------------------------------------------------------
(* Properties *)

Total(f, S) == FoldFunctionOnSet(LAMBDA x, y : x + y, 0, f, S)

\* What the server counts is what there is (the assertions of detach,
\* delete_segment and ~segment_t, and what ipcs shows), and a segment that was
\* removed is there only while somebody is attached to it.
CountsExact ==
  /\ \A i \in Existing :
       /\ segments[i].nattch = Total(segments[i].refcnt, Address)
       /\ segments[i].deleted => segments[i].nattch > 0
  /\ shm_atts = Total([i \in intids |-> segments[i].nattch], intids)
  /\ shm_ids = Cardinality(Existing)

RoutinesFor(a, s) == Cardinality({n \in DOMAIN routines[a] : routines[a][n] = s})

\* Every attachment of a process has its cleanup routine for as long as the
\* object of the process is there, so that no attach_t is left pointing at an
\* object that was deleted, and while the process runs there is no routine more.
AttachmentsCovered ==
  \A i \in Existing, a \in Address :
    LET refcnt == segments[i].refcnt[a]
        owed == RoutinesFor(a, segments[i].shmid)
    IN /\ refcnt > 0 => state[a] # "free"
       /\ IF state[a] = "cached" /\ active[a] THEN owed = refcnt ELSE owed >= refcnt

\* The attachments of a client to segment i that it has been given and not
\* mapped yet, or has unmapped and not given back yet
InFlight(c, i) ==
  {t \in Thread :
    /\ Owner[t] = c
    /\ request[t].op \in {"shmat", "shmdt"}
    /\ Ext2Int(request[t].shmid) = i
    /\ \/ request[t].op = "shmat" /\ cpc[t] = "map"
       \/ request[t].op = "shmdt" /\ rpc[t] # "idle"}

\* Client and server agree: a process that runs is attached to a segment as
\* often as it has mapped it, but for the requests in flight and those that did
\* not get through.  In particular a mapped segment exists, and no detach that the
\* server gets is refused.
ViewsAgree ==
  \A c \in Client, i \in intids :
    ~Ended(c) =>
      LET mine == {a \in Address : winpid[a] = c}
          ids == {s \in shmids : Ext2Int(s) = i}
      IN Total(segments[i].refcnt, mine)
           = Total(attached[c], ids) + Cardinality(InFlight(c, i))

\* On the process cache shared memory does only what a request may do.
UsesCache == Spec

\* Once a process has ended the server forgets it, its attachments and what
\* it had asked for last included, for good.
EndedForgotten ==
  <>[](\A c \in Client, a \in Address : status[c] = "exited" => winpid[a] # c)

=============================================================================
