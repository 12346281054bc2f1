--------------------------- MODULE VoiceSessions ---------------------------
(***************************************************************************)
(* SessionService over RedisVoiceSessionStore (session/service.py,         *)
(* session/store.py), as the requests of api/http.py use it.               *)
(*                                                                         *)
(* A session is stored under its own id, and its id under the id of its    *)
(* call; keys of different calls have nothing in common, so this is about  *)
(* one call.  Each process serves one request at a time, since the         *)
(* handlers await nothing, and a step is one Redis command with the code   *)
(* up to the next.  A request's policy is compared like its user: left out.*)
(***************************************************************************)
EXTENDS Integers

CONSTANTS
    Processes,      \* the processes that share the store
    Requests,       \* what the backend may ask for: [user, expires]
    Second,         \* units of time in a second
    MaxSessions,    \* bound: sessions that are built
    MaxFaults,      \* bound: Redis commands that fail
    MaxTime         \* bound: when the clock stops

ASSUME RequestsAssumption ==
    \A r \in Requests : r = [user |-> r.user, expires |-> r.expires] /\ r.expires \in Nat
ASSUME TimeAssumption == Second \in Nat \ {0} /\ MaxTime \in Nat
ASSUME BoundsAssumption == MaxSessions \in Nat /\ MaxFaults \in Nat

VARIABLES
    now,        \* the clocks of Redis and of the processes
    voice,      \* the keys of sessions: [request, status, until]
    callKey,    \* the key of the call: [id, until]
    built,      \* how many ids were generated
    at,         \* what each process does next
    draft,      \* the session it is about: [id, request, status]
    ttl,        \* the lifetime save computed
    faults,     \* how many commands failed
    promised,   \* history: ids answered to a create and not closed since
    terminated, \* history: ids whose terminate was answered
    behind,     \* history: busy processes that others have overtaken with a write
    raced       \* history: such a process has written

store   == <<voice, callKey>>
history == <<promised, terminated, behind, raced>>
work    == <<at, draft, ttl>>
vars    == <<now, store, built, work, faults, history>>

Ids      == 1..MaxSessions
Nothing  == 0    \* the id of what is not there
Steps    == {"idle", "compare", "setVoice", "setCall", "lookup", "admit"}
Statuses == {"PREPARED", "CLOSED"}
NoRequest == [user |-> "none", expires |-> 0]
NoDraft  == [id |-> Nothing, request |-> NoRequest, status |-> "CLOSED"]

Init ==
    /\ now = 0
    /\ voice = [id \in Ids |-> [request |-> NoRequest, status |-> "CLOSED", until |-> 0]]
    /\ callKey = [id |-> Nothing, until |-> 0]
    /\ built = 0
    /\ at = [p \in Processes |-> "idle"]
    /\ draft = [p \in Processes |-> NoDraft]
    /\ ttl = [p \in Processes |-> 0]
    /\ faults = 0
    /\ promised = {} /\ terminated = {}
    /\ behind = {} /\ raced = FALSE

-----------------------------------------------------------------------------
(* The store *)

\* Redis forgets a key when its time is over.
Live(key) == now < key.until

GetCall == IF Live(callKey) THEN callKey.id ELSE Nothing

Open(id) == id # Nothing /\ Live(voice[id]) /\ voice[id].status # "CLOSED"

\* Mutant of Ttl: the rest of a second is cut off.
TtlTruncated(expires) ==
    LET seconds == (expires - now) \div Second
    IN  Second * (IF seconds < 1 THEN 1 ELSE seconds)

\* Mutant of Ttl: without the lower bound.
TtlUnbounded(expires) == Second * ((expires - now + Second - 1) \div Second)

\* Whole seconds, rounded up, and at least one.
Ttl(expires) ==
    LET seconds == (expires - now + Second - 1) \div Second
    IN  Second * (IF seconds < 1 THEN 1 ELSE seconds)

WriteVoice(p) ==
    /\ LET d == draft[p]
       IN  /\ voice' = [voice EXCEPT ![d.id] = [request |-> d.request, status |-> d.status,
                                                until |-> now + Ttl(d.request.expires)]]
           /\ promised' = IF d.status = "CLOSED" THEN promised \ {d.id} ELSE promised
    /\ raced' = (raced \/ p \in behind)
    /\ UNCHANGED callKey

WriteCall(p) ==
    /\ callKey' = [id |-> draft[p].id, until |-> now + ttl[p]]
    /\ raced' = (raced \/ p \in behind)
    /\ UNCHANGED voice

Busy == {p \in Processes : at[p] # "idle"}

Rest(p) ==
    /\ at' = [at EXCEPT ![p] = "idle"]
    /\ draft' = [draft EXCEPT ![p] = NoDraft]
    /\ ttl' = [ttl EXCEPT ![p] = 0]

Work(p, step, d) ==
    /\ at' = [at EXCEPT ![p] = step]
    /\ draft' = [draft EXCEPT ![p] = d]
    /\ UNCHANGED ttl

-----------------------------------------------------------------------------
(* The requests *)

\* create builds a session with a fresh id and is about to save it.
NewSession(p, r) ==
    /\ built < MaxSessions
    /\ built' = built + 1
    /\ Work(p, "setVoice", [id |-> built + 1, request |-> r, status |-> "PREPARED"])

\* create, up to the answer of the first GET.
Create(p, r) ==
    /\ at[p] = "idle"
    /\ r.expires > now
    /\ \/ GetCall = Nothing /\ NewSession(p, r)
       \/ /\ GetCall # Nothing
          /\ Work(p, "compare", [id |-> GetCall, request |-> r, status |-> "PREPARED"])
          /\ UNCHANGED built
    /\ UNCHANGED <<now, store, faults, history>>

\* Mutant of Compare: a session that was closed still counts as the existing one.
CompareWithClosed(p) ==
    /\ at[p] = "compare"
    /\ LET d == draft[p]
       IN  \/ /\ ~Live(voice[d.id])
              /\ NewSession(p, d.request)
              /\ UNCHANGED promised
           \/ /\ Live(voice[d.id])
              /\ Rest(p)
              /\ promised' = IF voice[d.id].request = d.request
                             THEN promised \cup {d.id} ELSE promised
              /\ UNCHANGED built
    /\ behind' = behind \ (IF at'[p] = "idle" THEN {p} ELSE {})
    /\ UNCHANGED <<now, store, faults, terminated, raced>>

\* The second GET: without an open session create goes on; with one of the same
\* user and expiry it answers that one, and otherwise with a conflict.
Compare(p) ==
    /\ at[p] = "compare"
    /\ LET d == draft[p]
       IN  \/ /\ ~Open(d.id)
              /\ NewSession(p, d.request)
              /\ UNCHANGED promised
           \/ /\ Open(d.id)
              /\ Rest(p)
              /\ promised' = IF voice[d.id].request = d.request
                             THEN promised \cup {d.id} ELSE promised
              /\ UNCHANGED built
    /\ behind' = behind \ (IF at'[p] = "idle" THEN {p} ELSE {})
    /\ UNCHANGED <<now, store, faults, terminated, raced>>

\* terminate of an open session; any other changes nothing.
Terminate(p, id) ==
    /\ at[p] = "idle"
    /\ Open(id)
    /\ Work(p, "setVoice", [id |-> id, request |-> voice[id].request, status |-> "CLOSED"])
    /\ UNCHANGED <<now, store, built, faults, history>>

\* save, first command.
SetVoice(p) ==
    /\ at[p] = "setVoice"
    /\ WriteVoice(p)
    /\ at' = [at EXCEPT ![p] = "setCall"]
    /\ ttl' = [ttl EXCEPT ![p] = Ttl(draft[p].request.expires)]
    /\ behind' = behind \cup (Busy \ {p})
    /\ UNCHANGED <<now, built, draft, faults, terminated>>

\* save, second command, after which the request is answered.
SetCall(p) ==
    /\ at[p] = "setCall"
    /\ WriteCall(p)
    /\ Rest(p)
    /\ LET d == draft[p]
       IN  IF d.status = "PREPARED"
           THEN promised' = promised \cup {d.id} /\ UNCHANGED terminated
           ELSE terminated' = terminated \cup {d.id} /\ UNCHANGED promised
    /\ behind' = (behind \cup Busy) \ {p}
    /\ UNCHANGED <<now, built, faults>>

\* A command raises, executed or not, or the process stops: the request fails.
Fail(p) ==
    /\ at[p] # "idle" /\ faults < MaxFaults
    /\ faults' = faults + 1
    /\ Rest(p)
    /\ \/ UNCHANGED <<store, promised, raced>> /\ behind' = behind \ {p}
       \/ /\ at[p] = "setVoice" /\ WriteVoice(p)
          /\ behind' = (behind \cup Busy) \ {p}
       \/ /\ at[p] = "setCall" /\ WriteCall(p)
          /\ behind' = (behind \cup Busy) \ {p}
          /\ UNCHANGED promised
    /\ UNCHANGED <<now, built, terminated>>

Tick ==
    /\ now < MaxTime
    /\ now' = now + 1
    /\ UNCHANGED <<store, built, work, faults, history>>

-----------------------------------------------------------------------------

Next ==
    \/ \E p \in Processes :
        \/ \E r \in Requests : Create(p, r)
        \/ Compare(p)
        \/ \E id \in promised : Terminate(p, id)
        \/ SetVoice(p) \/ SetCall(p) \/ Fail(p)
    \/ Tick

Spec == Init /\ [][Next]_vars

-----------------------------------------------------------------------------
(* Properties *)

Users  == {r.user : r \in Requests} \cup {NoRequest.user}
Terms  == [user : Users, expires : Nat]
Drafts == [id : Ids \cup {Nothing}, request : Terms, status : Statuses]

TypeOK ==
    /\ now \in Nat
    /\ voice \in [Ids -> [request : Terms, status : Statuses, until : Nat]]
    /\ callKey \in [id : Ids \cup {Nothing}, until : Nat]
    /\ built \in 0..MaxSessions
    /\ at \in [Processes -> Steps] /\ draft \in [Processes -> Drafts] /\ ttl \in [Processes -> Nat]
    /\ \A p \in Processes : at[p] = "setCall" => ttl[p] > 0     \* Redis refuses others
    /\ faults \in 0..MaxFaults
    /\ promised \subseteq Ids /\ terminated \subseteq Ids
    /\ behind \subseteq Processes /\ raced \in BOOLEAN

\* A session the backend was told of is what its call leads to, open, until it
\* expires or is closed, whatever command failed; unless two processes worked on
\* the call at once and one wrote what it had decided before the other's write.
PromisedIsReachable ==
    \A id \in promised : raced \/ now >= voice[id].request.expires \/ (GetCall = id /\ Open(id))

\* The key of the call never outruns the session: what it names is stored, until
\* that session expires.
IndexFollowsSession ==
    GetCall # Nothing =>
        /\ voice[GetCall].until > 0
        /\ Live(voice[GetCall]) \/ now >= voice[GetCall].request.expires

=============================================================================
