----------------------------- MODULE Admission -----------------------------
(***************************************************************************)
(* How a caller is let in: signaling_socket verifies the connection token  *)
(* (session/auth.py), which marks its jti as used in the Redis store       *)
(* (session/store.py), and the signaling factory looks the session of the  *)
(* call up in VoiceSessions and starts the call if it is usable.           *)
(*                                                                         *)
(* Tokens that verify rejects for their signature, call or scope leave no  *)
(* trace and are left out; the verifier has the options main.py gives it,  *)
(* which allow no leeway.                                                  *)
(***************************************************************************)
EXTENDS VoiceSessions, Sequences

CONSTANTS
    Tokens,         \* the tokens callers hold
    UserOf,         \* the user each is for
    ExpiresAt,      \* the exp of each, a whole second
    MaxCalls        \* bound: calls that are started

ASSUME TokensAssumption ==
    /\ UserOf \in [Tokens -> Users]
    /\ ExpiresAt \in [Tokens -> Nat]
    /\ \A t \in Tokens : ExpiresAt[t] % Second = 0

VARIABLES
    usedUntil,  \* when the jti of each token is forgotten, 0 if it was never marked
    accepted,   \* history: the times each token was accepted
    calls       \* history: the sessions for which calls were started

doorVars == <<usedUntil, accepted, calls>>

DoorInit ==
    /\ Init
    /\ usedUntil = [t \in Tokens |-> 0]
    /\ accepted = [t \in Tokens |-> << >>]
    /\ calls = << >>

\* The rest of the token's life in whole seconds, and at least one.
JtiTtl(t) ==
    LET seconds == (ExpiresAt[t] - now) \div Second
    IN  Second * (IF seconds < 1 THEN 1 ELSE seconds)

\* Mutant of Consume: the jti is not looked at before it is marked.
ConsumeAlways(t) == usedUntil' = [usedUntil EXCEPT ![t] = now + JtiTtl(t)]

\* SET NX EX: one command, so that of two processes one gets the token.
Consume(t) ==
    /\ now >= usedUntil[t]
    /\ usedUntil' = [usedUntil EXCEPT ![t] = now + JtiTtl(t)]

\* verify accepts the token, and the factory is to look its call up.
Verify(p, t) ==
    /\ at[p] = "idle"
    /\ ExpiresAt[t] > now
    /\ Consume(t)
    /\ accepted' = [accepted EXCEPT ![t] = Append(@, now)]
    /\ Work(p, "lookup", [NoDraft EXCEPT !.request = [user |-> UserOf[t], expires |-> ExpiresAt[t]]])
    /\ UNCHANGED <<now, store, built, faults, history, calls>>

\* The command was executed and raises all the same: the caller is refused.
VerifyFails(p, t) ==
    /\ at[p] = "idle" /\ faults < MaxFaults
    /\ ExpiresAt[t] > now
    /\ Consume(t)
    /\ faults' = faults + 1
    /\ UNCHANGED <<now, store, built, work, history, accepted, calls>>

\* The first GET of the factory: a call without a session is refused.
Lookup(p) ==
    /\ at[p] = "lookup"
    /\ \/ /\ GetCall = Nothing
          /\ Rest(p) /\ behind' = behind \ {p}
       \/ /\ GetCall # Nothing
          /\ Work(p, "admit", [draft[p] EXCEPT !.id = GetCall]) /\ UNCHANGED behind
    /\ UNCHANGED <<now, store, built, faults, promised, terminated, raced, doorVars>>

\* Mutant of IsUsable: the status of the session is not looked at.
IsUsableClosed(claims, id) ==
    /\ Live(voice[id])
    /\ voice[id].request.user = claims.user
    /\ voice[id].request.expires > now

IsUsable(claims, id) ==
    /\ Open(id)
    /\ voice[id].request.user = claims.user
    /\ voice[id].request.expires > now

\* The second GET, and the factory's decision.
Admit(p) ==
    /\ at[p] = "admit"
    /\ Len(calls) < MaxCalls
    /\ LET d == draft[p]
       IN  calls' = IF IsUsable(d.request, d.id) THEN Append(calls, d.id) ELSE calls
    /\ Rest(p)
    /\ behind' = behind \ {p}
    /\ UNCHANGED <<now, store, built, faults, promised, terminated, raced, usedUntil, accepted>>

DoorNext ==
    \/ Next /\ UNCHANGED doorVars
    \/ \E p \in Processes :
        \/ \E t \in Tokens : Verify(p, t) \/ VerifyFails(p, t)
        \/ Lookup(p) \/ Admit(p)

DoorSpec == DoorInit /\ [][DoorNext]_<<vars, doorVars>>

-----------------------------------------------------------------------------
(* Properties *)

\* Once a terminate was answered no call is started for that session, whatever
\* the processes were doing for its call at the time.
ClosedIsNotAdmitted ==
    [][calls' # calls => calls'[Len(calls')] \notin terminated]_<<vars, doorVars>>

\* A token is accepted again by none of the processes, except within the last
\* second before it expires, which the lifetime of its jti leaves out.
RepeatIsExplained ==
    \A t \in Tokens : \A i \in 2..Len(accepted[t]) : ExpiresAt[t] - accepted[t][i] < Second

\* store.py:12 "Atomically mark a JTI as used for the token's remaining lifetime."
MarkedForItsLifetime ==
    \A t \in Tokens : accepted[t] # << >> /\ now < ExpiresAt[t] => now < usedUntil[t]

=============================================================================
