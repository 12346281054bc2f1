-------------------------- MODULE AdmissionProofs --------------------------
(***************************************************************************)
(* Theorems about the session store and the admission of callers, for any  *)
(* number of processes, requests, tokens, sessions and failed commands.    *)
(*                                                                         *)
(* Two processes may work on the call at once and overwrite each other, so *)
(* what the invariant holds on to is each session by itself: an id that is *)
(* about to be written for the first time is in no other hands (DraftInv), *)
(* and one that was written stays stored long enough and, once closed,     *)
(* closed (StoreInv).                                                      *)
(*                                                                         *)
(* What the backend was promised takes more: as long as nobody has raced,  *)
(* the decision of every process that was not overtaken is still right     *)
(* (UpToDate), and an id that is promised, or about to be, is the one the  *)
(* call leads to or opens no more (Leads).                                 *)
(***************************************************************************)
EXTENDS Admission, TLAPS

Written(id) == id \in Ids /\ voice[id].until > 0

Saving(p) == at[p] \in {"setVoice", "setCall"}

DraftInv ==
    \A p \in Processes :
        /\ Saving(p) => draft[p].id \in 1..built
        /\ at[p] = "setCall" => Written(draft[p].id)
        /\ at[p] = "setVoice" /\ draft[p].status = "CLOSED" => Written(draft[p].id)
        /\ at[p] = "setCall" /\ draft[p].status = "CLOSED" =>
               voice[draft[p].id].status = "CLOSED"
        /\ at[p] = "setVoice" /\ draft[p].status = "PREPARED" =>
               /\ ~Written(draft[p].id)
               /\ \A q \in Processes \ {p} : Saving(q) => draft[q].id # draft[p].id

StoreInv ==
    /\ \A id \in Ids : Written(id) =>
          id <= built /\ voice[id].until >= voice[id].request.expires
    /\ callKey.id # Nothing => Written(callKey.id)
    /\ \A id \in promised : Written(id)
    /\ \A id \in terminated : Written(id) /\ voice[id].status = "CLOSED"

SessionInv == TypeOK /\ DraftInv /\ StoreInv

\* A jti that was accepted is marked until less than a second before its token
\* expires; nothing else is accepted but in that second.
UsedInv ==
    /\ usedUntil \in [Tokens -> Nat]
    /\ accepted \in [Tokens -> Seq(Nat)]
    /\ calls \in Seq(Ids \cup {Nothing})
    /\ \A t \in Tokens : accepted[t] # << >> => usedUntil[t] > ExpiresAt[t] - Second
    /\ RepeatIsExplained

-----------------------------------------------------------------------------
(* Lifetimes *)

\* Division rounds down.
LEMMA DivRounds ==
    ASSUME NEW s \in Nat \ {0}, NEW x \in Int
    PROVE  x \div s \in Int /\ s * (x \div s) \in Int
           /\ s * (x \div s) <= x /\ x < s * (x \div s) + s
OBVIOUS

\* Some seconds are that many units, and one second at least.
LEMMA Seconds ==
    ASSUME NEW s \in Nat \ {0}, NEW k \in Int, k >= 1
    PROVE  s * k \in Nat /\ s * k >= s
OBVIOUS

\* A key written for a session outlives what the session was asked for.
LEMMA TtlLasts ==
    ASSUME NEW e \in Nat, now \in Nat
    PROVE  Ttl(e) \in Nat /\ Ttl(e) > 0 /\ now + Ttl(e) >= e
<1> DEFINE x == e - now + Second - 1
           k == x \div Second
<1>1. x \in Int /\ Second \in Nat \ {0} /\ x = e - now + Second - 1
  BY TimeAssumption
<1>2. Ttl(e) = Second * (IF k < 1 THEN 1 ELSE k)
  BY DEF Ttl
<1> HIDE DEF x
<1>3. k \in Int /\ Second * k \in Int /\ x < Second * k + Second
  BY <1>1, DivRounds
<1> HIDE DEF k
<1>4. CASE k < 1
  <2>1. Ttl(e) = Second * 1 /\ Second * 1 = Second
    BY <1>1, <1>2, <1>4
  <2>2. Second * k <= 0
    BY <1>1, <1>3, <1>4
  <2> QED BY <1>1, <1>3, <2>1, <2>2
<1>5. CASE k >= 1
  <2>1. Ttl(e) = Second * k
    BY <1>2, <1>3, <1>5
  <2>2. Second * k \in Nat /\ Second * k >= Second
    BY <1>1, <1>3, <1>5, Seconds
  <2> QED BY <1>1, <1>3, <2>1, <2>2
<1> QED BY <1>3, <1>4, <1>5

\* The mark of a jti is gone less than a second before the token expires.
LEMMA JtiTtlLasts ==
    ASSUME NEW t \in Tokens, now \in Nat
    PROVE  JtiTtl(t) \in Nat /\ now + JtiTtl(t) > ExpiresAt[t] - Second
<1> DEFINE x == ExpiresAt[t] - now
           k == x \div Second
<1>1. x \in Int /\ Second \in Nat \ {0} /\ x = ExpiresAt[t] - now /\ ExpiresAt[t] \in Nat
  BY TimeAssumption, TokensAssumption
<1>2. JtiTtl(t) = Second * (IF k < 1 THEN 1 ELSE k)
  BY DEF JtiTtl
<1> HIDE DEF x
<1>3. k \in Int /\ Second * k \in Int /\ x < Second * k + Second
  BY <1>1, DivRounds
<1> HIDE DEF k
<1>4. CASE k < 1
  <2>1. JtiTtl(t) = Second * 1 /\ Second * 1 = Second
    BY <1>1, <1>2, <1>4
  <2>2. Second * k <= 0
    BY <1>1, <1>3, <1>4
  <2> QED BY <1>1, <1>3, <2>1, <2>2
<1>5. CASE k >= 1
  <2>1. JtiTtl(t) = Second * k
    BY <1>2, <1>3, <1>5
  <2>2. Second * k \in Nat /\ Second * k >= Second
    BY <1>1, <1>3, <1>5, Seconds
  <2> QED BY <1>1, <1>3, <2>1, <2>2
<1> QED BY <1>3, <1>4, <1>5

-----------------------------------------------------------------------------
(* The sessions keep their invariant *)

\* Nothing is stored or under way at first.
LEMMA InitSessions == Init => SessionInv
<1> SUFFICES ASSUME Init PROVE SessionInv
  OBVIOUS
<1>1. NoRequest \in Terms /\ NoDraft \in Drafts
  BY DEF NoRequest, NoDraft, Terms, Drafts, Users, Statuses
<1>2. voice \in [Ids -> [request : Terms, status : Statuses, until : Nat]]
  BY <1>1 DEF Init, Statuses
<1>3. TypeOK
  <2>1. built \in 0..MaxSessions /\ faults \in 0..MaxFaults /\ now \in Nat
    BY BoundsAssumption DEF Init
  <2>2. callKey \in [id : Ids \cup {Nothing}, until : Nat]
    BY DEF Init
  <2>3. /\ at \in [Processes -> Steps] /\ draft \in [Processes -> Drafts]
        /\ ttl \in [Processes -> Nat] /\ \A p \in Processes : at[p] # "setCall"
    BY <1>1 DEF Init, Steps
  <2>4. /\ promised \subseteq Ids /\ terminated \subseteq Ids
        /\ behind \subseteq Processes /\ raced \in BOOLEAN
    BY DEF Init
  <2> QED BY <1>2, <2>1, <2>2, <2>3, <2>4 DEF TypeOK
<1>4. DraftInv
  BY DEF Init, DraftInv, Saving
<1>5. StoreInv
  BY DEF Init, StoreInv, Written
<1> QED BY <1>3, <1>4, <1>5 DEF SessionInv

\* A process that goes on, or rests, without saving anything next.
LEMMA QuietKeeps ==
    ASSUME SessionInv, NEW p \in Processes,
           NEW step \in Steps \ {"setVoice", "setCall"}, NEW d \in Drafts,
           at' = [at EXCEPT ![p] = step], draft' = [draft EXCEPT ![p] = d],
           ttl' = ttl \/ ttl' = [ttl EXCEPT ![p] = 0],
           \A id \in promised' : id \in promised \/ Written(id),
           faults' \in 0..MaxFaults, behind' \subseteq Processes, raced' \in BOOLEAN,
           UNCHANGED <<now, store, built, terminated>>
    PROVE  SessionInv'
<1> USE DEF SessionInv, store
<1>1. \A q \in Processes : Saving(q)' => q # p /\ Saving(q) /\ at'[q] = at[q] /\ draft'[q] = draft[q]
  BY DEF Saving, TypeOK
<1>2. \A id : Written(id)' <=> Written(id)
  BY DEF Written
<1>3. TypeOK'
  <2>1. \A q \in Processes : at'[q] = "setCall" => ttl'[q] > 0
    BY <1>1 DEF TypeOK, Saving
  <2>2. ttl' \in [Processes -> Nat]
    BY DEF TypeOK
  <2>3. at' \in [Processes -> Steps] /\ draft' \in [Processes -> Drafts]
    BY DEF TypeOK
  <2>4. promised' \subseteq Ids
    BY DEF TypeOK, Written
  <2> QED BY <2>1, <2>2, <2>3, <2>4 DEF TypeOK
<1>4. DraftInv'
  BY <1>1, <1>2 DEF DraftInv, Saving
<1>5. StoreInv'
  BY <1>2 DEF StoreInv
<1> QED BY <1>3, <1>4, <1>5

\* A new session has an id nobody else has and no key has held.
LEMMA NewSessionKeeps ==
    ASSUME SessionInv, NEW p \in Processes, NEW r \in Terms, NewSession(p, r),
           behind' \subseteq Processes,
           UNCHANGED <<now, store, faults, promised, terminated, raced>>
    PROVE  SessionInv'
<1> USE DEF SessionInv, store
<1> DEFINE d == [id |-> built + 1, request |-> r, status |-> "PREPARED"]
<1>1. /\ built \in Nat /\ built' = built + 1 /\ built' \in 0..MaxSessions /\ built + 1 \in Ids
      /\ at' = [at EXCEPT ![p] = "setVoice"] /\ draft' = [draft EXCEPT ![p] = d]
      /\ UNCHANGED ttl
  BY BoundsAssumption DEF NewSession, Work, TypeOK, Ids
<1>2. d \in Drafts
  BY <1>1 DEF Drafts, Statuses
<1>3. at'[p] = "setVoice" /\ draft'[p] = d
  BY <1>1 DEF TypeOK
<1>4. \A q \in Processes \ {p} : at'[q] = at[q] /\ draft'[q] = draft[q]
  BY <1>1 DEF TypeOK
<1>5. \A id : Written(id)' <=> Written(id)
  BY DEF Written
<1> HIDE DEF d
<1>6. TypeOK'
  <2>1. at' \in [Processes -> Steps] /\ draft' \in [Processes -> Drafts]
    BY <1>1, <1>2 DEF TypeOK, Steps
  <2>2. \A q \in Processes : at'[q] = "setCall" => ttl'[q] > 0
    BY <1>1, <1>3, <1>4 DEF TypeOK
  <2> QED BY <1>1, <2>1, <2>2 DEF TypeOK
<1>7. ~Written(built + 1)
  <2>1. ~(built + 1 <= built)
    BY <1>1
  <2> QED BY <2>1 DEF StoreInv, Written
<1>8. \A q \in Processes \ {p} : Saving(q)' => Saving(q) /\ draft'[q].id \in 1..built
  BY <1>4 DEF DraftInv, Saving
<1>9. DraftInv'
  <2>1. d.id = built + 1 /\ d.status = "PREPARED" /\ d.id \in 1..(built + 1)
    BY <1>1 DEF d
  <2>2. \A q \in Processes \ {p} : Saving(q)' => draft'[q].id # d.id
    BY <1>1, <1>8, <2>1
  <2>3. \A q \in Processes : Saving(q)' => draft'[q].id \in 1..built'
    BY <1>1, <1>3, <1>8, <2>1
  <2>4. \A q \in Processes : at'[q] = "setCall" => Written(draft[q].id)'
    BY <1>3, <1>4, <1>5 DEF DraftInv, Written
  <2>5. \A q \in Processes :
            at'[q] = "setVoice" /\ draft'[q].status = "CLOSED" => Written(draft[q].id)'
    BY <1>3, <1>4, <1>5, <2>1 DEF DraftInv, Written
  <2>6. \A q \in Processes : at'[q] = "setCall" /\ draft'[q].status = "CLOSED" =>
            voice'[draft'[q].id].status = "CLOSED"
    BY <1>3, <1>4 DEF DraftInv
  <2>7. ASSUME NEW q \in Processes, at'[q] = "setVoice", draft'[q].status = "PREPARED"
        PROVE  /\ ~Written(draft[q].id)'
               /\ \A u \in Processes \ {q} : Saving(u)' => draft'[u].id # draft'[q].id
    <3>1. CASE q = p
      BY <1>3, <1>5, <1>7, <2>1, <2>2, <3>1 DEF Written
    <3>2. CASE q # p
      <4>1. at[q] = "setVoice" /\ draft[q].status = "PREPARED" /\ draft'[q] = draft[q]
        BY <1>4, <2>7, <3>2
      <4>2. Saving(q)'
        BY <2>7 DEF Saving
      <4>3. draft'[q].id # draft'[p].id
        BY <1>3, <2>2, <3>2, <4>2
      <4>4. \A u \in Processes \ {p, q} : Saving(u)' => draft'[u].id # draft'[q].id
        BY <1>4, <1>8, <4>1 DEF DraftInv
      <4>5. ~Written(draft[q].id)'
        BY <1>5, <4>1 DEF DraftInv, Written
      <4> QED BY <4>3, <4>4, <4>5
    <3> QED BY <3>1, <3>2
  <2> QED BY <2>3, <2>4, <2>5, <2>6, <2>7 DEF DraftInv
<1>10. StoreInv'
  <2>1. \A id \in Ids : id <= built => id <= built'
    BY <1>1 DEF Ids
  <2> QED BY <1>1, <1>5, <2>1 DEF StoreInv
<1> QED BY <1>6, <1>9, <1>10

\* A session that is written was not closed before, or is now.
LEMMA VoiceWritten ==
    ASSUME SessionInv, NEW p \in Processes, at[p] = "setVoice", WriteVoice(p),
           UNCHANGED <<now, built, terminated>>
    PROVE  /\ voice' \in [Ids -> [request : Terms, status : Statuses, until : Nat]]
           /\ draft[p].id \in Ids /\ voice'[draft[p].id].status = draft[p].status
           /\ \A id : (id \in Ids /\ voice'[id].until > 0) <=> Written(id) \/ id = draft[p].id
           /\ \A id \in Ids : Written(id) /\ voice[id].status = "CLOSED" =>
                  voice'[id].status = "CLOSED"
           /\ StoreInv'
<1> USE DEF SessionInv
<1> DEFINE d == draft[p]
           key == [request |-> d.request, status |-> d.status,
                   until |-> now + Ttl(d.request.expires)]
<1>1. /\ d.id \in 1..built /\ d.id \in Ids /\ d.request \in Terms /\ d.status \in Statuses
      /\ d.request.expires \in Nat /\ now \in Nat
  <2>1. d \in Drafts /\ built \in 0..MaxSessions /\ now \in Nat
    BY DEF TypeOK
  <2>2. d.id \in 1..built
    BY DEF DraftInv, Saving
  <2>3. d.id \in Ids
    BY <2>1, <2>2, BoundsAssumption DEF Ids
  <2> QED BY <2>1, <2>2, <2>3 DEF Drafts, Terms
<1>2. /\ voice' = [voice EXCEPT ![d.id] = key]
      /\ promised' = promised \/ promised' = promised \ {d.id}
      /\ UNCHANGED callKey
  BY DEF WriteVoice
<1>3. /\ key \in [request : Terms, status : Statuses, until : Nat]
      /\ key.until > 0 /\ key.until >= key.request.expires
      /\ key.status = d.status
  BY <1>1, TtlLasts
<1> HIDE DEF key
<1>4. voice' \in [Ids -> [request : Terms, status : Statuses, until : Nat]]
  BY <1>1, <1>2, <1>3 DEF TypeOK
<1>5. voice'[d.id] = key /\ \A id \in Ids \ {d.id} : voice'[id] = voice[id]
  BY <1>1, <1>2 DEF TypeOK
<1>6. \A id : (id \in Ids /\ voice'[id].until > 0) <=> Written(id) \/ id = d.id
  BY <1>1, <1>3, <1>5 DEF Written
<1>7. \A id \in Ids : Written(id) /\ voice[id].status = "CLOSED" => voice'[id].status = "CLOSED"
  <2>1. d.status = "PREPARED" => ~Written(d.id)
    BY DEF DraftInv
  <2>2. d.status = "PREPARED" \/ d.status = "CLOSED"
    BY <1>1 DEF Statuses
  <2> QED BY <1>3, <1>5, <2>1, <2>2
<1>8. StoreInv'
  <2>1. \A id : Written(id)' <=> Written(id) \/ id = d.id
    BY <1>6 DEF Written
  <2>2. ASSUME NEW id \in Ids, Written(id)'
        PROVE  id <= built' /\ voice'[id].until >= voice'[id].request.expires
    <3>1. CASE id = d.id
      <4>1. d.id <= built
        BY <1>1 DEF TypeOK
      <4> QED BY <1>3, <1>5, <3>1, <4>1
    <3>2. CASE id # d.id
      BY <1>5, <2>1, <2>2, <3>2 DEF StoreInv
    <3> QED BY <3>1, <3>2
  <2>3. callKey'.id # Nothing => Written(callKey.id)'
    BY <1>2, <1>6 DEF StoreInv, Written
  <2>4. \A id \in promised' : Written(id)'
    BY <1>2, <2>1 DEF StoreInv
  <2>5. \A id \in terminated' : Written(id)' /\ voice'[id].status = "CLOSED"
    BY <1>7, <2>1 DEF StoreInv, Written
  <2> QED BY <2>2, <2>3, <2>4, <2>5 DEF StoreInv
<1> QED BY <1>1, <1>3, <1>4, <1>5, <1>6, <1>7, <1>8

\* The first command of save: the process goes on to the second, or has failed.
LEMMA VoiceKeeps ==
    ASSUME SessionInv, NEW p \in Processes, at[p] = "setVoice", WriteVoice(p),
           UNCHANGED <<now, built, terminated>>,
           \/ /\ at' = [at EXCEPT ![p] = "setCall"] /\ UNCHANGED draft
              /\ ttl' = [ttl EXCEPT ![p] = Ttl(draft[p].request.expires)]
           \/ Rest(p),
           faults' \in 0..MaxFaults, behind' \subseteq Processes
    PROVE  SessionInv'
<1> USE DEF SessionInv
<1>0. /\ voice' \in [Ids -> [request : Terms, status : Statuses, until : Nat]]
      /\ draft[p].id \in Ids /\ voice'[draft[p].id].status = draft[p].status
      /\ \A id : (id \in Ids /\ voice'[id].until > 0) <=> Written(id) \/ id = draft[p].id
      /\ \A id \in Ids : Written(id) /\ voice[id].status = "CLOSED" =>
             voice'[id].status = "CLOSED"
      /\ StoreInv'
  BY VoiceWritten
<1>1. \A q \in Processes \ {p} : at'[q] = at[q] /\ draft'[q] = draft[q] /\ ttl'[q] = ttl[q]
  BY DEF Rest, TypeOK
<1>2. at'[p] \in {"setCall", "idle"} /\ (at'[p] = "setCall" => draft'[p] = draft[p] /\ ttl'[p] > 0)
      /\ ttl'[p] \in Nat
  <2>1. draft[p].request.expires \in Nat /\ now \in Nat
    BY DEF TypeOK, Drafts, Terms
  <2>2. Ttl(draft[p].request.expires) \in Nat /\ Ttl(draft[p].request.expires) > 0
    BY <2>1, TtlLasts
  <2> QED BY <2>2 DEF Rest, TypeOK
<1>3. TypeOK'
  <2>1. at' \in [Processes -> Steps]
    BY DEF Rest, TypeOK, Steps
  <2>2. draft' \in [Processes -> Drafts]
    <3>1. NoDraft \in Drafts
      BY DEF NoRequest, NoDraft, Terms, Drafts, Users, Statuses
    <3> QED BY <3>1 DEF Rest, TypeOK
  <2>3. ttl' \in [Processes -> Nat]
    BY <1>2 DEF Rest, TypeOK
  <2>4. \A q \in Processes : at'[q] = "setCall" => ttl'[q] > 0
    BY <1>1, <1>2 DEF TypeOK
  <2>5. promised' \subseteq Ids /\ raced' \in BOOLEAN /\ UNCHANGED callKey
    BY DEF WriteVoice, TypeOK
  <2> QED BY <1>0, <2>1, <2>2, <2>3, <2>4, <2>5 DEF TypeOK
<1>4. DraftInv'
  <2> SUFFICES ASSUME NEW q \in Processes
               PROVE  /\ Saving(q)' => draft'[q].id \in 1..built
                      /\ at'[q] = "setCall" => Written(draft[q].id)'
                      /\ at'[q] = "setVoice" /\ draft'[q].status = "CLOSED" => Written(draft[q].id)'
                      /\ at'[q] = "setCall" /\ draft'[q].status = "CLOSED" =>
                             voice'[draft'[q].id].status = "CLOSED"
                      /\ at'[q] = "setVoice" /\ draft'[q].status = "PREPARED" =>
                             /\ ~Written(draft[q].id)'
                             /\ \A u \in Processes \ {q} : Saving(u)' => draft'[u].id # draft'[q].id
    BY DEF DraftInv
  <2>1. CASE q = p
    BY <1>0, <1>2, <2>1 DEF DraftInv, Saving, Written
  <2>2. CASE q # p
    <3>1. at'[q] = at[q] /\ draft'[q] = draft[q] /\ Saving(p)
      BY <1>1, <2>2 DEF Saving
    <3>2. /\ Saving(q)' => draft'[q].id \in 1..built
          /\ at'[q] = "setCall" => Written(draft[q].id)'
          /\ at'[q] = "setVoice" /\ draft'[q].status = "CLOSED" => Written(draft[q].id)'
      BY <1>0, <3>1 DEF DraftInv, Saving, Written
    <3>3. at'[q] = "setCall" /\ draft'[q].status = "CLOSED" => voice'[draft'[q].id].status = "CLOSED"
      BY <1>0, <3>1 DEF DraftInv, Written
    <3>4. ASSUME at'[q] = "setVoice", draft'[q].status = "PREPARED"
          PROVE  /\ ~Written(draft[q].id)'
                 /\ \A u \in Processes \ {q} : Saving(u)' => draft'[u].id # draft'[q].id
      <4>1. /\ ~Written(draft[q].id)
            /\ \A u \in Processes \ {q} : Saving(u) => draft[u].id # draft[q].id
        BY <3>1, <3>4 DEF DraftInv
      <4>2. ~Written(draft[q].id)'
        BY <1>0, <2>2, <3>1, <4>1 DEF Written
      <4>3. \A u \in Processes : Saving(u)' => Saving(u) /\ draft'[u].id = draft[u].id
        BY <1>1, <1>2, <3>1 DEF Saving
      <4> QED BY <3>1, <4>1, <4>2, <4>3
    <3> QED BY <3>2, <3>3, <3>4
  <2> QED BY <2>1, <2>2
<1> QED BY <1>0, <1>3, <1>4

\* The second command of save: what the call leads to was stored before.
LEMMA CallKeeps ==
    ASSUME SessionInv, NEW p \in Processes, at[p] = "setCall", WriteCall(p), Rest(p),
           promised' \subseteq promised \cup {draft[p].id},
           \/ UNCHANGED terminated
           \/ draft[p].status = "CLOSED" /\ terminated' = terminated \cup {draft[p].id},
           faults' \in 0..MaxFaults, behind' \subseteq Processes,
           UNCHANGED <<now, built>>
    PROVE  SessionInv'
<1> USE DEF SessionInv
<1>1. /\ draft[p] \in Drafts /\ Written(draft[p].id) /\ draft[p].id \in Ids
      /\ draft[p].status = "CLOSED" => voice[draft[p].id].status = "CLOSED"
  BY DEF DraftInv, TypeOK, Written
<1>2. UNCHANGED voice /\ callKey' = [id |-> draft[p].id, until |-> now + ttl[p]]
      /\ raced' \in BOOLEAN
  BY DEF WriteCall, TypeOK
<1>3. \A id : Written(id)' <=> Written(id)
  BY <1>2 DEF Written
<1>4. \A q \in Processes : Saving(q)' => q # p /\ Saving(q) /\ at'[q] = at[q] /\ draft'[q] = draft[q]
  BY DEF Saving, Rest, TypeOK
<1>5. TypeOK'
  <2>1. NoDraft \in Drafts
    BY DEF NoRequest, NoDraft, Terms, Drafts, Users, Statuses
  <2>2. at' \in [Processes -> Steps] /\ draft' \in [Processes -> Drafts]
    BY <2>1 DEF Rest, TypeOK, Steps
  <2>3. ttl' \in [Processes -> Nat]
    BY DEF Rest, TypeOK
  <2>4. \A q \in Processes : at'[q] = "setCall" => ttl'[q] > 0
    BY <1>4 DEF Rest, TypeOK, Saving
  <2>5. callKey' \in [id : Ids \cup {Nothing}, until : Nat]
    BY <1>1, <1>2 DEF TypeOK
  <2>6. promised' \subseteq Ids /\ terminated' \subseteq Ids
    BY <1>1 DEF TypeOK
  <2> QED BY <1>2, <2>2, <2>3, <2>4, <2>5, <2>6 DEF TypeOK
<1>6. DraftInv'
  BY <1>2, <1>3, <1>4 DEF DraftInv, Saving
<1>7. StoreInv'
  <2>1. callKey'.id # Nothing => Written(callKey.id)'
    BY <1>1, <1>2 DEF Written
  <2>2. \A id \in promised' : Written(id)'
    BY <1>1, <1>3 DEF StoreInv
  <2>3. \A id \in terminated' : Written(id)' /\ voice'[id].status = "CLOSED"
    BY <1>1, <1>2, <1>3 DEF StoreInv
  <2> QED BY <1>2, <1>3, <2>1, <2>2, <2>3 DEF StoreInv
<1> QED BY <1>5, <1>6, <1>7

\* A request, up to the answer of its first GET.
LEMMA CreateKeeps ==
    ASSUME SessionInv, NEW p \in Processes, NEW r \in Requests, Create(p, r)
    PROVE  SessionInv'
<1>1. r \in Terms
  BY RequestsAssumption DEF Terms, Users
<1>2. CASE GetCall = Nothing
  <2>1. NewSession(p, r) /\ UNCHANGED <<now, store, faults, history>>
    BY <1>2 DEF Create
  <2> QED BY <1>1, <2>1, NewSessionKeeps DEF history, SessionInv, TypeOK
<1>3. CASE GetCall # Nothing
  <2> DEFINE d == [id |-> GetCall, request |-> r, status |-> "PREPARED"]
  <2>1. d \in Drafts
    BY <1>1 DEF Drafts, Statuses, GetCall, SessionInv, TypeOK
  <2>2. Work(p, "compare", d) /\ UNCHANGED <<now, store, built, faults, history>>
    BY <1>3 DEF Create
  <2> HIDE DEF d
  <2>3. "compare" \in Steps \ {"setVoice", "setCall"}
    BY DEF Steps
  <2>4. /\ at' = [at EXCEPT ![p] = "compare"] /\ draft' = [draft EXCEPT ![p] = d] /\ ttl' = ttl
        /\ UNCHANGED <<now, store, built, terminated, promised, faults, behind, raced>>
    BY <2>2 DEF Work, history
  <2>5. faults' \in 0..MaxFaults /\ behind' \subseteq Processes /\ raced' \in BOOLEAN
    BY <2>4 DEF SessionInv, TypeOK
  <2> QED BY <2>1, <2>3, <2>4, <2>5, QuietKeeps
<1> QED BY <1>2, <1>3

\* A process rests after a request that stored nothing last.
LEMMA RestKeeps ==
    ASSUME SessionInv, NEW p \in Processes, Rest(p),
           \A id \in promised' : id \in promised \/ Written(id),
           faults' \in 0..MaxFaults, behind' \subseteq Processes, raced' \in BOOLEAN,
           UNCHANGED <<now, store, built, terminated>>
    PROVE  SessionInv'
<1>1. NoDraft \in Drafts /\ "idle" \in Steps \ {"setVoice", "setCall"}
  BY DEF NoRequest, NoDraft, Terms, Drafts, Users, Statuses, Steps
<1> QED BY <1>1, QuietKeeps DEF Rest

\* What create promises of an existing session is stored.
LEMMA CompareKeeps ==
    ASSUME SessionInv, NEW p \in Processes, Compare(p)
    PROVE  SessionInv'
<1>1. /\ UNCHANGED <<now, store, faults, terminated, raced>>
      /\ behind' \subseteq Processes /\ raced' \in BOOLEAN /\ faults' \in 0..MaxFaults
  BY DEF Compare, SessionInv, TypeOK
<1>2. draft[p] \in Drafts
  BY DEF SessionInv, TypeOK
<1>3. CASE NewSession(p, draft[p].request) /\ UNCHANGED promised
  <2>1. draft[p].request \in Terms
    BY <1>2 DEF Drafts
  <2> QED BY <1>1, <1>3, <2>1, NewSessionKeeps
<1>4. CASE /\ Open(draft[p].id) /\ Rest(p) /\ UNCHANGED built
           /\ promised' = promised \/ promised' = promised \cup {draft[p].id}
  <2>1. Written(draft[p].id)
    <3>1. draft[p].id \in Ids /\ now \in Nat /\ voice[draft[p].id].until \in Nat
      BY <1>2, <1>4 DEF Open, Drafts, SessionInv, TypeOK
    <3> QED BY <1>4, <3>1 DEF Open, Live, Written
  <2>2. \A id \in promised' : id \in promised \/ Written(id)
    BY <1>4, <2>1
  <2> QED BY <1>1, <1>4, <2>2, RestKeeps
<1> QED BY <1>3, <1>4 DEF Compare

\* terminate of a session that is stored.
LEMMA TerminateKeeps ==
    ASSUME SessionInv, NEW p \in Processes, NEW id \in promised, Terminate(p, id)
    PROVE  SessionInv'
<1> USE DEF SessionInv
<1> DEFINE d == [id |-> id, request |-> voice[id].request, status |-> "CLOSED"]
<1>1. /\ at[p] = "idle" /\ at' = [at EXCEPT ![p] = "setVoice"] /\ draft' = [draft EXCEPT ![p] = d]
      /\ UNCHANGED <<ttl, now, voice, callKey, built, faults, promised, terminated, behind, raced>>
  BY DEF Terminate, Work, store, history
<1>2. Written(id) /\ id \in Ids /\ id \in 1..built
  BY DEF StoreInv, Written, TypeOK, Ids
<1>3. d \in Drafts /\ d.id = id /\ d.status = "CLOSED"
  BY <1>2 DEF TypeOK, Drafts, Statuses
<1> HIDE DEF d
<1>4. at'[p] = "setVoice" /\ draft'[p] = d
  BY <1>1 DEF TypeOK
<1>5. \A q \in Processes \ {p} : at'[q] = at[q] /\ draft'[q] = draft[q]
  BY <1>1 DEF TypeOK
<1>6. TypeOK'
  <2>1. at' \in [Processes -> Steps] /\ draft' \in [Processes -> Drafts]
    BY <1>1, <1>3 DEF TypeOK, Steps
  <2>2. \A q \in Processes : at'[q] = "setCall" => ttl'[q] > 0
    BY <1>1, <1>4, <1>5 DEF TypeOK
  <2> QED BY <1>1, <2>1, <2>2 DEF TypeOK
<1>7. DraftInv'
  <2> SUFFICES ASSUME NEW q \in Processes
               PROVE  /\ Saving(q)' => draft'[q].id \in 1..built
                      /\ at'[q] = "setCall" => Written(draft[q].id)'
                      /\ at'[q] = "setVoice" /\ draft'[q].status = "CLOSED" => Written(draft[q].id)'
                      /\ at'[q] = "setCall" /\ draft'[q].status = "CLOSED" =>
                             voice'[draft'[q].id].status = "CLOSED"
                      /\ at'[q] = "setVoice" /\ draft'[q].status = "PREPARED" =>
                             /\ ~Written(draft[q].id)'
                             /\ \A u \in Processes \ {q} : Saving(u)' => draft'[u].id # draft'[q].id
    BY <1>1 DEF DraftInv
  <2>1. CASE q = p
    BY <1>1, <1>2, <1>3, <1>4, <2>1 DEF Written
  <2>2. CASE q # p
    <3>1. at'[q] = at[q] /\ draft'[q] = draft[q]
      BY <1>5, <2>2
    <3>2. /\ Saving(q)' => draft'[q].id \in 1..built
          /\ at'[q] = "setCall" => Written(draft[q].id)'
          /\ at'[q] = "setVoice" /\ draft'[q].status = "CLOSED" => Written(draft[q].id)'
          /\ at'[q] = "setCall" /\ draft'[q].status = "CLOSED" =>
                 voice'[draft'[q].id].status = "CLOSED"
      BY <1>1, <3>1 DEF DraftInv, Saving, Written
    <3>3. ASSUME at'[q] = "setVoice", draft'[q].status = "PREPARED"
          PROVE  /\ ~Written(draft[q].id)'
                 /\ \A u \in Processes \ {q} : Saving(u)' => draft'[u].id # draft'[q].id
      <4>1. /\ ~Written(draft[q].id)
            /\ \A u \in Processes \ {q} : Saving(u) => draft[u].id # draft[q].id
        BY <3>1, <3>3 DEF DraftInv
      <4>2. ~Written(draft[q].id)' /\ draft'[q].id # id
        BY <1>1, <1>2, <3>1, <4>1 DEF Written
      <4>3. \A u \in Processes \ {p} : Saving(u)' => Saving(u) /\ draft'[u].id = draft[u].id
        BY <1>5 DEF Saving
      <4> QED BY <1>3, <1>4, <3>1, <4>1, <4>2, <4>3
    <3> QED BY <3>2, <3>3
  <2> QED BY <2>1, <2>2
<1>8. StoreInv'
  BY <1>1 DEF StoreInv, Written
<1> QED BY <1>6, <1>7, <1>8

\* A command fails only within the bound.
LEMMA OneMoreFault ==
    ASSUME SessionInv, faults < MaxFaults, faults' = faults + 1
    PROVE  faults' \in 0..MaxFaults
<1>1. faults \in 0..MaxFaults /\ MaxFaults \in Nat
  BY BoundsAssumption DEF SessionInv, TypeOK
<1> QED BY <1>1

\* save, command by command, and a request that fails before or after one.
LEMMA SaveKeeps ==
    ASSUME SessionInv, NEW p \in Processes, SetVoice(p) \/ SetCall(p) \/ Fail(p)
    PROVE  SessionInv'
<1>0. /\ faults' \in 0..MaxFaults /\ behind' \subseteq Processes
      /\ UNCHANGED <<now, built>>
  <2>1. behind' \subseteq Processes /\ UNCHANGED <<now, built>>
    BY DEF SetVoice, SetCall, Fail, SessionInv, TypeOK, Busy
  <2>2. CASE UNCHANGED faults
    BY <2>1, <2>2 DEF SessionInv, TypeOK
  <2>3. CASE Fail(p)
    <3>1. faults' \in 0..MaxFaults
      BY <2>3, OneMoreFault DEF Fail
    <3> QED BY <2>1, <3>1
  <2> QED BY <2>2, <2>3 DEF SetVoice, SetCall
<1>1. CASE SetVoice(p)
  BY <1>0, <1>1, VoiceKeeps DEF SetVoice
<1>2. CASE SetCall(p)
  <2>1. /\ promised' \subseteq promised \cup {draft[p].id}
        /\ \/ UNCHANGED terminated
           \/ draft[p].status = "CLOSED" /\ terminated' = terminated \cup {draft[p].id}
    <3>1. draft[p].status \in {"PREPARED", "CLOSED"}
      BY DEF SessionInv, TypeOK, Drafts, Statuses
    <3> QED BY <1>2, <3>1 DEF SetCall
  <2> QED BY <1>0, <1>2, <2>1, CallKeeps DEF SetCall
<1>3. CASE Fail(p) /\ UNCHANGED <<store, promised, raced>>
  <2>1. Rest(p) /\ UNCHANGED <<promised, terminated, store>> /\ raced' \in BOOLEAN
    BY <1>3 DEF Fail, SessionInv, TypeOK
  <2> QED BY <1>0, <2>1, RestKeeps
<1>4. CASE Fail(p) /\ at[p] = "setVoice" /\ WriteVoice(p)
  BY <1>0, <1>4, VoiceKeeps DEF Fail
<1>5. CASE Fail(p) /\ at[p] = "setCall" /\ WriteCall(p) /\ UNCHANGED promised
  <2>1. Rest(p) /\ UNCHANGED terminated /\ promised' \subseteq promised \cup {draft[p].id}
    BY <1>5 DEF Fail
  <2> QED BY <1>0, <1>5, <2>1, CallKeeps
<1> QED BY <1>1, <1>2, <1>3, <1>4, <1>5 DEF Fail

\* No invariant is about the clock alone.
LEMMA ClockKeeps ==
    ASSUME SessionInv, now' \in Nat,
           UNCHANGED <<store, built, work, promised, terminated, behind, raced>>,
           faults' \in 0..MaxFaults
    PROVE  SessionInv'
<1> USE DEF SessionInv, store, work
<1>1. TypeOK'
  BY DEF TypeOK
<1>2. DraftInv'
  BY DEF DraftInv, Saving, Written
<1>3. StoreInv'
  BY DEF StoreInv, Written
<1> QED BY <1>1, <1>2, <1>3

\* Letting a caller in reads the store and leaves it alone.
LEMMA DoorKeeps ==
    ASSUME SessionInv, NEW p \in Processes,
           \/ \E t \in Tokens : Verify(p, t) \/ VerifyFails(p, t)
           \/ Lookup(p) \/ Admit(p)
    PROVE  SessionInv'
<1>1. ASSUME NEW t \in Tokens, Verify(p, t) PROVE SessionInv'
  <2> DEFINE d == [NoDraft EXCEPT !.request = [user |-> UserOf[t], expires |-> ExpiresAt[t]]]
  <2>1. d \in Drafts
    BY TokensAssumption DEF NoRequest, NoDraft, Terms, Drafts, Statuses
  <2>2. /\ at' = [at EXCEPT ![p] = "lookup"] /\ draft' = [draft EXCEPT ![p] = d] /\ ttl' = ttl
        /\ UNCHANGED <<now, store, built, terminated, promised, faults, behind, raced>>
    BY <1>1 DEF Verify, Work, history
  <2> HIDE DEF d
  <2>3. faults' \in 0..MaxFaults /\ behind' \subseteq Processes /\ raced' \in BOOLEAN
    BY <2>2 DEF SessionInv, TypeOK
  <2>4. "lookup" \in Steps \ {"setVoice", "setCall"}
    BY DEF Steps
  <2> QED BY <2>1, <2>2, <2>3, <2>4, QuietKeeps
<1>2. ASSUME NEW t \in Tokens, VerifyFails(p, t) PROVE SessionInv'
  <2>1. /\ now' \in Nat
        /\ UNCHANGED <<store, built, work, promised, terminated, behind, raced>>
    BY <1>2 DEF VerifyFails, history, SessionInv, TypeOK
  <2>2. faults' \in 0..MaxFaults
    BY <1>2, OneMoreFault DEF VerifyFails
  <2> QED BY <2>1, <2>2, ClockKeeps
<1>3. CASE Lookup(p)
  <2>1. /\ UNCHANGED <<now, store, built, faults, promised, terminated, raced>>
        /\ faults' \in 0..MaxFaults /\ behind' \subseteq Processes /\ raced' \in BOOLEAN
    BY <1>3 DEF Lookup, SessionInv, TypeOK
  <2>2. CASE Rest(p)
    BY <2>1, <2>2, RestKeeps
  <2>3. CASE Work(p, "admit", [draft[p] EXCEPT !.id = GetCall])
    <3> DEFINE d == [draft[p] EXCEPT !.id = GetCall]
    <3>1. d \in Drafts
      BY DEF SessionInv, TypeOK, Drafts, GetCall
    <3> HIDE DEF d
    <3>2. at' = [at EXCEPT ![p] = "admit"] /\ draft' = [draft EXCEPT ![p] = d] /\ ttl' = ttl
      BY <2>3 DEF Work, d
    <3>3. "admit" \in Steps \ {"setVoice", "setCall"}
      BY DEF Steps
    <3> QED BY <2>1, <3>1, <3>2, <3>3, QuietKeeps
  <2> QED BY <1>3, <2>2, <2>3 DEF Lookup
<1>4. CASE Admit(p)
  <2>1. /\ Rest(p) /\ UNCHANGED <<now, store, built, faults, promised, terminated, raced>>
        /\ faults' \in 0..MaxFaults /\ behind' \subseteq Processes /\ raced' \in BOOLEAN
    BY <1>4 DEF Admit, SessionInv, TypeOK
  <2> QED BY <2>1, RestKeeps
<1> QED BY <1>1, <1>2, <1>3, <1>4

\* Every step of the requests and of the door, and every step that leaves them
\* alone, keeps the invariant.
LEMMA NextSessions == SessionInv /\ [DoorNext]_<<vars, doorVars>> => SessionInv'
<1> SUFFICES ASSUME SessionInv, [DoorNext]_<<vars, doorVars>> PROVE SessionInv'
  OBVIOUS
<1>1. CASE Next
  <2>1. CASE Tick
    <3>1. /\ now' \in Nat /\ faults' \in 0..MaxFaults
          /\ UNCHANGED <<store, built, work, promised, terminated, behind, raced>>
      BY <2>1 DEF Tick, history, SessionInv, TypeOK
    <3> QED BY <3>1, ClockKeeps
  <2> QED BY <1>1, <2>1, CreateKeeps, CompareKeeps, TerminateKeeps, SaveKeeps DEF Next
<1>2. ASSUME NEW p \in Processes,
             \/ \E t \in Tokens : Verify(p, t) \/ VerifyFails(p, t)
             \/ Lookup(p) \/ Admit(p)
      PROVE  SessionInv'
  BY <1>2, DoorKeeps
<1>3. CASE UNCHANGED <<vars, doorVars>>
  <2>1. /\ now' \in Nat /\ faults' \in 0..MaxFaults
        /\ UNCHANGED <<store, built, work, promised, terminated, behind, raced>>
    BY <1>3 DEF vars, history, SessionInv, TypeOK
  <2> QED BY <2>1, ClockKeeps
<1> QED BY <1>1, <1>2, <1>3 DEF DoorNext

\* No token was accepted and no call started at first.
LEMMA InitUsed == DoorInit => UsedInv
<1> SUFFICES ASSUME DoorInit PROVE UsedInv
  OBVIOUS
<1>1. /\ usedUntil = [t \in Tokens |-> 0] /\ accepted = [t \in Tokens |-> << >>]
      /\ calls = << >>
  BY DEF DoorInit
<1>2. /\ usedUntil \in [Tokens -> Nat] /\ accepted \in [Tokens -> Seq(Nat)]
      /\ calls \in Seq(Ids \cup {Nothing})
  BY <1>1
<1>3. \A t \in Tokens : accepted[t] = << >> /\ Len(accepted[t]) = 0
  BY <1>1
<1>4. RepeatIsExplained
  BY <1>3 DEF RepeatIsExplained
<1> QED BY <1>2, <1>3, <1>4 DEF UsedInv

-----------------------------------------------------------------------------
(* Tokens *)

\* Marking a jti keeps it marked until its token is all but over.
LEMMA ConsumeMarks ==
    ASSUME SessionInv, UsedInv, NEW t \in Tokens, Consume(t)
    PROVE  /\ usedUntil' \in [Tokens -> Nat]
           /\ usedUntil'[t] > ExpiresAt[t] - Second
           /\ \A u \in Tokens \ {t} : usedUntil'[u] = usedUntil[u]
<1>1. now \in Nat
  BY DEF SessionInv, TypeOK
<1>2. JtiTtl(t) \in Nat /\ now + JtiTtl(t) > ExpiresAt[t] - Second
  BY <1>1, JtiTtlLasts
<1>3. usedUntil' = [usedUntil EXCEPT ![t] = now + JtiTtl(t)] /\ usedUntil \in [Tokens -> Nat]
  BY DEF Consume, UsedInv
<1>4. now + JtiTtl(t) \in Nat
  BY <1>1, <1>2
<1> HIDE DEF JtiTtl
<1> QED BY <1>2, <1>3, <1>4

\* A token is accepted a second time only in the second its mark leaves out.
LEMMA VerifyUsed ==
    ASSUME SessionInv, UsedInv, NEW p \in Processes, NEW t \in Tokens, Verify(p, t)
    PROVE  UsedInv'
<1>1. /\ usedUntil' \in [Tokens -> Nat]
      /\ usedUntil'[t] > ExpiresAt[t] - Second
      /\ \A u \in Tokens \ {t} : usedUntil'[u] = usedUntil[u]
  BY ConsumeMarks DEF Verify
<1>2. now \in Nat /\ accepted \in [Tokens -> Seq(Nat)]
  BY DEF SessionInv, UsedInv, TypeOK
<1>3. accepted' = [accepted EXCEPT ![t] = Append(accepted[t], now)] /\ calls' = calls
  BY DEF Verify
<1>4. accepted[t] \in Seq(Nat) /\ accepted'[t] = Append(accepted[t], now)
      /\ accepted' \in [Tokens -> Seq(Nat)]
  BY <1>2, <1>3
<1>5. \A u \in Tokens \ {t} : accepted'[u] = accepted[u]
  BY <1>2, <1>3
<1>6. ASSUME NEW u \in Tokens, NEW i \in 2..Len(accepted'[u])
      PROVE  ExpiresAt[u] - accepted'[u][i] < Second
  <2>1. CASE u # t
    BY <1>5, <1>6, <2>1 DEF UsedInv, RepeatIsExplained
  <2>2. CASE u = t /\ i <= Len(accepted[t])
    <3> DEFINE a == accepted[t]
    <3>1. a \in Seq(Nat) /\ accepted'[t] = Append(a, now) /\ i \in 2..Len(accepted'[t])
      BY <1>4, <2>2
    <3> HIDE DEF a
    <3>2. Len(a) \in Nat /\ i \in Int /\ 2 <= i
      BY <3>1
    <3>3. i \in 2..Len(a)
      BY <2>2, <3>2 DEF a
    <3>4. Append(a, now)[i] = a[i]
      BY <3>1, <3>3
    <3> QED BY <2>2, <3>1, <3>3, <3>4 DEF a, UsedInv, RepeatIsExplained
  <2>3. CASE u = t /\ i > Len(accepted[t])
    <3>1. accepted'[u][i] = now /\ accepted[t] # << >>
      BY <1>2, <1>4, <1>6, <2>3
    <3>2. now >= usedUntil[t] /\ usedUntil[t] > ExpiresAt[t] - Second /\ usedUntil[t] \in Nat
      BY <3>1 DEF UsedInv, Verify, Consume
    <3>3. ExpiresAt[t] \in Nat /\ Second \in Nat
      BY TokensAssumption, TimeAssumption
    <3> QED BY <1>2, <2>3, <3>1, <3>2, <3>3
  <2>4. Len(accepted[t]) \in Nat /\ i \in Nat
    BY <1>4
  <2> QED BY <2>1, <2>2, <2>3, <2>4
<1>7. RepeatIsExplained'
  BY <1>6 DEF RepeatIsExplained
<1>8. \A u \in Tokens : accepted'[u] # << >> => usedUntil'[u] > ExpiresAt[u] - Second
  BY <1>1, <1>5 DEF UsedInv
<1>9. calls' \in Seq(Ids \cup {Nothing})
  BY <1>3 DEF UsedInv
<1> QED BY <1>1, <1>4, <1>7, <1>8, <1>9 DEF UsedInv

\* What leaves the tokens alone, and starts no call or one, keeps UsedInv.
LEMMA OthersUsed ==
    ASSUME UsedInv, UNCHANGED <<usedUntil, accepted>>, calls' \in Seq(Ids \cup {Nothing})
    PROVE  UsedInv'
BY DEF UsedInv, RepeatIsExplained

LEMMA NextUsed == SessionInv /\ UsedInv /\ [DoorNext]_<<vars, doorVars>> => UsedInv'
<1> SUFFICES ASSUME SessionInv, UsedInv, [DoorNext]_<<vars, doorVars>> PROVE UsedInv'
  OBVIOUS
<1>1. CASE UNCHANGED doorVars
  BY <1>1, OthersUsed DEF doorVars, UsedInv
<1>2. ASSUME NEW p \in Processes, NEW t \in Tokens, Verify(p, t) PROVE UsedInv'
  BY <1>2, VerifyUsed
<1>3. ASSUME NEW p \in Processes, NEW t \in Tokens, VerifyFails(p, t) PROVE UsedInv'
  <2>1. /\ usedUntil' \in [Tokens -> Nat]
        /\ usedUntil'[t] > ExpiresAt[t] - Second
        /\ \A u \in Tokens \ {t} : usedUntil'[u] = usedUntil[u]
    BY <1>3, ConsumeMarks DEF VerifyFails
  <2>2. UNCHANGED <<accepted, calls>>
    BY <1>3 DEF VerifyFails
  <2>3. \A u \in Tokens : accepted'[u] # << >> => usedUntil'[u] > ExpiresAt[u] - Second
    BY <2>1, <2>2 DEF UsedInv
  <2> QED BY <2>1, <2>2, <2>3 DEF UsedInv, RepeatIsExplained
<1>4. ASSUME NEW p \in Processes, Admit(p) PROVE UsedInv'
  <2>1. draft[p].id \in Ids \cup {Nothing} /\ UNCHANGED <<usedUntil, accepted>>
    BY <1>4 DEF Admit, SessionInv, TypeOK, Drafts
  <2>2. calls' \in Seq(Ids \cup {Nothing})
    BY <1>4, <2>1 DEF Admit, UsedInv
  <2> QED BY <2>1, <2>2, OthersUsed
<1>5. CASE Next \/ UNCHANGED <<vars, doorVars>> \/ \E p \in Processes : Lookup(p)
  <2>1. Next /\ [DoorNext]_<<vars, doorVars>> => UsedInv'
    BY <1>1, <1>2, <1>3, <1>4 DEF DoorNext, Lookup
  <2> QED BY <1>1, <2>1, <1>5 DEF Lookup
<1> QED BY <1>1, <1>2, <1>3, <1>4, <1>5 DEF DoorNext

-----------------------------------------------------------------------------
(* What a call leads to *)

Starts(p) == Saving(p) /\ draft[p].status = "PREPARED"
Closes(p) == Saving(p) /\ draft[p].status = "CLOSED"
Holds(p)  == Saving(p) \/ at[p] = "compare"

\* A session that is being saved for the first time is known to its process
\* alone, and a key of the call that leads to an open session lasts as long.
FreshInv ==
    /\ \A p \in Processes : at[p] = "compare" => Written(draft[p].id)
    /\ \A p \in Processes : Starts(p) =>
          /\ draft[p].id \notin promised /\ draft[p].id # callKey.id
          /\ \A q \in Processes \ {p} : Holds(q) => draft[q].id # draft[p].id
    /\ \A p \in Processes : Starts(p) /\ at[p] = "setCall" =>
          /\ voice[draft[p].id].status = "PREPARED"
          /\ now + ttl[p] >= voice[draft[p].id].until
    /\ \A id \in promised : voice[id].status = "PREPARED"
    /\ callKey.id # Nothing /\ voice[callKey.id].status = "PREPARED" =>
          callKey.until >= voice[callKey.id].until

Leads(id) == callKey.id = id \/ ~Open(id)

\* What a process decided is still right as long as nobody has overtaken it.
UpToDate(p) ==
    /\ at[p] = "compare" => callKey.id = draft[p].id
    /\ Starts(p) => ~Open(callKey.id)
    /\ Closes(p) => callKey.id = draft[p].id

LeadInv ==
    /\ \A id \in promised : Leads(id)
    /\ \A p \in Processes : at[p] = "compare" => Leads(draft[p].id)
    /\ \A p \in Processes \ behind : UpToDate(p)

PromiseInv == FreshInv /\ (raced \/ LeadInv)

\* A session that is not written to opens no more.
LEMMA OpenFades ==
    ASSUME SessionInv, NEW id, now' \in Nat, now' >= now, voice'[id] = voice[id],
           id \in Ids \cup {Nothing}
    PROVE  Open(id)' => Open(id)
<1>1. CASE id = Nothing
  BY <1>1 DEF Open
<1>2. CASE id \in Ids
  <2>1. voice[id].until \in Nat /\ now \in Nat
    BY <1>2 DEF SessionInv, TypeOK
  <2> QED BY <2>1 DEF Open, Live
<1> QED BY <1>1, <1>2

\* The ids that anybody knows.
LEMMA KnownIds ==
    ASSUME SessionInv
    PROVE  /\ callKey.id \in Ids \cup {Nothing}
           /\ \A id \in promised : id \in Ids
           /\ \A p \in Processes : draft[p].id \in Ids \cup {Nothing}
           /\ \A p \in Processes : Saving(p) => Starts(p) \/ Closes(p)
BY DEF SessionInv, TypeOK, Drafts, Statuses, Starts, Closes

\* Nothing is known at first.
LEMMA InitPromises == Init => PromiseInv
BY DEF Init, PromiseInv, FreshInv, LeadInv, UpToDate, Starts, Closes, Holds, Saving

\* Nobody learns anything: the clock goes on, and a process may rest or turn to
\* something else.
LEMMA SteadyKeeps ==
    ASSUME SessionInv, SessionInv', PromiseInv, now' >= now,
           UNCHANGED <<voice, callKey, raced>>, promised' \subseteq promised,
           \A q \in Processes : Holds(q)' =>
               /\ at'[q] = at[q] /\ draft'[q] = draft[q] /\ ttl'[q] = ttl[q]
               /\ q \in behind => q \in behind'
    PROVE  PromiseInv'
<1>1. \A q \in Processes : /\ Holds(q)' => Holds(q)
                           /\ Starts(q)' => Starts(q)
                           /\ Closes(q)' => Closes(q)
  BY DEF Holds, Starts, Closes, Saving
<1>2. FreshInv'
  <2>1. \A q \in Processes : at'[q] = "compare" => Written(draft[q].id)'
    BY DEF PromiseInv, FreshInv, Written, Holds
  <2>2. ASSUME NEW q \in Processes, Starts(q)'
        PROVE  /\ draft'[q].id \notin promised' /\ draft'[q].id # callKey'.id
               /\ \A u \in Processes \ {q} : Holds(u)' => draft'[u].id # draft'[q].id
    <3>1. Starts(q) /\ draft'[q] = draft[q]
      BY <1>1, <2>2 DEF Holds, Starts, Saving
    <3> QED BY <1>1, <3>1 DEF PromiseInv, FreshInv
  <2>3. ASSUME NEW q \in Processes, Starts(q)', at'[q] = "setCall"
        PROVE  /\ voice'[draft'[q].id].status = "PREPARED"
               /\ now' + ttl'[q] >= voice'[draft'[q].id].until
    <3>1. Starts(q) /\ draft'[q] = draft[q] /\ ttl'[q] = ttl[q] /\ at[q] = "setCall"
      BY <1>1, <2>3 DEF Holds, Starts, Saving
    <3>2. voice[draft[q].id].status = "PREPARED" /\ now + ttl[q] >= voice[draft[q].id].until
      BY <3>1 DEF PromiseInv, FreshInv
    <3>3. /\ now \in Nat /\ now' \in Nat /\ ttl[q] \in Nat
          /\ voice[draft[q].id].until \in Nat
      BY <3>1 DEF SessionInv, TypeOK, DraftInv, Written
    <3> QED BY <3>1, <3>2, <3>3
  <2>4. \A id \in promised' : voice'[id].status = "PREPARED"
    BY DEF PromiseInv, FreshInv
  <2>5. callKey'.id # Nothing /\ voice'[callKey'.id].status = "PREPARED" =>
            callKey'.until >= voice'[callKey'.id].until
    BY DEF PromiseInv, FreshInv
  <2> QED BY <2>1, <2>2, <2>3, <2>4, <2>5 DEF FreshInv
<1>3. ASSUME LeadInv PROVE LeadInv'
  <2>1. \A id \in Ids \cup {Nothing} : Leads(id) => Leads(id)'
    <3>1. now' \in Nat
      BY DEF SessionInv, TypeOK
    <3> QED BY <3>1, OpenFades DEF Leads
  <2>2. \A id \in promised' : Leads(id)'
    BY <1>3, <2>1, KnownIds DEF LeadInv
  <2>3. ASSUME NEW q \in Processes, at'[q] = "compare" PROVE Leads(draft[q].id)'
    <3>1. at[q] = "compare" /\ draft'[q] = draft[q] /\ draft[q].id \in Ids \cup {Nothing}
      BY <2>3, KnownIds DEF Holds
    <3>2. Leads(draft[q].id)
      BY <1>3, <3>1 DEF LeadInv
    <3>3. PICK id \in Ids \cup {Nothing} : id = draft[q].id
      BY <3>1
    <3>4. Leads(id)'
      BY <2>1, <3>2, <3>3
    <3> QED BY <3>1, <3>3, <3>4 DEF Leads, Open, Live
  <2>4. ASSUME NEW q \in Processes \ behind' PROVE UpToDate(q)'
    <3>1. CASE Holds(q)'
      <4>1. UpToDate(q) /\ at'[q] = at[q] /\ draft'[q] = draft[q]
        BY <1>3, <2>4, <3>1 DEF LeadInv
      <4>2. Open(callKey.id)' => Open(callKey.id)
        <5>1. PICK id \in Ids \cup {Nothing} : id = callKey.id
          BY KnownIds
        <5>2. Open(id)' => Open(id)
          BY <5>1, OpenFades DEF SessionInv, TypeOK
        <5> QED BY <5>1, <5>2 DEF Open, Live
      <4> QED BY <1>1, <4>1, <4>2 DEF UpToDate
    <3>2. CASE ~Holds(q)'
      BY <3>2 DEF UpToDate, Holds, Starts, Closes
    <3> QED BY <3>1, <3>2
  <2> QED BY <2>2, <2>3, <2>4 DEF LeadInv
<1> QED BY <1>2, <1>3 DEF PromiseInv

\* A create that finds the key of the call goes on to the session.
LEMMA FindKeeps ==
    ASSUME SessionInv, PromiseInv, NEW p \in Processes, at[p] = "idle",
           GetCall # Nothing, at' = [at EXCEPT ![p] = "compare"],
           NEW d \in Drafts, d.id = GetCall, draft' = [draft EXCEPT ![p] = d],
           UNCHANGED <<now, voice, callKey, ttl, promised, behind, raced>>
    PROVE  PromiseInv'
<1>1. /\ at'[p] = "compare" /\ draft'[p] = d /\ d.id = callKey.id /\ Written(callKey.id)
      /\ \A q \in Processes \ {p} : at'[q] = at[q] /\ draft'[q] = draft[q]
  BY DEF GetCall, SessionInv, TypeOK, StoreInv
<1>2. \A q \in Processes : /\ Starts(q)' => q # p /\ Starts(q)
                           /\ Closes(q)' => q # p /\ Closes(q)
                           /\ Holds(q)' => q = p \/ Holds(q)
  BY <1>1 DEF Starts, Closes, Holds, Saving
<1>3. FreshInv'
  <2>1. \A q \in Processes : at'[q] = "compare" => Written(draft[q].id)'
    BY <1>1 DEF PromiseInv, FreshInv, Written
  <2>2. ASSUME NEW q \in Processes, Starts(q)'
        PROVE  /\ draft'[q].id \notin promised' /\ draft'[q].id # callKey'.id
               /\ \A u \in Processes \ {q} : Holds(u)' => draft'[u].id # draft'[q].id
    BY <1>1, <1>2, <2>2 DEF PromiseInv, FreshInv
  <2>3. \A q \in Processes : Starts(q)' /\ at'[q] = "setCall" =>
            /\ voice'[draft'[q].id].status = "PREPARED"
            /\ now' + ttl'[q] >= voice'[draft'[q].id].until
    BY <1>1, <1>2 DEF PromiseInv, FreshInv
  <2> QED BY <2>1, <2>2, <2>3 DEF PromiseInv, FreshInv
<1>4. ASSUME LeadInv PROVE LeadInv'
  <2>1. \A id : Leads(id)' <=> Leads(id)
    BY DEF Leads, Open, Live
  <2>2. \A q \in Processes : at'[q] = "compare" => Leads(draft[q].id)'
    BY <1>1, <1>4 DEF LeadInv, Leads, Open, Live
  <2>3. \A q \in Processes \ behind' : UpToDate(q)'
    BY <1>1, <1>2, <1>4 DEF LeadInv, UpToDate, Open, Live
  <2> QED BY <1>4, <2>1, <2>2, <2>3 DEF LeadInv
<1> QED BY <1>3, <1>4 DEF PromiseInv

\* A new session is built where the call leads to none that is open.
LEMMA BuildKeeps ==
    ASSUME SessionInv, PromiseInv, NEW p \in Processes, NEW r, NewSession(p, r),
           at[p] \in {"idle", "compare"}, ~raced /\ p \notin behind => ~Open(callKey.id),
           UNCHANGED <<now, voice, callKey, promised, behind, raced>>
    PROVE  PromiseInv'
<1>1. /\ at'[p] = "setVoice" /\ draft'[p].id = built + 1 /\ draft'[p].status = "PREPARED"
      /\ ttl' = ttl /\ built \in Nat
      /\ \A q \in Processes \ {p} : at'[q] = at[q] /\ draft'[q] = draft[q]
  BY BoundsAssumption DEF NewSession, Work, SessionInv, TypeOK
<1>2. \A q \in Processes \ {p} : /\ Starts(q)' <=> Starts(q)
                                 /\ Closes(q)' <=> Closes(q)
                                 /\ Holds(q)' <=> Holds(q)
  BY <1>1 DEF Starts, Closes, Holds, Saving
<1>3. Starts(p)' /\ ~Closes(p)' /\ Holds(p)'
  BY <1>1 DEF Starts, Closes, Holds, Saving
<1>4. \A id : Written(id) => id # built + 1
  <2>1. ~(built + 1 <= built)
    BY <1>1
  <2> QED BY <2>1 DEF SessionInv, StoreInv, Written
<1>5. /\ built + 1 \notin promised /\ built + 1 # callKey.id
      /\ \A q \in Processes : Holds(q) => draft[q].id # built + 1
  <2>1. built + 1 \notin promised
    BY <1>4 DEF SessionInv, StoreInv
  <2>2. built + 1 # Nothing
    BY <1>1 DEF Nothing
  <2>3. built + 1 # callKey.id
    BY <1>4, <2>2 DEF SessionInv, StoreInv
  <2>4. \A q \in Processes : Saving(q) => draft[q].id # built + 1
    BY <1>1 DEF SessionInv, DraftInv
  <2>5. \A q \in Processes : at[q] = "compare" => draft[q].id # built + 1
    BY <1>4 DEF PromiseInv, FreshInv
  <2> QED BY <2>1, <2>3, <2>4, <2>5 DEF Holds
<1>6. FreshInv'
  <2>1. \A q \in Processes : at'[q] = "compare" => Written(draft[q].id)'
    BY <1>1 DEF PromiseInv, FreshInv, Written
  <2>2. ASSUME NEW q \in Processes, Starts(q)'
        PROVE  /\ draft'[q].id \notin promised' /\ draft'[q].id # callKey'.id
               /\ \A u \in Processes \ {q} : Holds(u)' => draft'[u].id # draft'[q].id
    <3>1. CASE q = p
      BY <1>1, <1>2, <1>5, <3>1
    <3>2. CASE q # p
      <4>1. Starts(q) /\ Holds(q) /\ draft'[q] = draft[q]
        BY <1>1, <1>2, <2>2, <3>2 DEF Starts, Holds
      <4>2. \A u \in Processes \ {q} : Holds(u) => draft[u].id # draft[q].id
        BY <4>1 DEF PromiseInv, FreshInv
      <4>3. \A u \in Processes \ {q} : Holds(u)' => draft'[u].id # draft[q].id
        BY <1>1, <1>2, <1>5, <4>1, <4>2
      <4> QED BY <4>1, <4>3 DEF PromiseInv, FreshInv
    <3> QED BY <3>1, <3>2
  <2>3. \A q \in Processes : Starts(q)' /\ at'[q] = "setCall" =>
            /\ voice'[draft'[q].id].status = "PREPARED"
            /\ now' + ttl'[q] >= voice'[draft'[q].id].until
    BY <1>1, <1>2 DEF PromiseInv, FreshInv
  <2> QED BY <2>1, <2>2, <2>3 DEF PromiseInv, FreshInv
<1>7. ASSUME LeadInv, ~raced PROVE LeadInv'
  <2>1. \A id : Leads(id)' <=> Leads(id)
    BY DEF Leads, Open, Live
  <2>2. \A q \in Processes : at'[q] = "compare" => Leads(draft[q].id)'
    BY <1>1, <1>7 DEF LeadInv, Leads, Open, Live
  <2>3. ASSUME NEW q \in Processes \ behind' PROVE UpToDate(q)'
    <3>1. CASE q = p
      BY <1>1, <1>3, <1>7, <3>1 DEF UpToDate, Open, Live
    <3>2. CASE q # p
      BY <1>1, <1>2, <1>7, <3>2 DEF LeadInv, UpToDate, Open, Live
    <3> QED BY <3>1, <3>2
  <2> QED BY <1>7, <2>1, <2>2, <2>3 DEF LeadInv
<1> QED BY <1>6, <1>7 DEF PromiseInv

\* create answers an open session that is there.
LEMMA AnswerKeeps ==
    ASSUME SessionInv, SessionInv', PromiseInv, NEW p \in Processes, at[p] = "compare",
           Open(draft[p].id), Rest(p), promised' \subseteq promised \cup {draft[p].id},
           behind' = behind \ {p}, UNCHANGED <<now, voice, callKey, raced>>
    PROVE  PromiseInv'
<1>1. /\ at'[p] = "idle"
      /\ \A q \in Processes \ {p} : at'[q] = at[q] /\ draft'[q] = draft[q] /\ ttl'[q] = ttl[q]
  BY DEF Rest, SessionInv, TypeOK
<1>2. \A q \in Processes : /\ Starts(q)' => q # p /\ Starts(q)
                           /\ Closes(q)' => q # p /\ Closes(q)
                           /\ Holds(q)' => q # p /\ Holds(q)
  BY <1>1 DEF Starts, Closes, Holds, Saving
<1>3. FreshInv'
  <2>1. \A q \in Processes : at'[q] = "compare" => Written(draft[q].id)'
    BY <1>1 DEF PromiseInv, FreshInv, Written
  <2>2. ASSUME NEW q \in Processes, Starts(q)'
        PROVE  /\ draft'[q].id \notin promised' /\ draft'[q].id # callKey'.id
               /\ \A u \in Processes \ {q} : Holds(u)' => draft'[u].id # draft'[q].id
    <3>1. q # p /\ Starts(q) /\ draft'[q] = draft[q] /\ Holds(p)
      BY <1>1, <1>2, <2>2 DEF Holds
    <3>2. draft[q].id \notin promised /\ draft[q].id # draft[p].id /\ draft[q].id # callKey.id
      BY <3>1 DEF PromiseInv, FreshInv
    <3>3. \A u \in Processes \ {q} : Holds(u)' => draft'[u].id # draft[q].id
      BY <1>1, <1>2, <3>1 DEF PromiseInv, FreshInv
    <3> QED BY <3>1, <3>2, <3>3
  <2>3. \A q \in Processes : Starts(q)' /\ at'[q] = "setCall" =>
            /\ voice'[draft'[q].id].status = "PREPARED"
            /\ now' + ttl'[q] >= voice'[draft'[q].id].until
    BY <1>1, <1>2 DEF PromiseInv, FreshInv
  <2>4. voice[draft[p].id].status = "PREPARED"
    <3>1. draft[p].id \in Ids
      BY KnownIds DEF Open
    <3> QED BY <3>1 DEF Open, SessionInv, TypeOK, Statuses
  <2>5. \A id \in promised' : voice'[id].status = "PREPARED"
    BY <2>4 DEF PromiseInv, FreshInv
  <2> QED BY <2>1, <2>2, <2>3, <2>5 DEF PromiseInv, FreshInv
<1>4. ASSUME LeadInv PROVE LeadInv'
  <2>1. \A id : Leads(id)' <=> Leads(id)
    BY DEF Leads, Open, Live
  <2>2. \A id \in promised' : Leads(id)'
    BY <1>4, <2>1 DEF LeadInv
  <2>3. \A q \in Processes : at'[q] = "compare" => Leads(draft[q].id)'
    BY <1>1, <1>4 DEF LeadInv, Leads, Open, Live
  <2>4. \A q \in Processes \ behind' : UpToDate(q)'
    BY <1>1, <1>2, <1>4 DEF LeadInv, UpToDate, Open, Live
  <2> QED BY <2>2, <2>3, <2>4 DEF LeadInv
<1> QED BY <1>3, <1>4 DEF PromiseInv

\* terminate takes up a session that was promised.
LEMMA CloseKeeps ==
    ASSUME SessionInv, PromiseInv, NEW p \in Processes, NEW id \in promised, Terminate(p, id)
    PROVE  PromiseInv'
<1>1. /\ at[p] = "idle" /\ Open(id)
      /\ at'[p] = "setVoice" /\ draft'[p].id = id /\ draft'[p].status = "CLOSED"
      /\ \A q \in Processes \ {p} : at'[q] = at[q] /\ draft'[q] = draft[q]
      /\ UNCHANGED <<ttl, now, voice, callKey, promised, behind, raced>>
  BY DEF Terminate, Work, store, history, SessionInv, TypeOK
<1>2. \A q \in Processes \ {p} : /\ Starts(q)' <=> Starts(q)
                                 /\ Closes(q)' <=> Closes(q)
                                 /\ Holds(q)' <=> Holds(q)
  BY <1>1 DEF Starts, Closes, Holds, Saving
<1>3. ~Starts(p)' /\ at'[p] # "compare"
  BY <1>1 DEF Starts
<1>4. FreshInv'
  <2>1. \A q \in Processes : at'[q] = "compare" => Written(draft[q].id)'
    BY <1>1 DEF PromiseInv, FreshInv, Written
  <2>2. ASSUME NEW q \in Processes, Starts(q)'
        PROVE  /\ draft'[q].id \notin promised' /\ draft'[q].id # callKey'.id
               /\ \A u \in Processes \ {q} : Holds(u)' => draft'[u].id # draft'[q].id
    <3>1. q # p /\ Starts(q) /\ draft'[q] = draft[q]
      BY <1>1, <1>2, <1>3, <2>2
    <3>2. draft[q].id \notin promised /\ draft[q].id # callKey.id
          /\ \A u \in Processes \ {q} : Holds(u) => draft[u].id # draft[q].id
      BY <3>1 DEF PromiseInv, FreshInv
    <3>3. \A u \in Processes \ {q} : Holds(u)' => draft'[u].id # draft[q].id
      BY <1>1, <1>2, <3>2
    <3> QED BY <1>1, <3>1, <3>2, <3>3
  <2>3. \A q \in Processes : Starts(q)' /\ at'[q] = "setCall" =>
            /\ voice'[draft'[q].id].status = "PREPARED"
            /\ now' + ttl'[q] >= voice'[draft'[q].id].until
    BY <1>1, <1>2, <1>3 DEF PromiseInv, FreshInv
  <2>4. \A u \in promised' : voice'[u].status = "PREPARED"
    BY <1>1 DEF PromiseInv, FreshInv
  <2>5. callKey'.id # Nothing /\ voice'[callKey'.id].status = "PREPARED" =>
            callKey'.until >= voice'[callKey'.id].until
    BY <1>1 DEF PromiseInv, FreshInv
  <2> QED BY <2>1, <2>2, <2>3, <2>4, <2>5 DEF FreshInv
<1>5. ASSUME LeadInv PROVE LeadInv'
  <2>1. \A u : Leads(u)' <=> Leads(u)
    BY <1>1 DEF Leads, Open, Live
  <2>2. \A u \in promised' : Leads(u)'
    BY <1>1, <1>5, <2>1 DEF LeadInv
  <2>3. \A q \in Processes : at'[q] = "compare" => Leads(draft[q].id)'
    BY <1>1, <1>3, <1>5 DEF LeadInv, Leads, Open, Live
  <2>4. ASSUME NEW q \in Processes \ behind' PROVE UpToDate(q)'
    <3>1. CASE q = p
      <4>1. callKey.id = id
        BY <1>1, <1>5 DEF LeadInv, Leads
      <4> QED BY <1>1, <1>3, <3>1, <4>1 DEF UpToDate
    <3>2. CASE q # p
      BY <1>1, <1>2, <1>5, <3>2 DEF LeadInv, UpToDate, Open, Live
    <3> QED BY <3>1, <3>2
  <2> QED BY <2>2, <2>3, <2>4 DEF LeadInv
<1> QED BY <1>1, <1>4, <1>5 DEF PromiseInv

\* A process that is about to write was not overtaken, or is the one that races.
LEMMA WriterInTime ==
    ASSUME PromiseInv, NEW p \in Processes, raced' = (raced \/ p \in behind), ~raced'
    PROVE  LeadInv /\ UpToDate(p)
BY DEF PromiseInv, LeadInv

\* The first command of save opens a session nobody knows or closes the one the
\* call leads to.
LEMMA StoreVoiceKeeps ==
    ASSUME SessionInv, SessionInv', PromiseInv, NEW p \in Processes, at[p] = "setVoice",
           WriteVoice(p), UNCHANGED <<now, built, terminated>>,
           \/ /\ at' = [at EXCEPT ![p] = "setCall"] /\ UNCHANGED draft
              /\ ttl' = [ttl EXCEPT ![p] = Ttl(draft[p].request.expires)]
           \/ Rest(p),
           Busy \ {p} \subseteq behind'
    PROVE  PromiseInv'
<1> DEFINE d == draft[p]
           until == now + Ttl(d.request.expires)
<1>1. /\ d.id \in Ids /\ now \in Nat /\ until \in Nat
      /\ \A id : Written(id) => Written(id)'
  <2>1. d.request.expires \in Nat /\ now \in Nat
    BY DEF SessionInv, TypeOK, Drafts, Terms
  <2>2. Ttl(d.request.expires) \in Nat
    BY <2>1, TtlLasts
  <2>3. until \in Nat
    BY <2>1, <2>2
  <2> QED BY <2>1, <2>3, VoiceWritten DEF Written
<1>2. /\ voice'[d.id].status = d.status /\ voice'[d.id].until = until
      /\ \A id : id # d.id => voice'[id] = voice[id] \/ id \notin Ids
      /\ UNCHANGED callKey
      /\ promised' = IF d.status = "CLOSED" THEN promised \ {d.id} ELSE promised
      /\ raced' = (raced \/ p \in behind)
  BY <1>1 DEF WriteVoice, SessionInv, TypeOK
<1>3. \A q \in Processes \ {p} : at'[q] = at[q] /\ draft'[q] = draft[q] /\ ttl'[q] = ttl[q]
  BY DEF Rest, SessionInv, TypeOK
<1>4. \/ at'[p] = "setCall" /\ draft'[p] = d /\ now + ttl'[p] = until
      \/ at'[p] = "idle"
  BY DEF Rest, SessionInv, TypeOK
<1>5. Holds(p) /\ (Starts(p) \/ Closes(p)) /\ (Starts(p) <=> d.status = "PREPARED")
      /\ (Closes(p) <=> d.status = "CLOSED")
  BY KnownIds DEF Holds, Starts, Closes, Saving
<1>6. \A q \in Processes : /\ Starts(q)' => Starts(q) /\ draft'[q] = draft[q]
                           /\ Closes(q)' => Closes(q) /\ draft'[q] = draft[q]
                           /\ Holds(q)' => Holds(q) /\ draft'[q] = draft[q]
  BY <1>3, <1>4, <1>5 DEF Starts, Closes, Holds, Saving
<1> HIDE DEF d, until
<1>7. \A id \in promised' : id \in promised /\ id # d.id
  BY <1>2, <1>5 DEF PromiseInv, FreshInv, d, Closes
<1>8. FreshInv'
  <2>1. \A q \in Processes : at'[q] = "compare" => Written(draft[q].id)'
    <3> SUFFICES ASSUME NEW q \in Processes, at'[q] = "compare" PROVE Written(draft[q].id)'
      OBVIOUS
    <3>1. Written(draft[q].id) /\ draft'[q] = draft[q]
      BY <1>3, <1>4 DEF PromiseInv, FreshInv
    <3> QED BY <1>1, <3>1 DEF Written
  <2>2. ASSUME NEW q \in Processes, Starts(q)'
        PROVE  /\ draft'[q].id \notin promised' /\ draft'[q].id # callKey'.id
               /\ \A u \in Processes \ {q} : Holds(u)' => draft'[u].id # draft'[q].id
    BY <1>2, <1>6, <1>7, <2>2 DEF PromiseInv, FreshInv
  <2>3. ASSUME NEW q \in Processes, Starts(q)', at'[q] = "setCall"
        PROVE  /\ voice'[draft'[q].id].status = "PREPARED"
               /\ now' + ttl'[q] >= voice'[draft'[q].id].until
    <3>1. CASE q = p
      BY <1>1, <1>2, <1>4, <1>5, <1>6, <2>3, <3>1
    <3>2. CASE q # p
      <4>1. Starts(q) /\ at[q] = "setCall" /\ draft'[q] = draft[q] /\ ttl'[q] = ttl[q]
        BY <1>3, <1>6, <2>3, <3>2
      <4>2. draft[q].id # d.id
        BY <1>5, <3>2, <4>1 DEF PromiseInv, FreshInv, d
      <4>3. draft[q].id \in Ids
        BY <4>1 DEF SessionInv, DraftInv, Written
      <4>4. voice'[draft[q].id] = voice[draft[q].id]
        BY <1>2, <4>2, <4>3
      <4> QED BY <4>1, <4>4 DEF PromiseInv, FreshInv
    <3> QED BY <3>1, <3>2
  <2>4. \A id \in promised' : voice'[id].status = "PREPARED"
    BY <1>2, <1>7, KnownIds DEF PromiseInv, FreshInv
  <2>5. ASSUME callKey'.id # Nothing, voice'[callKey'.id].status = "PREPARED"
        PROVE  callKey'.until >= voice'[callKey'.id].until
    <3>1. callKey.id # d.id
      BY <1>2, <1>5, <2>5 DEF PromiseInv, FreshInv, d
    <3>2. voice'[callKey.id] = voice[callKey.id]
      BY <1>2, <2>5, <3>1, KnownIds
    <3> QED BY <1>2, <2>5, <3>2 DEF PromiseInv, FreshInv
  <2> QED BY <2>1, <2>2, <2>3, <2>4, <2>5 DEF FreshInv
<1>9. ASSUME ~raced' PROVE LeadInv'
  <2>1. LeadInv /\ UpToDate(p)
    BY <1>2, <1>9, WriterInTime
  <2>2. \A id \in Ids \cup {Nothing} : id # d.id => (Open(id)' <=> Open(id))
    BY <1>2 DEF Open, Live
  <2>3. \A id \in Ids \cup {Nothing} : id # d.id /\ Leads(id) => Leads(id)'
    BY <1>2, <2>2 DEF Leads
  <2>4. \A id \in promised' : Leads(id)'
    BY <1>7, <2>1, <2>3, KnownIds DEF LeadInv
  <2>5. ASSUME NEW q \in Processes, at'[q] = "compare" PROVE Leads(draft[q].id)'
    <3>1. q # p /\ at[q] = "compare" /\ draft'[q] = draft[q] /\ Holds(q)
      BY <1>3, <1>4, <2>5 DEF Holds
    <3>2. Leads(draft[q].id) /\ draft[q].id \in Ids \cup {Nothing}
      BY <2>1, <3>1, KnownIds DEF LeadInv
    <3>3. PICK id \in Ids \cup {Nothing} : id = draft[q].id
      BY <3>2
    <3>4. Leads(id)'
      <4>1. CASE id # d.id
        BY <2>3, <3>2, <3>3, <4>1
      <4>2. CASE id = d.id
        <5>1. ~Starts(p)
          BY <3>1, <3>3, <4>2 DEF PromiseInv, FreshInv, d
        <5>2. voice'[id].status = "CLOSED"
          BY <1>2, <1>5, <4>2, <5>1
        <5> QED BY <5>2 DEF Leads, Open
      <4> QED BY <4>1, <4>2
    <3> QED BY <3>1, <3>3, <3>4 DEF Leads, Open, Live
  <2>6. ASSUME NEW q \in Processes \ behind' PROVE UpToDate(q)'
    <3>1. CASE q # p
      <4>1. at'[q] = "idle"
        BY <1>3, <2>6, <3>1 DEF Busy
      <4> QED BY <4>1 DEF UpToDate, Starts, Closes, Saving
    <3>2. CASE q = p
      <4>1. at'[p] # "compare"
        BY <1>4
      <4>2. Starts(p)' => ~Open(callKey.id)'
        <5> SUFFICES ASSUME Starts(p)' PROVE ~Open(callKey.id)'
          OBVIOUS
        <5>1. ~Open(callKey.id) /\ callKey.id # d.id
          BY <1>6, <2>1 DEF UpToDate, PromiseInv, FreshInv, d
        <5>2. PICK id \in Ids \cup {Nothing} : id = callKey.id
          BY KnownIds
        <5>3. ~Open(id)'
          BY <2>2, <5>1, <5>2
        <5> QED BY <1>2, <5>2, <5>3 DEF Open, Live
      <4>3. Closes(p)' => callKey'.id = draft'[p].id
        BY <1>2, <1>6, <2>1 DEF UpToDate
      <4> QED BY <3>2, <4>1, <4>2, <4>3 DEF UpToDate
    <3> QED BY <3>1, <3>2
  <2> QED BY <2>4, <2>5, <2>6 DEF LeadInv
<1> QED BY <1>8, <1>9 DEF PromiseInv

\* The second command of save leads the call to the session, from one that is
\* not open any more.
LEMMA StoreCallKeeps ==
    ASSUME SessionInv, SessionInv', PromiseInv, NEW p \in Processes, at[p] = "setCall",
           WriteCall(p), Rest(p), UNCHANGED now,
           promised' \subseteq promised \cup (IF Starts(p) THEN {draft[p].id} ELSE {}),
           Busy \ {p} \subseteq behind'
    PROVE  PromiseInv'
<1> DEFINE d == draft[p]
<1>1. /\ UNCHANGED voice /\ callKey'.id = d.id /\ callKey'.until = now + ttl[p]
      /\ raced' = (raced \/ p \in behind)
  BY DEF WriteCall
<1>2. /\ at'[p] = "idle"
      /\ \A q \in Processes \ {p} : at'[q] = at[q] /\ draft'[q] = draft[q] /\ ttl'[q] = ttl[q]
  BY DEF Rest, SessionInv, TypeOK
<1>3. \A q \in Processes : /\ Starts(q)' => q # p /\ Starts(q)
                           /\ Closes(q)' => q # p /\ Closes(q)
                           /\ Holds(q)' => q # p /\ Holds(q)
  BY <1>2 DEF Starts, Closes, Holds, Saving
<1>4. Holds(p) /\ (Starts(p) \/ Closes(p)) /\ (Closes(p) <=> d.status = "CLOSED")
  BY KnownIds DEF Holds, Starts, Closes, Saving
<1> HIDE DEF d
<1>5. FreshInv'
  <2>1. \A q \in Processes : at'[q] = "compare" => Written(draft[q].id)'
    BY <1>1, <1>2 DEF PromiseInv, FreshInv, Written
  <2>2. ASSUME NEW q \in Processes, Starts(q)'
        PROVE  /\ draft'[q].id \notin promised' /\ draft'[q].id # callKey'.id
               /\ \A u \in Processes \ {q} : Holds(u)' => draft'[u].id # draft'[q].id
    <3>1. q # p /\ Starts(q) /\ draft'[q] = draft[q]
      BY <1>2, <1>3, <2>2
    <3>2. draft[q].id \notin promised /\ draft[q].id # d.id
          /\ \A u \in Processes \ {q} : Holds(u) => draft[u].id # draft[q].id
      BY <1>4, <3>1 DEF PromiseInv, FreshInv, d
    <3>3. \A u \in Processes \ {q} : Holds(u)' => draft'[u].id # draft[q].id
      BY <1>2, <1>3, <3>2
    <3> QED BY <1>1, <3>1, <3>2, <3>3 DEF d
  <2>3. \A q \in Processes : Starts(q)' /\ at'[q] = "setCall" =>
            /\ voice'[draft'[q].id].status = "PREPARED"
            /\ now' + ttl'[q] >= voice'[draft'[q].id].until
    BY <1>1, <1>2, <1>3 DEF PromiseInv, FreshInv
  <2>4. Starts(p) => voice[d.id].status = "PREPARED" /\ now + ttl[p] >= voice[d.id].until
    BY DEF PromiseInv, FreshInv, d
  <2>5. \A id \in promised' : voice'[id].status = "PREPARED"
    BY <1>1, <2>4 DEF PromiseInv, FreshInv, d
  <2>6. voice'[callKey'.id].status = "PREPARED" => callKey'.until >= voice'[callKey'.id].until
    <3>1. Closes(p) => voice[d.id].status = "CLOSED"
      BY <1>4 DEF SessionInv, DraftInv, d
    <3> QED BY <1>1, <1>4, <2>4, <3>1
  <2> QED BY <2>1, <2>2, <2>3, <2>5, <2>6 DEF FreshInv
<1>6. ASSUME ~raced' PROVE LeadInv'
  <2>1. LeadInv /\ UpToDate(p)
    BY <1>1, <1>6, WriterInTime
  <2>2. \A id : Open(id)' <=> Open(id)
    BY <1>1 DEF Open, Live
  <2>3. \A id : Leads(id) => Leads(id)'
    <3> SUFFICES ASSUME NEW id, Leads(id) PROVE Leads(id)'
      OBVIOUS
    <3>1. CASE ~Open(id)
      BY <2>2, <3>1 DEF Leads
    <3>2. CASE Open(id) /\ callKey.id = id
      <4>1. Closes(p) /\ callKey.id = d.id
        BY <1>4, <2>1, <3>2 DEF UpToDate, d
      <4> QED BY <1>1, <3>2, <4>1 DEF Leads
    <3> QED BY <3>1, <3>2 DEF Leads
  <2>4. \A id \in promised' : Leads(id)'
    <3>1. PICK n : n = d.id
      OBVIOUS
    <3>2. Leads(n)'
      BY <1>1, <3>1 DEF Leads
    <3>3. \A id \in promised' : id \in promised \/ id = n
      BY <3>1 DEF d
    <3> QED BY <2>1, <2>3, <3>2, <3>3 DEF LeadInv
  <2>5. ASSUME NEW q \in Processes, at'[q] = "compare" PROVE Leads(draft[q].id)'
    <3>1. at[q] = "compare" /\ draft'[q] = draft[q]
      BY <1>2, <2>5
    <3>2. PICK id : id = draft[q].id
      OBVIOUS
    <3>3. Leads(id)'
      BY <2>1, <2>3, <3>1, <3>2 DEF LeadInv
    <3> QED BY <3>1, <3>2, <3>3 DEF Leads, Open, Live
  <2>6. ASSUME NEW q \in Processes \ behind' PROVE UpToDate(q)'
    <3>1. at'[q] = "idle"
      BY <1>2, <2>6 DEF Busy
    <3> QED BY <3>1 DEF UpToDate, Starts, Closes, Saving
  <2> QED BY <2>4, <2>5, <2>6 DEF LeadInv
<1> QED BY <1>5, <1>6 DEF PromiseInv

\* A create, up to the answer of its first GET.
LEMMA CreatePromises ==
    ASSUME SessionInv, PromiseInv, NEW p \in Processes, NEW r \in Requests, Create(p, r)
    PROVE  PromiseInv'
<1>1. at[p] = "idle" /\ UNCHANGED <<now, voice, callKey, promised, behind, raced>>
  BY DEF Create, store, history
<1>2. CASE GetCall = Nothing /\ NewSession(p, r)
  <2>1. ~Open(callKey.id)
    <3> SUFFICES ASSUME Open(callKey.id) PROVE FALSE
      OBVIOUS
    <3>1. /\ callKey.id \in Ids /\ callKey.id # Nothing /\ callKey.until \in Nat /\ now \in Nat
          /\ voice[callKey.id].until \in Nat /\ voice[callKey.id].status \in Statuses
      BY KnownIds DEF Open, SessionInv, TypeOK
    <3>2. voice[callKey.id].status = "PREPARED" /\ now < voice[callKey.id].until
      BY <3>1 DEF Open, Live, Statuses
    <3>3. callKey.until >= voice[callKey.id].until
      BY <3>1, <3>2 DEF PromiseInv, FreshInv
    <3> QED BY <1>2, <3>1, <3>2, <3>3 DEF GetCall, Live
  <2> QED BY <1>1, <1>2, <2>1, BuildKeeps
<1>3. CASE /\ GetCall # Nothing
           /\ Work(p, "compare", [id |-> GetCall, request |-> r, status |-> "PREPARED"])
  <2> DEFINE d == [id |-> GetCall, request |-> r, status |-> "PREPARED"]
  <2>1. r \in Terms
    BY RequestsAssumption DEF Terms, Users
  <2>2. d \in Drafts /\ d.id = GetCall
    BY <2>1 DEF Drafts, Statuses, GetCall, SessionInv, TypeOK
  <2>3. at' = [at EXCEPT ![p] = "compare"] /\ draft' = [draft EXCEPT ![p] = d] /\ ttl' = ttl
    BY <1>3 DEF Work
  <2> HIDE DEF d
  <2> QED BY <1>1, <1>3, <2>2, <2>3, FindKeeps
<1> QED BY <1>2, <1>3 DEF Create

\* Its second GET and the decision.
LEMMA ComparePromises ==
    ASSUME SessionInv, SessionInv', PromiseInv, NEW p \in Processes, Compare(p)
    PROVE  PromiseInv'
<1>1. at[p] = "compare" /\ UNCHANGED <<now, voice, callKey, raced>>
  BY DEF Compare, store
<1>2. CASE ~Open(draft[p].id) /\ NewSession(p, draft[p].request) /\ UNCHANGED promised
  <2>1. behind' = behind
    <3>1. at'[p] = "setVoice"
      BY <1>2 DEF NewSession, Work, SessionInv, TypeOK
    <3> QED BY <3>1 DEF Compare
  <2>2. ~raced /\ p \notin behind => ~Open(callKey.id)
    <3> SUFFICES ASSUME ~raced, p \notin behind PROVE callKey.id = draft[p].id
      BY <1>2
    <3> QED BY <1>1 DEF PromiseInv, LeadInv, UpToDate
  <2> QED BY <1>1, <1>2, <2>1, <2>2, BuildKeeps
<1>3. CASE /\ Open(draft[p].id) /\ Rest(p)
           /\ promised' = promised \/ promised' = promised \cup {draft[p].id}
  <2>1. behind' = behind \ {p}
    <3>1. at'[p] = "idle"
      BY <1>3 DEF Rest, SessionInv, TypeOK
    <3> QED BY <3>1 DEF Compare
  <2>2. promised' \subseteq promised \cup {draft[p].id}
    BY <1>3
  <2> QED BY <1>1, <1>3, <2>1, <2>2, AnswerKeeps
<1> QED BY <1>2, <1>3 DEF Compare

\* A process that rests has nothing in hand, and the others are as they were.
LEMMA RestIsSteady ==
    ASSUME SessionInv, NEW p \in Processes, Rest(p), behind' \in {behind, behind \ {p}}
    PROVE  \A q \in Processes : Holds(q)' =>
               /\ at'[q] = at[q] /\ draft'[q] = draft[q] /\ ttl'[q] = ttl[q]
               /\ q \in behind => q \in behind'
<1>1. at'[p] = "idle"
  BY DEF Rest, SessionInv, TypeOK
<1>2. \A q \in Processes \ {p} : at'[q] = at[q] /\ draft'[q] = draft[q] /\ ttl'[q] = ttl[q]
  BY DEF Rest, SessionInv, TypeOK
<1> QED BY <1>1, <1>2 DEF Holds, Saving

\* save, and a request that fails.
LEMMA SavePromises ==
    ASSUME SessionInv, SessionInv', PromiseInv, NEW p \in Processes,
           SetVoice(p) \/ SetCall(p) \/ Fail(p)
    PROVE  PromiseInv'
<1>1. CASE SetVoice(p)
  <2>1. Busy \ {p} \subseteq behind'
    BY <1>1 DEF SetVoice
  <2> QED BY <1>1, <2>1, StoreVoiceKeeps DEF SetVoice
<1>2. CASE SetCall(p)
  <2>1. Busy \ {p} \subseteq behind'
    BY <1>2 DEF SetCall
  <2>2. promised' \subseteq promised \cup (IF Starts(p) THEN {draft[p].id} ELSE {})
    BY <1>2 DEF SetCall, Starts, Saving
  <2> QED BY <1>2, <2>1, <2>2, StoreCallKeeps DEF SetCall
<1>3. CASE Fail(p) /\ UNCHANGED <<store, promised, raced>> /\ behind' = behind \ {p}
  <2>1. /\ UNCHANGED <<voice, callKey, raced>> /\ promised' \subseteq promised
        /\ now' = now /\ now \in Nat /\ Rest(p)
    BY <1>3 DEF Fail, store, SessionInv, TypeOK
  <2>2. now' >= now
    BY <2>1
  <2> QED BY <1>3, <2>1, <2>2, RestIsSteady, SteadyKeeps
<1>4. CASE Fail(p) /\ at[p] = "setVoice" /\ WriteVoice(p) /\ behind' = (behind \cup Busy) \ {p}
  <2>1. Rest(p) /\ UNCHANGED <<now, built, terminated>> /\ Busy \ {p} \subseteq behind'
    BY <1>4 DEF Fail
  <2> QED BY <1>4, <2>1, StoreVoiceKeeps
<1>5. CASE /\ Fail(p) /\ at[p] = "setCall" /\ WriteCall(p) /\ UNCHANGED promised
           /\ behind' = (behind \cup Busy) \ {p}
  <2>1. Rest(p) /\ UNCHANGED now /\ Busy \ {p} \subseteq behind'
    BY <1>5 DEF Fail
  <2>2. promised' \subseteq promised \cup (IF Starts(p) THEN {draft[p].id} ELSE {})
    BY <1>5
  <2> QED BY <1>5, <2>1, <2>2, StoreCallKeeps
<1> QED BY <1>1, <1>2, <1>3, <1>4, <1>5 DEF Fail

\* The clock, the door, and steps that leave the store's processes alone.
LEMMA OthersPromise ==
    ASSUME SessionInv, SessionInv', PromiseInv,
           \/ Tick \/ UNCHANGED <<vars, doorVars>>
           \/ \E p \in Processes :
                 \/ \E t \in Tokens : Verify(p, t) \/ VerifyFails(p, t)
                 \/ Lookup(p) \/ Admit(p)
    PROVE  PromiseInv'
<1>0. now \in Nat
  BY DEF SessionInv, TypeOK
<1>1. CASE Tick \/ UNCHANGED <<vars, doorVars>> \/
           \E p \in Processes, t \in Tokens : VerifyFails(p, t)
  <2>1. /\ UNCHANGED <<voice, callKey, promised, at, draft, ttl, behind, raced>>
        /\ now' = now + 1 \/ now' = now
    BY <1>1 DEF Tick, VerifyFails, vars, store, work, history
  <2>2. now' >= now
    BY <1>0, <2>1
  <2> QED BY <2>1, <2>2, SteadyKeeps
<1>2. ASSUME NEW p \in Processes, NEW t \in Tokens, Verify(p, t) PROVE PromiseInv'
  <2>1. /\ UNCHANGED <<now, voice, callKey, promised, ttl, behind, raced>>
        /\ at'[p] = "lookup"
        /\ \A q \in Processes \ {p} : at'[q] = at[q] /\ draft'[q] = draft[q]
    BY <1>2 DEF Verify, Work, store, history, SessionInv, TypeOK
  <2>2. now' >= now
    BY <1>0, <2>1
  <2>3. \A q \in Processes : Holds(q)' => q # p
    BY <2>1 DEF Holds, Saving
  <2> QED BY <2>1, <2>2, <2>3, SteadyKeeps
<1>3. ASSUME NEW p \in Processes, Lookup(p), Rest(p), behind' = behind \ {p} PROVE PromiseInv'
  <2>1. UNCHANGED <<now, voice, callKey, promised, raced>>
    BY <1>3 DEF Lookup, store
  <2>2. now' >= now /\ promised' \subseteq promised
    BY <1>0, <2>1
  <2> QED BY <1>3, <2>1, <2>2, RestIsSteady, SteadyKeeps
<1>4. ASSUME NEW p \in Processes, Lookup(p), UNCHANGED behind,
             Work(p, "admit", [draft[p] EXCEPT !.id = GetCall])
      PROVE  PromiseInv'
  <2>1. /\ UNCHANGED <<now, voice, callKey, promised, ttl, behind, raced>>
        /\ at'[p] = "admit"
        /\ \A q \in Processes \ {p} : at'[q] = at[q] /\ draft'[q] = draft[q]
    BY <1>4 DEF Lookup, Work, store, SessionInv, TypeOK
  <2>2. now' >= now
    BY <1>0, <2>1
  <2>3. \A q \in Processes : Holds(q)' => q # p
    BY <2>1 DEF Holds, Saving
  <2> QED BY <2>1, <2>2, <2>3, SteadyKeeps
<1>5. ASSUME NEW p \in Processes, Admit(p) PROVE PromiseInv'
  <2>1. UNCHANGED <<now, voice, callKey, promised, raced>> /\ Rest(p) /\ behind' = behind \ {p}
    BY <1>5 DEF Admit, store
  <2>2. now' >= now /\ promised' \subseteq promised
    BY <1>0, <2>1
  <2> QED BY <2>1, <2>2, RestIsSteady, SteadyKeeps
<1> QED BY <1>1, <1>2, <1>3, <1>4, <1>5 DEF Lookup

LEMMA NextPromises ==
    SessionInv /\ SessionInv' /\ PromiseInv /\ [DoorNext]_<<vars, doorVars>> => PromiseInv'
<1> SUFFICES ASSUME SessionInv, SessionInv', PromiseInv, [DoorNext]_<<vars, doorVars>>
             PROVE  PromiseInv'
  OBVIOUS
<1>1. CASE Next
  BY <1>1, CreatePromises, ComparePromises, CloseKeeps, SavePromises, OthersPromise DEF Next
<1>2. CASE ~Next
  BY <1>2, OthersPromise DEF DoorNext
<1> QED BY <1>1, <1>2

-----------------------------------------------------------------------------
(* Theorems *)

\* The requests to the store, its commands and the door keep the invariants.
THEOREM SessionInvariance == DoorSpec => [](SessionInv /\ UsedInv)
<1>1. DoorInit => SessionInv /\ UsedInv
  BY InitSessions, InitUsed DEF DoorInit
<1>2. SessionInv /\ UsedInv /\ [DoorNext]_<<vars, doorVars>> => (SessionInv /\ UsedInv)'
  BY NextSessions, NextUsed
<1> QED BY <1>1, <1>2, PTL DEF DoorSpec

\* Every key and every request in progress is what the program's types say, and
\* no lifetime is one that Redis refuses (session/store.py).
THEOREM StoreTypes == DoorSpec => []TypeOK
<1>1. SessionInv /\ UsedInv => TypeOK
  BY DEF SessionInv
<1> QED BY <1>1, SessionInvariance, PTL

\* The key of the call names a stored session until that session expires.
THEOREM IndexFollows == DoorSpec => []IndexFollowsSession
<1>1. SessionInv /\ UsedInv => IndexFollowsSession
  <2> SUFFICES ASSUME SessionInv, GetCall # Nothing
               PROVE  /\ voice[GetCall].until > 0
                      /\ Live(voice[GetCall]) \/ now >= voice[GetCall].request.expires
    BY DEF IndexFollowsSession
  <2>1. GetCall = callKey.id /\ Written(callKey.id)
    BY DEF GetCall, SessionInv, StoreInv
  <2>2. /\ callKey.id \in Ids /\ voice[callKey.id].until > 0
        /\ voice[callKey.id].until >= voice[callKey.id].request.expires
    BY <2>1 DEF Written, SessionInv, StoreInv
  <2>3. voice[callKey.id].until \in Nat /\ voice[callKey.id].request.expires \in Nat /\ now \in Nat
    BY <2>2 DEF SessionInv, TypeOK, Terms
  <2> QED BY <2>1, <2>2, <2>3 DEF Live
<1> QED BY <1>1, SessionInvariance, PTL

\* No two processes accept a token, but in the last second before it expires
\* (session/auth.py, _consume_jti).
THEOREM RepeatsExplained == DoorSpec => []RepeatIsExplained
<1>1. SessionInv /\ UsedInv => RepeatIsExplained
  BY DEF UsedInv
<1> QED BY <1>1, SessionInvariance, PTL

\* After the answer to a terminate no call is started for its session.
THEOREM ClosedStaysOut == DoorSpec => ClosedIsNotAdmitted
<1>1. SessionInv /\ UsedInv /\ [DoorNext]_<<vars, doorVars>> =>
          [calls' # calls => calls'[Len(calls')] \notin terminated]_<<vars, doorVars>>
  <2> SUFFICES ASSUME SessionInv, UsedInv, DoorNext, calls' # calls
               PROVE  calls'[Len(calls')] \notin terminated
    OBVIOUS
  <2>1. PICK p \in Processes : Admit(p)
    BY DEF DoorNext, Verify, VerifyFails, Lookup, doorVars
  <2>2. calls' = Append(calls, draft[p].id) /\ IsUsable(draft[p].request, draft[p].id)
    BY <2>1 DEF Admit
  <2>3. calls'[Len(calls')] = draft[p].id
    BY <2>2 DEF UsedInv
  <2>4. draft[p].id \notin terminated
    BY <2>2 DEF IsUsable, Open, SessionInv, StoreInv
  <2> QED BY <2>3, <2>4
<1> QED BY <1>1, SessionInvariance, PTL DEF DoorSpec, ClosedIsNotAdmitted

\* The processes learn and decide as PromiseInv says, whatever they interleave.
THEOREM PromiseInvariance == DoorSpec => []PromiseInv
<1>1. DoorInit => PromiseInv
  BY InitPromises DEF DoorInit
<1>2. SessionInv /\ SessionInv' /\ PromiseInv /\ [DoorNext]_<<vars, doorVars>> => PromiseInv'
  BY NextPromises
<1>3. DoorSpec => [](SessionInv /\ UsedInv)
  BY SessionInvariance
<1> QED BY <1>1, <1>2, <1>3, PTL DEF DoorSpec

\* A session the backend was told of is what its call leads to, open, until it
\* expires or is closed, unless a process wrote what it had decided before another
\* one's write (SessionService.create, save).
THEOREM PromisesAreKept == DoorSpec => []PromisedIsReachable
<1>1. SessionInv /\ PromiseInv => PromisedIsReachable
  <2> SUFFICES ASSUME SessionInv, PromiseInv, NEW id \in promised, ~raced,
                      ~(now >= voice[id].request.expires)
               PROVE  GetCall = id /\ Open(id)
    BY DEF PromisedIsReachable
  <2>1. /\ id \in Ids /\ id # Nothing /\ voice[id].status = "PREPARED"
        /\ voice[id].until >= voice[id].request.expires
    BY DEF SessionInv, StoreInv, Written, PromiseInv, FreshInv, Ids, Nothing
  <2>2. /\ now \in Nat /\ voice[id].until \in Nat /\ voice[id].request.expires \in Nat
        /\ callKey.until \in Nat
    BY <2>1 DEF SessionInv, TypeOK, Terms
  <2>3. Open(id)
    BY <2>1, <2>2 DEF Open, Live
  <2>4. callKey.id = id
    BY <2>3 DEF PromiseInv, LeadInv, Leads
  <2>5. callKey.until >= voice[id].until
    BY <2>1, <2>4 DEF PromiseInv, FreshInv
  <2> QED BY <2>1, <2>2, <2>3, <2>4, <2>5 DEF GetCall, Live
<1>2. DoorSpec => [](SessionInv /\ UsedInv)
  BY SessionInvariance
<1>3. DoorSpec => []PromiseInv
  BY PromiseInvariance
<1> QED BY <1>1, <1>2, <1>3, PTL

=============================================================================
