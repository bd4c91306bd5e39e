---------------------------- MODULE Events_proofs ----------------------------
(***************************************************************************)
(* Theorems about what is kept of an event outside of its stock, for every *)
(* number of requests, keys, mutations and files: each part of MCEvents by *)
(* an invariant of its own, which its actions keep and the other parts     *)
(* leave alone.                                                            *)
(***************************************************************************)
EXTENDS MCEvents, Sums, SequencesExt, SequenceTheorems

-----------------------------------------------------------------------------
(***************************************************************************)
(* The query cache.  Where a query is fetched again, an entry with nothing *)
(* under way that will fetch it again is what the server has; the profile, *)
(* which is not, has the server's edits and the ones on their way.         *)
(***************************************************************************)
Refetches(e) == call[e].at = "done" \/ (call[e].at = "sent" /\ call[e].mode.always)

FetchedFollows ==
  viewed # "profile" /\ ~missed =>
    /\ request = "none" /\ (\A e \in Edits : ~Refetches(e)) => entry = Q!Response(server)
    /\ request = "answered" /\ (\A e \in Edits : call[e].at # "done") => got = server

EditsAreNew ==
  \A e \in Edits :
    /\ call[e].at = "idle" =>
         e \notin entry.data /\ e \notin server /\ \A f \in Edits : e \notin call[f].snap.data
    /\ call[e].at = "sent" => e \notin server /\ e \notin call[e].snap.data

Sent == {e \in Edits : call[e].at = "sent"}

ProfileFollows ==
  viewed = "profile" =>
    /\ request = "none" /\ ~entry.broken
    /\ \A e \in Edits : ~call[e].snap.broken
    /\ EditsAreNew
    /\ ~missed => entry.data = server \cup Sent

CallsFit == \A e \in Edits : call[e].at # "idle" => call[e].mode \in Q!Modes(viewed)

QueryInv == Q!TypeOK /\ CallsFit /\ FetchedFollows /\ ProfileFollows

LEMMA ModeIs ==
  ASSUME viewed \in Q!Views, NEW m \in Q!Modes(viewed)
  PROVE  /\ m.shows \in {"edit", "broken", "nothing"} /\ m.undoes \in BOOLEAN
         /\ m.always \in BOOLEAN
         /\ m \in UNION {Q!Modes(p) : p \in Q!Views}
         /\ viewed # "profile" /\ ~m.always => ~m.undoes /\ m.shows = "nothing"
         /\ viewed = "profile" => m.shows = "edit" /\ m.undoes /\ ~m.always
<1>1. m \in {Q!Optimistic, Q!Misshapen, Q!Restoring, Q!Settling, Q!Succeeding, Q!Trusting}
  BY DEF Q!Views, Q!Modes
<1>2. /\ viewed = "profile" => m = Q!Trusting
      /\ viewed # "profile" => m # Q!Trusting
  BY DEF Q!Views, Q!Modes, Q!Optimistic, Q!Misshapen, Q!Restoring, Q!Settling,
         Q!Succeeding, Q!Trusting, Q!Mode
<1>3. m \in UNION {Q!Modes(p) : p \in Q!Views}
  OBVIOUS
<1>4. /\ Q!Optimistic.shows = "edit" /\ Q!Optimistic.undoes = TRUE /\ Q!Optimistic.always = TRUE
      /\ Q!Misshapen.shows = "broken" /\ Q!Misshapen.undoes = TRUE /\ Q!Misshapen.always = TRUE
      /\ Q!Restoring.shows = "nothing" /\ Q!Restoring.undoes = TRUE /\ Q!Restoring.always = TRUE
      /\ Q!Settling.shows = "nothing" /\ Q!Settling.undoes = FALSE /\ Q!Settling.always = TRUE
      /\ Q!Succeeding.shows = "nothing" /\ Q!Succeeding.undoes = FALSE
      /\ Q!Succeeding.always = FALSE
      /\ Q!Trusting.shows = "edit" /\ Q!Trusting.undoes = TRUE /\ Q!Trusting.always = FALSE
  BY DEF Q!Optimistic, Q!Misshapen, Q!Restoring, Q!Settling, Q!Succeeding, Q!Trusting, Q!Mode
<1>5. viewed = "profile" => m.shows = "edit" /\ m.undoes = TRUE /\ m.always = FALSE
  BY <1>2, <1>4
<1>6. m.shows \in {"edit", "broken", "nothing"} /\ m.undoes \in BOOLEAN /\ m.always \in BOOLEAN
  BY <1>1, <1>4
<1>7. viewed # "profile" /\ m.always = FALSE => m.undoes = FALSE /\ m.shows = "nothing"
  BY <1>1, <1>2, <1>4
<1> QED
  BY <1>3, <1>5, <1>6, <1>7

LEMMA QueryStarts == Q!Init => QueryInv
<1> SUFFICES ASSUME Q!Init PROVE QueryInv
  OBVIOUS
<1>1. Q!Response({}) \in Q!CacheType /\ Q!Response({}).data = {} /\ ~Q!Response({}).broken
  BY DEF Q!Response, Q!CacheType
<1>2. Q!Settling \in UNION {Q!Modes(p) : p \in Q!Views}
  BY DEF Q!Modes, Q!Views
<1>3. Q!Idle \in Q!CallType /\ Q!Idle.at = "idle" /\ Q!Idle.snap = Q!Response({})
  BY <1>1, <1>2 DEF Q!Idle, Q!CallType
<1>4. Q!TypeOK
  BY <1>1, <1>3 DEF Q!Init, Q!TypeOK
<1> QED
  BY <1>1, <1>3, <1>4
  DEF Q!Init, QueryInv, CallsFit, FetchedFollows, ProfileFollows, EditsAreNew, Sent, Refetches

LEMMA EntryIs ==
  ASSUME NEW c \in Q!CacheType
  PROVE  /\ c.data \in SUBSET Edits /\ c.broken \in BOOLEAN
         /\ ~c.broken => c = Q!Response(c.data)
BY DEF Q!CacheType, Q!Response

LEMMA ResponseIs ==
  ASSUME NEW es \in SUBSET Edits
  PROVE  /\ Q!Response(es) \in Q!CacheType /\ Q!Response(es).data = es
         /\ ~Q!Response(es).broken
         /\ Q!Broken \in Q!CacheType
BY DEF Q!CacheType, Q!Response, Q!Broken

LEMMA ShownIs ==
  ASSUME NEW m, m.shows \in {"edit", "broken", "nothing"},
         NEW c \in Q!CacheType, NEW e \in Edits
  PROVE  /\ Q!Shown(m, c, e) \in Q!CacheType
         /\ m.shows = "nothing" => Q!Shown(m, c, e) = c
         /\ m.shows = "edit" /\ ~c.broken => /\ Q!Shown(m, c, e).data = c.data \cup {e}
                                             /\ ~Q!Shown(m, c, e).broken
<1>1. c.data \cup {e} \in SUBSET Edits
  BY EntryIs
<1>2. CASE m.shows = "nothing"
  BY <1>2 DEF Q!Shown
<1>3. CASE m.shows # "nothing" /\ (m.shows = "broken" \/ c.broken)
  BY <1>1, <1>3, ResponseIs DEF Q!Shown
<1>4. CASE m.shows # "nothing" /\ ~(m.shows = "broken" \/ c.broken)
  BY <1>1, <1>4, ResponseIs DEF Q!Shown
<1> QED
  BY <1>2, <1>3, <1>4

\* What a call is.
LEMMA CallIs ==
  ASSUME NEW c \in Q!CallType
  PROVE  /\ c.at \in {"idle", "sent", "done", "over", "late"} /\ c.snap \in Q!CacheType
         /\ c.mode \in UNION {Q!Modes(p) : p \in Q!Views}
BY DEF Q!CallType

LEMMA MutateStep ==
  ASSUME QueryInv, NEW e \in Edits, Q!Mutate(e)
  PROVE  QueryInv'
<1>1. PICK m \in Q!Modes(viewed) :
        /\ call[e].at = "idle" /\ UNCHANGED <<viewed, server, got>>
        /\ call' = [call EXCEPT ![e] = [at |-> "sent", mode |-> m, snap |-> entry]]
        /\ entry' = Q!Shown(m, entry, e)
        /\ request' = IF m.undoes THEN "none" ELSE request
        /\ missed' = (missed \/ request' # request)
  BY DEF Q!Mutate
<1>2. /\ viewed \in Q!Views /\ server \in SUBSET Edits /\ entry \in Q!CacheType
      /\ call \in [Edits -> Q!CallType] /\ request \in {"none", "asked", "answered"}
      /\ got \in SUBSET Edits /\ missed \in BOOLEAN
  BY DEF QueryInv, Q!TypeOK
<1>3. /\ m.shows \in {"edit", "broken", "nothing"} /\ m.undoes \in BOOLEAN
      /\ m.always \in BOOLEAN
      /\ m \in UNION {Q!Modes(p) : p \in Q!Views}
      /\ viewed # "profile" /\ ~m.always => ~m.undoes /\ m.shows = "nothing"
      /\ viewed = "profile" => m.shows = "edit" /\ m.undoes /\ ~m.always
  BY <1>2, ModeIs
<1>4. PICK c \in Q!CallType : /\ c = [at |-> "sent", mode |-> m, snap |-> entry]
                              /\ c.at = "sent" /\ c.mode = m /\ c.snap = entry
  <2>1. [at |-> "sent", mode |-> m, snap |-> entry] \in Q!CallType
    BY <1>2, <1>3 DEF Q!CallType
  <2> QED
    BY <2>1
<1>5. /\ call' \in [Edits -> Q!CallType] /\ call'[e] = c
      /\ \A f \in Edits : f # e => call'[f] = call[f]
  BY <1>1, <1>2, <1>4
<1>6. /\ entry' \in Q!CacheType
      /\ m.shows = "nothing" => entry' = entry
      /\ m.shows = "edit" /\ ~entry.broken => /\ entry'.data = entry.data \cup {e}
                                              /\ ~entry'.broken
  BY <1>1, <1>2, <1>3, ShownIs
<1>7. Q!TypeOK'
  BY <1>1, <1>2, <1>5, <1>6 DEF Q!TypeOK
<1>8. CallsFit'
  BY <1>1, <1>4, <1>5 DEF QueryInv, CallsFit
<1>9. FetchedFollows'
  <2>1. SUFFICES ASSUME viewed # "profile", ~missed'
                 PROVE  /\ request' = "none" /\ (\A f \in Edits : ~Refetches(f)')
                             => entry' = Q!Response(server')
                        /\ request' = "answered" /\ (\A f \in Edits : call'[f].at # "done")
                             => got' = server'
    BY <1>1 DEF FetchedFollows
  <2>2. ~missed /\ request' = request
    BY <1>1, <1>2, <2>1
  <2>3. m.always => Refetches(e)'
    BY <1>4, <1>5 DEF Refetches
  <2>4. ~m.always => entry' = entry
    BY <1>3, <1>6, <2>1
  <2>5. \A f \in Edits : Refetches(f) => Refetches(f)'
    BY <1>1, <1>5 DEF Refetches
  <2>6. \A f \in Edits : call[f].at = "done" => call'[f].at = "done"
    BY <1>1, <1>5
  <2> QED
    BY <1>1, <2>1, <2>2, <2>3, <2>4, <2>5, <2>6 DEF QueryInv, FetchedFollows
<1>10. ProfileFollows'
  <2>1. SUFFICES ASSUME viewed = "profile"
                 PROVE  ProfileFollows'
    BY <1>1 DEF ProfileFollows
  <2>2. /\ request = "none" /\ ~entry.broken /\ EditsAreNew
        /\ \A f \in Edits : ~call[f].snap.broken
        /\ ~missed => entry.data = server \cup Sent
    BY <2>1 DEF QueryInv, ProfileFollows
  <2>3. /\ request' = "none" /\ ~entry'.broken /\ entry'.data = entry.data \cup {e}
        /\ missed' = missed
    BY <1>1, <1>2, <1>3, <1>6, <2>1, <2>2
  <2>4. \A f \in Edits : ~call'[f].snap.broken
    BY <1>4, <1>5, <2>2
  <2>5. EditsAreNew'
    BY <1>1, <1>4, <1>5, <2>2, <2>3 DEF EditsAreNew
  <2>6. Sent' = Sent \cup {e}
    BY <1>4, <1>5 DEF Sent
  <2> QED
    BY <1>1, <2>2, <2>3, <2>4, <2>5, <2>6 DEF ProfileFollows
<1> QED
  BY <1>7, <1>8, <1>9, <1>10 DEF QueryInv

\* A call moves on; its mode and what it has seen stay.
LEMMA CallMoves ==
  ASSUME QueryInv, NEW e \in Edits,
         NEW at \in {"idle", "sent", "done", "over", "late"},
         call' = [call EXCEPT ![e].at = at], viewed' = viewed, call[e].at # "idle"
  PROVE  /\ call' \in [Edits -> Q!CallType]
         /\ call'[e].at = at /\ call'[e].mode = call[e].mode /\ call'[e].snap = call[e].snap
         /\ \A f \in Edits : f # e => call'[f] = call[f]
         /\ at # "idle" => CallsFit'
<1>1. call \in [Edits -> Q!CallType] /\ call[e] \in Q!CallType
  BY DEF QueryInv, Q!TypeOK
<1>2. PICK c \in Q!CallType : c = [call[e] EXCEPT !.at = at]
  BY <1>1 DEF Q!CallType
<1>3. c.at = at /\ c.mode = call[e].mode /\ c.snap = call[e].snap
  BY <1>1, <1>2 DEF Q!CallType
<1>4. call' = [call EXCEPT ![e] = c]
  BY <1>1, <1>2
<1>5. /\ call' \in [Edits -> Q!CallType] /\ call'[e] = c
      /\ \A f \in Edits : f # e => call'[f] = call[f]
  BY <1>1, <1>4
<1> QED
  BY <1>3, <1>5 DEF QueryInv, CallsFit

LEMMA ApplyStep ==
  ASSUME QueryInv, NEW e \in Edits, Q!Apply(e)
  PROVE  QueryInv'
<1>1. /\ call[e].at \in {"sent", "late"} /\ server' = server \cup {e}
      /\ call' = [call EXCEPT ![e].at = IF @ = "sent" THEN "done" ELSE "over"]
      /\ missed' = (missed \/ call[e].at = "late")
      /\ UNCHANGED <<viewed, entry, request, got>>
  BY DEF Q!Apply
<1>2. /\ viewed \in Q!Views /\ server \in SUBSET Edits /\ entry \in Q!CacheType
      /\ call \in [Edits -> Q!CallType] /\ request \in {"none", "asked", "answered"}
      /\ got \in SUBSET Edits /\ missed \in BOOLEAN
  BY DEF QueryInv, Q!TypeOK
<1>3. PICK at \in {"idle", "sent", "done", "over", "late"} :
        /\ call' = [call EXCEPT ![e].at = at]
        /\ \/ call[e].at = "sent" /\ at = "done"
           \/ call[e].at = "late" /\ at = "over"
  <2>1. CASE call[e].at = "sent"
    BY <1>1, <1>2, <2>1
  <2>2. CASE call[e].at = "late"
    BY <1>1, <1>2, <2>2
  <2> QED
    BY <1>1, <2>1, <2>2
<1>4. /\ call' \in [Edits -> Q!CallType]
      /\ call'[e].at = at /\ call'[e].mode = call[e].mode /\ call'[e].snap = call[e].snap
      /\ \A f \in Edits : f # e => call'[f] = call[f]
      /\ CallsFit'
  BY <1>1, <1>3, CallMoves
<1>5. Q!TypeOK'
  BY <1>1, <1>2, <1>4 DEF Q!TypeOK
<1>6. FetchedFollows'
  <2>1. SUFFICES ASSUME viewed # "profile", ~missed'
                 PROVE  FetchedFollows'
    BY <1>1 DEF FetchedFollows
  <2>2. call'[e].at = "done"
    BY <1>1, <1>2, <1>3, <1>4, <2>1
  <2> QED
    BY <2>2 DEF FetchedFollows, Refetches
<1>7. ProfileFollows'
  <2>1. SUFFICES ASSUME viewed = "profile"
                 PROVE  ProfileFollows'
    BY <1>1 DEF ProfileFollows
  <2>2. /\ request = "none" /\ ~entry.broken /\ EditsAreNew
        /\ \A f \in Edits : ~call[f].snap.broken
        /\ ~missed => entry.data = server \cup Sent
    BY <2>1 DEF QueryInv, ProfileFollows
  <2>3. \A f \in Edits : ~call'[f].snap.broken
    BY <1>4, <2>2
  <2>4. \A f \in Edits : call'[f].snap = call[f].snap
    BY <1>4
  <2>5. EditsAreNew'
    <3>1. ASSUME NEW f \in Edits
          PROVE  /\ call'[f].at = "idle" => call[f].at = "idle" /\ f # e
                 /\ call'[f].at = "sent" => call[f].at = "sent" /\ f # e
      BY <1>3, <1>4
    <3> QED
      BY <1>1, <2>2, <2>4, <3>1 DEF EditsAreNew
  <2>6. server' \cup Sent' = server \cup Sent \/ missed'
    <3>1. CASE call[e].at = "sent"
      <4>1. Sent' = Sent \ {e} /\ e \in Sent
        BY <1>3, <1>4, <3>1 DEF Sent
      <4> QED
        BY <1>1, <4>1
    <3> QED
      BY <1>1, <3>1
  <2> QED
    BY <1>1, <2>2, <2>3, <2>5, <2>6 DEF ProfileFollows
<1> QED
  BY <1>4, <1>5, <1>6, <1>7 DEF QueryInv

LEMMA SucceedStep ==
  ASSUME QueryInv, NEW e \in Edits, Q!Succeed(e)
  PROVE  QueryInv'
<1>1. /\ call[e].at = "done" /\ call' = [call EXCEPT ![e].at = "over"]
      /\ request' = IF viewed # "profile" THEN "asked" ELSE request
      /\ UNCHANGED <<viewed, server, entry, got, missed>>
  BY DEF Q!Succeed, Q!Refetched, Q!Enabled
<1>2. /\ viewed \in Q!Views /\ server \in SUBSET Edits /\ entry \in Q!CacheType
      /\ request \in {"none", "asked", "answered"}
      /\ got \in SUBSET Edits /\ missed \in BOOLEAN
  BY DEF QueryInv, Q!TypeOK
<1>3. /\ call' \in [Edits -> Q!CallType]
      /\ call'[e].at = "over" /\ call'[e].mode = call[e].mode /\ call'[e].snap = call[e].snap
      /\ \A f \in Edits : f # e => call'[f] = call[f]
      /\ CallsFit'
  BY <1>1, CallMoves
<1>4. Q!TypeOK'
  BY <1>1, <1>2, <1>3 DEF Q!TypeOK
<1>5. FetchedFollows'
  BY <1>1 DEF FetchedFollows
<1>6. ProfileFollows'
  <2>1. \A f \in Edits : call'[f].snap = call[f].snap
    BY <1>3
  <2>2. Sent' = Sent
    BY <1>1, <1>3 DEF Sent
  <2>3. EditsAreNew => EditsAreNew'
    BY <1>1, <1>3, <2>1 DEF EditsAreNew
  <2> QED
    BY <1>1, <2>1, <2>2, <2>3 DEF QueryInv, ProfileFollows
<1> QED
  BY <1>3, <1>4, <1>5, <1>6 DEF QueryInv

LEMMA FailStep ==
  ASSUME QueryInv, NEW e \in Edits, Q!Fail(e)
  PROVE  QueryInv'
<1> DEFINE m == call[e].mode
<1>1. /\ call[e].at \in {"sent", "done"}
      /\ \E at \in {"over", "late"} : call' = [call EXCEPT ![e].at = at]
      /\ entry' = IF m.undoes THEN call[e].snap ELSE entry
      /\ request' = IF m.always /\ viewed # "profile" THEN "asked" ELSE request
      /\ missed' = \/ missed
                   \/ ~(m.always /\ viewed # "profile") /\ call[e].at = "done"
                   \/ ~(viewed # "profile") /\ entry # Q!Shown(m, call[e].snap, e)
      /\ UNCHANGED <<viewed, server, got>>
  BY DEF Q!Fail, Q!Refetched, Q!Enabled, Q!Undone
<1>2. /\ viewed \in Q!Views /\ server \in SUBSET Edits /\ entry \in Q!CacheType
      /\ call \in [Edits -> Q!CallType] /\ request \in {"none", "asked", "answered"}
      /\ got \in SUBSET Edits /\ missed \in BOOLEAN
  BY DEF QueryInv, Q!TypeOK
<1>3. call[e].mode \in Q!Modes(viewed) /\ call[e].snap \in Q!CacheType
  BY <1>1, <1>2, CallIs DEF QueryInv, CallsFit
<1>4. /\ m.shows \in {"edit", "broken", "nothing"} /\ m.undoes \in BOOLEAN
      /\ m.always \in BOOLEAN
      /\ viewed # "profile" /\ ~m.always => ~m.undoes /\ m.shows = "nothing"
      /\ viewed = "profile" => m.shows = "edit" /\ m.undoes /\ ~m.always
  BY <1>2, <1>3, ModeIs
<1> HIDE DEF m
<1>5. PICK at \in {"idle", "sent", "done", "over", "late"} :
        call' = [call EXCEPT ![e].at = at] /\ at \in {"over", "late"}
  BY <1>1
<1>6. /\ call' \in [Edits -> Q!CallType]
      /\ call'[e].at = at /\ call'[e].mode = call[e].mode /\ call'[e].snap = call[e].snap
      /\ \A f \in Edits : f # e => call'[f] = call[f]
      /\ CallsFit'
  BY <1>1, <1>5, CallMoves
<1>7. entry' \in Q!CacheType
  BY <1>1, <1>2, <1>3
<1>8. Q!TypeOK'
  <2>1. missed' \in BOOLEAN /\ request' \in {"none", "asked", "answered"}
    BY <1>1, <1>2
  <2> QED
    BY <1>1, <1>2, <1>6, <1>7, <2>1 DEF Q!TypeOK
<1>9. FetchedFollows'
  <2>1. SUFFICES ASSUME viewed # "profile", ~missed', ~m.always
                 PROVE  FetchedFollows'
    BY <1>1, <1>4 DEF FetchedFollows
  <2>2. /\ ~missed /\ call[e].at = "sent" /\ entry' = entry /\ request' = request
    BY <1>1, <1>2, <1>4, <2>1
  <2>3. ~Refetches(e) /\ call[e].at # "done"
    BY <2>1, <2>2 DEF Refetches, m
  <2>4. \A f \in Edits : Refetches(f) => Refetches(f)'
    BY <1>6, <2>3 DEF Refetches
  <2>5. \A f \in Edits : call[f].at = "done" => call'[f].at = "done"
    BY <1>6, <2>3
  <2> QED
    BY <1>1, <2>1, <2>2, <2>4, <2>5 DEF QueryInv, FetchedFollows
<1>10. ProfileFollows'
  <2>1. SUFFICES ASSUME viewed = "profile"
                 PROVE  ProfileFollows'
    BY <1>1 DEF ProfileFollows
  <2>2. /\ request = "none" /\ ~entry.broken /\ EditsAreNew
        /\ \A f \in Edits : ~call[f].snap.broken
        /\ ~missed => entry.data = server \cup Sent
    BY <2>1 DEF QueryInv, ProfileFollows
  <2>3. entry' = call[e].snap /\ request' = "none"
    BY <1>1, <1>4, <2>1, <2>2
  <2>4. \A f \in Edits : call'[f].snap = call[f].snap
    BY <1>6
  <2>5. EditsAreNew'
    <3>1. ASSUME NEW f \in Edits
          PROVE  /\ call'[f].at = "idle" => call[f].at = "idle" /\ f # e
                 /\ call'[f].at = "sent" => call[f].at = "sent" /\ f # e
      BY <1>5, <1>6
    <3> QED
      BY <1>1, <2>2, <2>3, <2>4, <3>1 DEF EditsAreNew
  <2>6. ASSUME ~missed' PROVE entry'.data = server' \cup Sent'
    <3>1. ~missed /\ call[e].at = "sent" /\ entry = Q!Shown(m, call[e].snap, e)
      BY <1>1, <1>2, <2>1, <2>6
    <3>2. entry.data = call[e].snap.data \cup {e}
      <4>1. ~call[e].snap.broken
        BY <2>2
      <4> QED
        BY <1>3, <1>4, <2>1, <3>1, <4>1, ShownIs
    <3>3. e \notin call[e].snap.data /\ e \notin server
      BY <2>2, <3>1 DEF EditsAreNew
    <3>4. Sent' = Sent \ {e} /\ e \in Sent
      BY <1>5, <1>6, <3>1 DEF Sent
    <3>5. entry.data = server \cup Sent
      BY <2>2, <3>1
    <3> QED
      BY <1>1, <2>3, <3>2, <3>3, <3>4, <3>5
  <2> QED
    BY <2>2, <2>3, <2>4, <2>5, <2>6 DEF ProfileFollows
<1> QED
  BY <1>6, <1>8, <1>9, <1>10 DEF QueryInv

LEMMA FetchStep ==
  ASSUME QueryInv, Q!Answer \/ Q!Fetched \/ Q!FetchFails
  PROVE  QueryInv'
<1>1. UNCHANGED <<viewed, server, call>> /\ request # "none" /\ missed' \in BOOLEAN
  BY DEF Q!Answer, Q!Fetched, Q!FetchFails, QueryInv, Q!TypeOK
<1>2. /\ viewed \in Q!Views /\ server \in SUBSET Edits /\ entry \in Q!CacheType
      /\ call \in [Edits -> Q!CallType] /\ request \in {"none", "asked", "answered"}
      /\ got \in SUBSET Edits
  BY DEF QueryInv, Q!TypeOK
<1>3. viewed # "profile"
  BY <1>1 DEF QueryInv, ProfileFollows
<1>4. Q!TypeOK'
  BY <1>1, <1>2, ResponseIs DEF Q!Answer, Q!Fetched, Q!FetchFails, Q!TypeOK
<1>5. FetchedFollows'
  BY <1>1 DEF Q!Answer, Q!Fetched, Q!FetchFails, QueryInv, FetchedFollows, Refetches
<1> QED
  BY <1>1, <1>3, <1>4, <1>5 DEF QueryInv, CallsFit, ProfileFollows

LEMMA ListOrRetryStep ==
  ASSUME QueryInv, Q!List \/ Q!Retry
  PROVE  QueryInv'
<1>1. /\ UNCHANGED <<viewed, server, call, got>> /\ viewed = "review"
      /\ \/ entry' = Q!Broken /\ missed' = TRUE /\ request' = request
         \/ entry' = entry /\ missed' = missed /\ request' = "asked"
  BY DEF Q!List, Q!Retry, Q!Refetched, Q!Enabled
<1>2. Q!TypeOK'
  BY <1>1, ResponseIs DEF QueryInv, Q!TypeOK
<1>3. FetchedFollows'
  BY <1>1 DEF FetchedFollows
<1> QED
  BY <1>1, <1>2, <1>3 DEF QueryInv, CallsFit, ProfileFollows

LEMMA QueryKept == QueryInv /\ [Q!Next]_qVars => QueryInv'
<1>1. ASSUME QueryInv, UNCHANGED qVars PROVE QueryInv'
  BY <1>1 DEF qVars, QueryInv, Q!TypeOK, CallsFit, FetchedFollows, ProfileFollows,
              EditsAreNew, Sent, Refetches
<1> QED
  BY <1>1, MutateStep, ApplyStep, SucceedStep, FailStep, FetchStep, ListOrRetryStep
  DEF Q!Next

LEMMA QueryAlways == Spec => []QueryInv
<1>1. Init => QueryInv
  BY QueryStarts DEF Init
<1>2. QueryInv /\ [Next]_vars => QueryInv'
  <2>1. [Next]_vars => [Q!Next]_qVars
    BY DEF Next, vars
  <2> QED
    BY <2>1, QueryKept
<1> QED
  BY <1>1, <1>2, PTL DEF Spec

\* A page shows what the server has once nothing is under way, for every number
\* of mutations and in every order of them, their roll-backs and the requests
\* (use-event-detail.ts:62, use-user.ts:141).
THEOREM PagesShowTheServer == Spec => []ShownFollows
<1>1. QueryInv => ShownFollows
  <2> SUFFICES ASSUME QueryInv, Q!Quiet, ~missed PROVE entry = Q!Response(server)
    BY DEF ShownFollows, Q!ShownFollows
  <2>1. viewed # "profile" => entry = Q!Response(server)
    BY DEF QueryInv, FetchedFollows, Refetches, Q!Quiet
  <2>2. viewed = "profile" => entry = Q!Response(server)
    <3>1. Sent = {}
      BY DEF Sent, Q!Quiet
    <3> QED
      BY <3>1, EntryIs DEF QueryInv, ProfileFollows, Q!TypeOK
  <2> QED
    BY <2>1, <2>2
<1> QED
  BY <1>1, QueryAlways, PTL

-----------------------------------------------------------------------------
(***************************************************************************)
(* The stock on an event's page.  A run of the polling effect that did not *)
(* end has a loop of its own, one only until a 304 is answered; without a  *)
(* run there is none.  The stream is open once it has brought an update,   *)
(* and until it has, polling is allowed or the timer that allows it set.   *)
(***************************************************************************)
LoopsFit == /\ S!Live # {} <=> running /\ ~over
            /\ ~doubled => \A l, k \in S!Live : l = k
StreamFits == (connected => stream = "open") /\ (connected \/ allowed \/ grace)
StockInv == S!TypeOK /\ LoopsFit /\ StreamFits

LEMMA LiveIs ==
  ASSUME NEW l
  PROVE  l \in S!Live <=> l \in Loops /\ loop[l].at # "idle" /\ loop[l].ours
BY DEF S!Live

LEMMA LoopIs ==
  ASSUME NEW x \in S!LoopType
  PROVE  x.at \in {"idle", "timer", "asked", "body"} /\ x.ours \in BOOLEAN /\ x.kept \in BOOLEAN
BY DEF S!LoopType

LEMMA IdleIs == S!Idle \in S!LoopType /\ S!Idle.at = "idle" /\ ~S!Idle.ours
BY DEF S!Idle, S!LoopType

LEMMA StockStarts == S!Init => StockInv
<1> SUFFICES ASSUME S!Init PROVE StockInv
  OBVIOUS
<1>1. \A l \in Loops : loop[l] = S!Idle
  BY DEF S!Init, S!NoLoops
<1>2. S!Live = {}
  BY <1>1, IdleIs, LiveIs
<1>3. S!TypeOK
  BY IdleIs DEF S!Init, S!TypeOK, S!NoLoops
<1> QED
  BY <1>2, <1>3 DEF S!Init, StockInv, LoopsFit, StreamFits

\* A loop is given a place; the others are what they were but for the
\* references that held them.
LEMMA WithIs ==
  ASSUME NEW ls \in [Loops -> S!LoopType], NEW l \in Loops, NEW at \in {"timer", "asked"}
  PROVE  /\ S!With(ls, l, at) \in [Loops -> S!LoopType]
         /\ S!With(ls, l, at)[l].at = at /\ S!With(ls, l, at)[l].ours
         /\ \A k \in Loops : k # l => /\ S!With(ls, l, at)[k].at = ls[k].at
                                      /\ S!With(ls, l, at)[k].ours = ls[k].ours
<1>1. PICK new \in S!LoopType :
        new = [at |-> at, ours |-> TRUE, kept |-> TRUE] /\ new.at = at /\ new.ours
  <2>1. [at |-> at, ours |-> TRUE, kept |-> TRUE] \in S!LoopType
    BY DEF S!LoopType
  <2> QED
    BY <2>1
<1>2. ASSUME NEW k \in Loops
      PROVE  /\ [ls[k] EXCEPT !.kept = FALSE] \in S!LoopType
             /\ [ls[k] EXCEPT !.kept = FALSE].at = ls[k].at
             /\ [ls[k] EXCEPT !.kept = FALSE].ours = ls[k].ours
  <2>1. ls[k] \in S!LoopType
    OBVIOUS
  <2> QED
    BY <2>1 DEF S!LoopType
<1>3. S!With(ls, l, at) =
        [k \in Loops |-> IF k = l THEN new
                         ELSE IF (ls[k].at = "timer") = (at = "timer")
                           THEN [ls[k] EXCEPT !.kept = FALSE] ELSE ls[k]]
  BY <1>1 DEF S!With
<1>4. /\ S!With(ls, l, at)[l] = new
      /\ \A k \in Loops : k # l => S!With(ls, l, at)[k] \in {ls[k], [ls[k] EXCEPT !.kept = FALSE]}
  BY <1>3
<1>5. ASSUME NEW k \in Loops PROVE S!With(ls, l, at)[k] \in S!LoopType
  BY <1>2, <1>4
<1>6. S!With(ls, l, at) \in [Loops -> S!LoopType]
  <2>1. S!With(ls, l, at) = [k \in Loops |-> S!With(ls, l, at)[k]]
    BY <1>3
  <2> QED
    BY <1>5, <2>1
<1> QED
  BY <1>1, <1>2, <1>4, <1>6

\* A stopped run leaves no loop that is its own.
LEMMA StoppedIs ==
  ASSUME NEW ls \in [Loops -> S!LoopType]
  PROVE  /\ S!Stopped(ls) \in [Loops -> S!LoopType]
         /\ \A l \in Loops : ~S!Stopped(ls)[l].ours
<1>1. ASSUME NEW l \in Loops
      PROVE  S!Stopped(ls)[l] \in S!LoopType /\ ~S!Stopped(ls)[l].ours
  <2>1. ls[l] \in S!LoopType
    OBVIOUS
  <2>2. PICK x \in S!LoopType : x = [ls[l] EXCEPT !.ours = FALSE] /\ ~x.ours
    <3>1. [ls[l] EXCEPT !.ours = FALSE] \in S!LoopType /\ ~[ls[l] EXCEPT !.ours = FALSE].ours
      BY <2>1 DEF S!LoopType
    <3> QED
      BY <3>1
  <2>3. S!Stopped(ls)[l] \in {S!Idle, x}
    BY <2>2 DEF S!Stopped
  <2> QED
    BY <2>2, <2>3, IdleIs
<1>2. S!Stopped(ls) = [l \in Loops |-> S!Stopped(ls)[l]]
  BY DEF S!Stopped
<1> QED
  BY <1>1, <1>2

LEMMA StreamStep ==
  ASSUME StockInv, S!Connect \/ S!Update \/ S!StreamError \/ S!GraceOver \/ S!Visibility
  PROVE  StockInv'
<1>1. UNCHANGED <<open, running, loop, over, doubled>> /\ tagged' \in BOOLEAN
  BY DEF S!Connect, S!Update, S!StreamError, S!GraceOver, S!Visibility, S!runVars, S!stateVars,
         StockInv, S!TypeOK
<1>2. S!Live' = S!Live
  BY <1>1 DEF S!Live
<1>3. StreamFits'
  BY DEF S!Connect, S!Update, S!StreamError, S!GraceOver, S!Visibility, S!stateVars, S!Drops,
         StockInv, StreamFits
<1>4. S!TypeOK'
  <2>1. hidden' \in BOOLEAN /\ connected' \in BOOLEAN /\ allowed' \in BOOLEAN /\ grace' \in BOOLEAN
    BY DEF S!Connect, S!Update, S!StreamError, S!GraceOver, S!Visibility, S!stateVars, S!Drops,
           StockInv, S!TypeOK
  <2>2. stream' \in {"connecting", "open", "closed"}
    BY DEF S!Connect, S!Update, S!StreamError, S!GraceOver, S!Visibility, S!stateVars,
           StockInv, S!TypeOK
  <2> QED
    BY <1>1, <2>1, <2>2 DEF StockInv, S!TypeOK
<1> QED
  BY <1>1, <1>2, <1>3, <1>4 DEF StockInv, LoopsFit

LEMMA RenderStep ==
  ASSUME StockInv, S!Render
  PROVE  StockInv'
<1>1. /\ UNCHANGED <<open, stream, connected, allowed, grace, tagged, hidden>>
      /\ running # S!Enabled /\ running' = S!Enabled
      /\ over' = FALSE /\ doubled' = FALSE
  BY DEF S!Render, S!stateVars
<1>2. loop \in [Loops -> S!LoopType] /\ running \in BOOLEAN
  BY DEF StockInv, S!TypeOK
<1>3. S!Enabled \in BOOLEAN
  BY DEF S!Enabled, StockInv, S!TypeOK
<1>4. PICK ls \in [Loops -> S!LoopType] :
        /\ \A l \in Loops : ls[l].at = "idle" \/ ~ls[l].ours
        /\ IF S!Enabled THEN \E l \in S!Free(ls) : loop' = S!Ticked(ls, l) ELSE loop' = ls
  <2>1. CASE running
    <3>1. IF S!Enabled THEN \E l \in S!Free(S!Stopped(loop)) : loop' = S!Ticked(S!Stopped(loop), l)
                       ELSE loop' = S!Stopped(loop)
      BY <2>1 DEF S!Render
    <3> QED
      BY <1>2, <3>1, StoppedIs
  <2>2. CASE ~running
    <3>1. IF S!Enabled THEN \E l \in S!Free(loop) : loop' = S!Ticked(loop, l) ELSE loop' = loop
      BY <2>2 DEF S!Render
    <3>2. S!Live = {}
      BY <2>2 DEF StockInv, LoopsFit
    <3> QED
      BY <1>2, <3>1, <3>2, LiveIs
  <2> QED
    BY <1>2, <2>1, <2>2
<1>5. CASE S!Enabled
  <2>1. PICK l \in Loops, at \in {"timer", "asked"} : loop' = S!With(ls, l, at)
    BY <1>4, <1>5 DEF S!Free, S!Ticked
  <2>2. /\ loop' \in [Loops -> S!LoopType] /\ loop'[l].at = at /\ loop'[l].ours
        /\ \A k \in Loops : k # l => loop'[k].at = ls[k].at /\ loop'[k].ours = ls[k].ours
    BY <2>1, WithIs
  <2>3. \A k : k \in S!Live' <=> k = l
    <3>1. ASSUME NEW k
          PROVE  k \in S!Live' <=> k \in Loops /\ loop'[k].at # "idle" /\ loop'[k].ours
      BY DEF S!Live
    <3> QED
      BY <1>4, <2>2, <3>1
  <2>4. S!TypeOK'
    BY <1>1, <1>3, <2>2 DEF StockInv, S!TypeOK
  <2>5. running' = TRUE /\ over' = FALSE /\ doubled' = FALSE
    BY <1>1, <1>3, <1>5
  <2>6. LoopsFit'
    BY <2>3, <2>5 DEF LoopsFit
  <2>7. StreamFits'
    BY <1>1 DEF StockInv, StreamFits
  <2> QED
    BY <2>4, <2>6, <2>7 DEF StockInv
<1>6. CASE ~S!Enabled
  <2>1. loop' = ls
    BY <1>4, <1>6
  <2>2. S!Live' = {}
    BY <1>4, <2>1 DEF S!Live
  <2>3. running' = FALSE
    BY <1>1, <1>3, <1>6
  <2> QED
    BY <1>1, <2>1, <2>2, <2>3 DEF StockInv, S!TypeOK, LoopsFit, StreamFits
<1> QED
  BY <1>5, <1>6

\* A loop goes on, or ends if its run has: the run has the loops it had.
LEMMA LoopGoesOn ==
  ASSUME StockInv, NEW l \in Loops, loop[l].at # "idle",
         loop' \in [Loops -> S!LoopType],
         loop[l].ours => loop'[l].ours /\ loop'[l].at # "idle",
         ~loop[l].ours => loop'[l].at = "idle" \/ ~loop'[l].ours,
         \A k \in Loops : k # l => loop'[k].at = loop[k].at /\ loop'[k].ours = loop[k].ours,
         UNCHANGED <<open, stream, connected, allowed, grace, running, over, doubled, hidden>>,
         tagged' \in BOOLEAN
  PROVE  StockInv'
<1>1. loop \in [Loops -> S!LoopType]
  BY DEF StockInv, S!TypeOK
<1>2. loop[l].ours \in BOOLEAN /\ loop'[l].ours \in BOOLEAN
  BY <1>1, LoopIs
<1>3. ASSUME NEW k \in Loops
      PROVE  (loop'[k].at # "idle" /\ loop'[k].ours) <=> (loop[k].at # "idle" /\ loop[k].ours)
  BY <1>2
<1>4. S!Live' = S!Live
  BY <1>3 DEF S!Live
<1> QED
  BY <1>4 DEF StockInv, S!TypeOK, LoopsFit, StreamFits

LEMMA AgainIs ==
  ASSUME loop \in [Loops -> S!LoopType], NEW l \in Loops, loop[l].at # "idle"
  PROVE  /\ S!Again(l) \in [Loops -> S!LoopType]
         /\ loop[l].ours => S!Again(l)[l].ours /\ S!Again(l)[l].at = "timer"
         /\ ~loop[l].ours => S!Again(l)[l].at = "idle"
         /\ \A k \in Loops : k # l => /\ S!Again(l)[k].at = loop[k].at
                                      /\ S!Again(l)[k].ours = loop[k].ours
<1>1. CASE loop[l].ours
  BY <1>1, WithIs DEF S!Again
<1>2. CASE ~loop[l].ours
  <2>1. S!Again(l) = [loop EXCEPT ![l] = S!Idle]
    BY <1>2 DEF S!Again
  <2> QED
    BY <1>2, <2>1, IdleIs
<1> QED
  BY <1>1, <1>2

LEMMA LoopStep ==
  ASSUME StockInv, NEW l \in Loops, S!Tick(l) \/ S!Answer(l) \/ S!Done(l)
  PROVE  StockInv'
<1>1. /\ UNCHANGED <<open, stream, connected, allowed, grace, running, over, doubled, hidden>>
      /\ loop[l].at # "idle" /\ tagged' \in BOOLEAN
  BY DEF S!Tick, S!Answer, S!Done, S!stateVars, StockInv, S!TypeOK
<1>2. loop \in [Loops -> S!LoopType] /\ loop[l] \in S!LoopType
  BY DEF StockInv, S!TypeOK
<1>3. CASE S!Tick(l)
  <2>1. CASE loop[l].ours
    <3>1. PICK at \in {"timer", "asked"} : loop' = S!With(loop, l, at)
      BY <1>3, <2>1 DEF S!Tick, S!Ticked
    <3>2. /\ loop' \in [Loops -> S!LoopType] /\ loop'[l].at = at /\ loop'[l].ours
          /\ \A k \in Loops : k # l => loop'[k].at = loop[k].at /\ loop'[k].ours = loop[k].ours
      BY <1>2, <3>1, WithIs
    <3> QED
      BY <1>1, <2>1, <3>2, LoopGoesOn
  <2>2. CASE ~loop[l].ours
    <3>1. loop' = [loop EXCEPT ![l] = S!Idle]
      BY <1>3, <2>2 DEF S!Tick
    <3>2. /\ loop' \in [Loops -> S!LoopType] /\ loop'[l].at = "idle"
          /\ \A k \in Loops : k # l => loop'[k].at = loop[k].at /\ loop'[k].ours = loop[k].ours
      BY <1>2, <3>1, IdleIs
    <3> QED
      BY <1>1, <2>2, <3>2, LoopGoesOn
  <2> QED
    BY <2>1, <2>2
<1>4. CASE S!Answer(l)
  <2>1. PICK x \in S!LoopType : x = [loop[l] EXCEPT !.at = "body"]
    <3>1. [loop[l] EXCEPT !.at = "body"] \in S!LoopType
      BY <1>2 DEF S!LoopType
    <3> QED
      BY <3>1
  <2>2. x.at = "body" /\ x.ours = loop[l].ours
    BY <1>2, <2>1 DEF S!LoopType
  <2>3. loop' = [loop EXCEPT ![l] = x]
    BY <1>2, <1>4, <2>1 DEF S!Answer
  <2>4. /\ loop' \in [Loops -> S!LoopType] /\ loop'[l] = x
        /\ \A k \in Loops : k # l => loop'[k].at = loop[k].at /\ loop'[k].ours = loop[k].ours
    BY <1>2, <2>3
  <2> QED
    BY <1>1, <2>2, <2>4, LoopGoesOn
<1>5. CASE S!Done(l)
  <2>1. loop' = S!Again(l)
    BY <1>5 DEF S!Done
  <2>2. /\ loop' \in [Loops -> S!LoopType]
        /\ loop[l].ours => loop'[l].ours /\ loop'[l].at = "timer"
        /\ ~loop[l].ours => loop'[l].at = "idle"
        /\ \A k \in Loops : k # l => loop'[k].at = loop[k].at /\ loop'[k].ours = loop[k].ours
    BY <1>1, <1>2, <2>1, AgainIs
  <2> QED
    BY <1>1, <2>2, LoopGoesOn
<1> QED
  BY <1>3, <1>4, <1>5

LEMMA NotModifiedStep ==
  ASSUME StockInv, NEW l \in Loops, S!NotModified(l)
  PROVE  StockInv'
<1>1. /\ UNCHANGED <<open, stream, connected, allowed, grace, running, over, tagged, hidden>>
      /\ loop[l].at = "asked" /\ tagged \in BOOLEAN
  BY DEF S!NotModified, S!stateVars, StockInv, S!TypeOK
<1>2. loop \in [Loops -> S!LoopType] /\ loop[l] \in S!LoopType
  BY DEF StockInv, S!TypeOK
<1>3. PICK ls \in [Loops -> S!LoopType] :
        /\ ls = S!Again(l)
        /\ loop[l].ours => ls[l].ours /\ ls[l].at = "timer"
        /\ ~loop[l].ours => ls[l].at = "idle"
        /\ \A k \in Loops : k # l => ls[k].at = loop[k].at /\ ls[k].ours = loop[k].ours
  BY <1>1, <1>2, AgainIs
<1>4. CASE ~loop[l].ours
  <2>1. loop' = ls /\ doubled' = doubled
    BY <1>3, <1>4 DEF S!NotModified
  <2> QED
    BY <1>1, <1>3, <1>4, <2>1, LoopGoesOn
<1>5. CASE loop[l].ours
  <2>1. /\ doubled' = TRUE
        /\ \E new \in Loops : loop[new].at = "idle" /\ loop' = S!With(ls, new, "timer")
    BY <1>3, <1>5 DEF S!NotModified, S!Free
  <2>2. PICK new \in Loops : loop[new].at = "idle" /\ loop' = S!With(ls, new, "timer")
    BY <2>1
  <2>3. /\ loop' \in [Loops -> S!LoopType] /\ loop'[new].at = "timer" /\ loop'[new].ours
        /\ \A k \in Loops : k # new => loop'[k].at = ls[k].at /\ loop'[k].ours = ls[k].ours
    BY <2>2, WithIs
  <2>4. l \in S!Live
    BY <1>1, <1>5, LiveIs
  <2>5. S!Live' # {}
    BY <2>3 DEF S!Live
  <2> QED
    BY <1>1, <2>1, <2>3, <2>4, <2>5 DEF StockInv, S!TypeOK, LoopsFit, StreamFits
<1> QED
  BY <1>4, <1>5

LEMMA GoneStep ==
  ASSUME StockInv, NEW l \in Loops, S!Gone(l)
  PROVE  StockInv'
<1>1. /\ UNCHANGED <<open, stream, connected, allowed, grace, running, tagged, doubled, hidden>>
      /\ loop[l].at = "asked" /\ over' = (over \/ loop[l].ours)
  BY DEF S!Gone, S!stateVars
<1>2. loop \in [Loops -> S!LoopType] /\ loop[l].ours \in BOOLEAN /\ over \in BOOLEAN
  BY LoopIs DEF StockInv, S!TypeOK
<1>3. CASE ~loop[l].ours
  <2>1. loop' = [loop EXCEPT ![l] = S!Idle]
    BY <1>3 DEF S!Gone
  <2>2. /\ loop' \in [Loops -> S!LoopType] /\ loop'[l].at = "idle"
        /\ \A k \in Loops : k # l => loop'[k].at = loop[k].at /\ loop'[k].ours = loop[k].ours
    BY <1>2, <2>1, IdleIs
  <2>3. over' = over /\ tagged' \in BOOLEAN
    BY <1>1, <1>2, <1>3 DEF StockInv, S!TypeOK
  <2> QED
    BY <1>1, <1>3, <2>2, <2>3, LoopGoesOn
<1>4. CASE loop[l].ours
  <2>1. loop' = [k \in Loops |-> IF k = l THEN S!Idle ELSE [loop[k] EXCEPT !.ours = FALSE]]
    BY <1>4 DEF S!Gone
  <2>2. ASSUME NEW k \in Loops PROVE loop'[k] \in S!LoopType /\ ~loop'[k].ours
    <3>1. loop[k] \in S!LoopType
      BY <1>2
    <3>2. [loop[k] EXCEPT !.ours = FALSE] \in S!LoopType /\ ~[loop[k] EXCEPT !.ours = FALSE].ours
      BY <3>1 DEF S!LoopType
    <3> QED
      BY <2>1, <3>2, IdleIs
  <2>3. loop' \in [Loops -> S!LoopType]
    <3>1. loop' = [k \in Loops |-> loop'[k]]
      BY <2>1
    <3> QED
      BY <2>2, <3>1
  <2>4. S!Live' = {}
    BY <2>2 DEF S!Live
  <2>5. over' = TRUE
    BY <1>1, <1>4
  <2> QED
    BY <1>1, <2>3, <2>4, <2>5 DEF StockInv, S!TypeOK, LoopsFit, StreamFits
<1> QED
  BY <1>3, <1>4

LEMMA ReopenStep ==
  ASSUME StockInv, S!Reopen
  PROVE  StockInv'
<1>1. \A l \in Loops : loop'[l] = S!Idle
  BY DEF S!Reopen, S!NoLoops
<1>2. S!Live' = {}
  BY <1>1, IdleIs DEF S!Live
<1>3. S!TypeOK'
  BY IdleIs DEF S!Reopen, S!NoLoops, StockInv, S!TypeOK
<1> QED
  BY <1>2, <1>3 DEF S!Reopen, StockInv, LoopsFit, StreamFits

LEMMA StockKept == StockInv /\ [S!Next]_sVars => StockInv'
<1>1. ASSUME StockInv, UNCHANGED sVars PROVE StockInv'
  BY <1>1 DEF sVars, StockInv, S!TypeOK, LoopsFit, StreamFits, S!Live
<1> QED
  BY <1>1, StreamStep, RenderStep, LoopStep, NotModifiedStep, GoneStep, ReopenStep DEF S!Next

LEMMA StockAlways == Spec => []StockInv
<1>1. Init => StockInv
  BY StockStarts DEF Init
<1>2. StockInv /\ [Next]_vars => StockInv'
  <2>1. [Next]_vars => [S!Next]_sVars
    BY DEF Next, vars
  <2> QED
    BY <2>1, StockKept
<1> QED
  BY <1>1, <1>2, PTL DEF Spec

\* A page has one source of the stock and one only, for every number of polling
\* loops, whatever order their timers and answers and the stream's updates and
\* failures come in (AvailabilityClient.tsx:103, use-availability-polling.ts:118).
THEOREM StockHasOneSource == Spec => []OneSource
<1>1. StockInv => OneSource
  <2> SUFFICES ASSUME StockInv, open, running = S!Enabled
               PROVE  IF S!Enabled
                        THEN IF over THEN S!Live = {}
                             ELSE S!Live # {} /\ (Cardinality(S!Live) = 1 \/ doubled)
                        ELSE S!Live = {} /\ (IF connected THEN stream = "open" ELSE grace)
    BY DEF OneSource, S!OneSource, S!Cardinality, Cardinality
  <2>1. CASE S!Enabled /\ ~over
    <3>1. S!Live # {}
      BY <2>1 DEF StockInv, LoopsFit
    <3>2. ~doubled => Cardinality(S!Live) = 1
      <4>1. PICK l : l \in S!Live
        BY <3>1
      <4>2. ~doubled => S!Live = {l}
        BY <4>1 DEF StockInv, LoopsFit
      <4> QED
        BY <4>2, FS_Singleton
    <3> QED
      BY <2>1, <3>1, <3>2
  <2>2. CASE S!Enabled /\ over
    BY <2>2 DEF StockInv, LoopsFit
  <2>3. CASE ~S!Enabled
    BY <2>3 DEF StockInv, LoopsFit, StreamFits, S!Enabled
  <2> QED
    BY <2>1, <2>2, <2>3
<1> QED
  BY <1>1, StockAlways, PTL

-----------------------------------------------------------------------------
(***************************************************************************)
(* A finite set as a sequence: each of its elements once.                  *)
(***************************************************************************)
LEMMA SetAsSequence ==
  ASSUME NEW set, IsFiniteSet(set)
  PROVE  /\ SetToSeq(set) \in Seq(set)
         /\ Len(SetToSeq(set)) = Cardinality(set)
         /\ \A i, k \in 1..Len(SetToSeq(set)) : SetToSeq(set)[i] = SetToSeq(set)[k] => i = k
         /\ \A x \in set : \E i \in 1..Len(SetToSeq(set)) : SetToSeq(set)[i] = x
<1> DEFINE n == Cardinality(set)
           list == SetToSeq(set)
<1>1. n \in Nat /\ ExistsBijection(1..n, set)
  BY FS_CardinalityType
<1>2. \E f \in [1..n -> set] : IsInjective(f)
  BY <1>1 DEF ExistsBijection, Bijection, Injection, IsInjective
<1>3. list \in [1..n -> set] /\ IsInjective(list)
  BY <1>2 DEF SetToSeq
<1> HIDE DEF list
<1>4. list \in Seq(set) /\ Len(list) = n
  BY <1>1, <1>3
<1>5. list \in Injection(1..n, set)
  BY <1>3 DEF Injection, IsInjective
<1>6. IsFiniteSet(1..n) /\ Cardinality(1..n) = n
  BY <1>1, FS_Interval
<1>7. list \in Surjection(1..n, set)
  BY <1>5, <1>6, FS_Injection
<1>8. \A x \in set : \E i \in 1..n : list[i] = x
  BY <1>7 DEF Surjection
<1>9. \A i, k \in 1..n : list[i] = list[k] => i = k
  BY <1>5 DEF Injection, IsInjective
<1> QED
  BY <1>4, <1>8, <1>9 DEF list

-----------------------------------------------------------------------------
(***************************************************************************)
(* The life of an event.  A published event without its stock has a        *)
(* request that is about to seed it, or a reason; an entry that is out of  *)
(* date has a request that has still to delete it by its name, or a        *)
(* reason.  The list is not deleted by an update.                          *)
(***************************************************************************)
LifeSteps == L!C!Steps \cup {"seed", "detail", "list", "byID"}
LifeRequests == [at : LifeSteps, keys : Seq(L!Keys), i : {0, Chunk}]

LifeFits ==
  /\ wired \in BOOLEAN /\ status \in L!Statuses /\ seeded \in BOOLEAN
  /\ op \in [Calls -> {"none", "update", "publish", "cancel"}]
  /\ past \in [unseeded : BOOLEAN, moved : BOOLEAN, updated : BOOLEAN]
  /\ cache \in [L!Keys -> {"none", "fresh", "stale", "late"}]
  /\ fill \in [L!Keys -> {"none", "fresh", "stale"}]
  /\ tag \in SUBSET L!Keys
  /\ req \in [Calls -> LifeRequests]
  /\ lapse \in [failed : BOOLEAN, window : SUBSET L!Keys]

SeedIsPending ==
  status = "published" /\ ~seeded /\ ~past.unseeded /\ ~past.moved =>
    \E r \in Calls : req[r].at = "seed"

\* Whether a request has still to delete an entry by its name.
Before(r) == req[r].at \in {"seed", "members", "chunk", "untag"}
WillDelete(r, k) ==
  CASE k = "detail" -> Before(r) \/ req[r].at = "detail"
    [] k = "list" -> op[r] # "update" /\ (Before(r) \/ req[r].at \in {"detail", "list"})
    [] k = "byID" -> req[r].at # "idle"

DeletionIsPending ==
  ~lapse.failed =>
    \A k \in L!Keys : cache[k] = "stale" =>
      (k = "list" /\ past.updated) \/ \E r \in Calls : WillDelete(r, k)

LifeInv == LifeFits /\ SeedIsPending /\ DeletionIsPending

LEMMA LifeRequestIs ==
  ASSUME NEW q \in LifeRequests
  PROVE  q.at \in LifeSteps /\ q.keys \in Seq(L!Keys) /\ q.i \in {0, Chunk}
BY DEF LifeRequests

\* A request goes on at a step, or starts one afresh.
LEMMA LifeGoesTo ==
  ASSUME NEW old \in [Calls -> LifeRequests], NEW r \in Calls, NEW step \in LifeSteps
  PROVE  /\ [old EXCEPT ![r].at = step] \in [Calls -> LifeRequests]
         /\ [old EXCEPT ![r].at = step][r].at = step
         /\ \A q \in Calls : q # r => [old EXCEPT ![r].at = step][q] = old[q]
<1>1. PICK new \in LifeRequests : new = [old[r] EXCEPT !.at = step] /\ new.at = step
  <2>1. [old[r] EXCEPT !.at = step] \in LifeRequests /\ [old[r] EXCEPT !.at = step].at = step
    BY DEF LifeRequests
  <2> QED
    BY <2>1
<1>2. [old EXCEPT ![r].at = step] = [old EXCEPT ![r] = new]
  BY <1>1
<1> QED
  BY <1>1, <1>2

LEMMA LifeStartsAt ==
  ASSUME NEW old \in [Calls -> LifeRequests], NEW r \in Calls, NEW step \in LifeSteps
  PROVE  /\ L!C!Nothing \in LifeRequests /\ L!C!Nothing.at = "idle"
         /\ [old EXCEPT ![r] = [L!C!Nothing EXCEPT !.at = step]] \in [Calls -> LifeRequests]
         /\ [old EXCEPT ![r] = [L!C!Nothing EXCEPT !.at = step]][r].at = step
<1>1. L!C!Nothing \in LifeRequests /\ L!C!Nothing.at = "idle"
  BY DEF L!C!Nothing, LifeRequests, LifeSteps, L!C!Steps
<1>2. PICK new \in LifeRequests : new = [L!C!Nothing EXCEPT !.at = step] /\ new.at = step
  <2>1. /\ [L!C!Nothing EXCEPT !.at = step] \in LifeRequests
        /\ [L!C!Nothing EXCEPT !.at = step].at = step
    BY <1>1 DEF LifeRequests
  <2> QED
    BY <2>1
<1> QED
  BY <1>1, <1>2

\* A failed deletion is remembered; everything else of the invariant about the
\* entries is then over.
LEMMA LifeFailed ==
  ASSUME LifeFits, L!C!Fail
  PROVE  lapse' \in [failed : BOOLEAN, window : SUBSET L!Keys] /\ lapse'.failed
BY DEF LifeFits, L!C!Fail

LEMMA LifeStarts == L!Init => LifeInv
<1> SUFFICES ASSUME L!Init PROVE LifeInv
  OBVIOUS
<1>1. L!C!Nothing \in LifeRequests /\ L!C!Nothing.at = "idle"
  BY DEF L!C!Nothing, LifeRequests, LifeSteps, L!C!Steps
<1>2. LifeFits
  <2>1. req \in [Calls -> LifeRequests]
    BY <1>1 DEF L!Init, L!C!Init
  <2>2. past \in [unseeded : BOOLEAN, moved : BOOLEAN, updated : BOOLEAN]
    BY DEF L!Init
  <2>3. lapse \in [failed : BOOLEAN, window : SUBSET L!Keys]
    BY DEF L!Init, L!C!Init
  <2> QED
    BY <2>1, <2>2, <2>3 DEF L!Init, L!C!Init, LifeFits, L!Statuses
<1>3. SeedIsPending /\ DeletionIsPending
  BY DEF L!Init, L!C!Init, SeedIsPending, DeletionIsPending
<1> QED
  BY <1>2, <1>3 DEF LifeInv

LEMMA CommitIs ==
  ASSUME LifeFits, NEW r \in Calls, NEW what \in {"update", "publish", "cancel"},
         NEW s \in L!Statuses, NEW to \in {"members", "seed"}, L!Commit(r, what, s, to),
         past' \in [unseeded : BOOLEAN, moved : BOOLEAN, updated : BOOLEAN]
  PROVE  /\ LifeFits'
         /\ UNCHANGED <<seeded, lapse>> /\ status' = s /\ op'[r] = what
         /\ req[r].at = "idle" /\ req'[r].at = to
         /\ \A q \in Calls : q # r => req'[q] = req[q]
<1>1. /\ req' = [req EXCEPT ![r].at = to] /\ req[r].at = "idle"
      /\ op' = [op EXCEPT ![r] = what] /\ UNCHANGED <<wired, seeded, tag, lapse>>
      /\ status' = s
      /\ cache' = [k \in L!Keys |-> L!C!Aged(cache[k])]
      /\ fill' = [k \in L!Keys |-> L!C!Aged(fill[k])]
  BY DEF L!Commit, L!C!Outdate, L!C!GoTo, L!At, L!C!At
<1>2. to \in LifeSteps
  BY DEF LifeSteps, L!C!Steps
<1>3. /\ req' \in [Calls -> LifeRequests] /\ req'[r].at = to
      /\ \A q \in Calls : q # r => req'[q] = req[q]
  BY <1>1, <1>2, LifeGoesTo DEF LifeFits
<1>4. /\ cache' \in [L!Keys -> {"none", "fresh", "stale", "late"}]
      /\ fill' \in [L!Keys -> {"none", "fresh", "stale"}]
  BY <1>1 DEF LifeFits, L!C!Aged
<1>5. op' \in [Calls -> {"none", "update", "publish", "cancel"}] /\ op'[r] = what
  BY <1>1 DEF LifeFits
<1>6. LifeFits'
  BY <1>1, <1>3, <1>4, <1>5 DEF LifeFits
<1> QED
  BY <1>1, <1>3, <1>5, <1>6

\* What a request does changes nothing of the stock's seeding unless it seeds.
LEMMA UpdateStep ==
  ASSUME LifeInv, NEW r \in Calls, L!Update(r)
  PROVE  LifeInv'
<1>1. PICK s \in L!Statuses :
        /\ L!Commit(r, "update", s, "members")
        /\ past' = [past EXCEPT !.updated = TRUE, !.moved = @ \/ s # status]
  BY DEF L!Update
<1>2. /\ past' \in [unseeded : BOOLEAN, moved : BOOLEAN, updated : BOOLEAN]
      /\ past'.updated /\ past'.unseeded = past.unseeded
      /\ past'.moved = (past.moved \/ s # status)
  BY <1>1 DEF LifeInv, LifeFits
<1>3. /\ LifeFits' /\ UNCHANGED <<seeded, lapse>> /\ status' = s /\ op'[r] = "update"
      /\ req[r].at = "idle" /\ req'[r].at = "members"
      /\ \A q \in Calls : q # r => req'[q] = req[q]
  BY <1>1, <1>2, CommitIs DEF LifeInv
<1>4. SeedIsPending'
  BY <1>2, <1>3 DEF LifeInv, SeedIsPending
<1>5. DeletionIsPending'
  BY <1>2, <1>3 DEF DeletionIsPending, WillDelete, Before, L!Keys
<1> QED
  BY <1>3, <1>4, <1>5 DEF LifeInv

LEMMA PublishStep ==
  ASSUME LifeInv, NEW r \in Calls, L!Publish(r)
  PROVE  LifeInv'
<1>1. L!Commit(r, "publish", "published", "seed") /\ past' = past
  BY DEF L!Publish
<1>2. past' \in [unseeded : BOOLEAN, moved : BOOLEAN, updated : BOOLEAN]
  BY <1>1 DEF LifeInv, LifeFits
<1>3. "published" \in L!Statuses
  BY DEF L!Statuses
<1>4. LifeFits' /\ op'[r] = "publish" /\ req'[r].at = "seed"
  BY <1>1, <1>2, <1>3, CommitIs DEF LifeInv
<1>5. SeedIsPending'
  BY <1>4 DEF SeedIsPending
<1>6. DeletionIsPending'
  BY <1>4 DEF DeletionIsPending, WillDelete, Before, L!Keys
<1> QED
  BY <1>4, <1>5, <1>6 DEF LifeInv

LEMMA SeedStep ==
  ASSUME LifeInv, NEW r \in Calls, L!Seed(r)
  PROVE  LifeInv'
<1>1. req[r].at = "seed" /\ UNCHANGED <<wired, status, cache, fill, tag>>
  BY DEF L!Seed, L!At, L!C!At, L!cacheVars
<1>2. CASE /\ wired /\ seeded' = TRUE /\ req' = [req EXCEPT ![r].at = "members"]
           /\ UNCHANGED <<op, past, lapse>>
  <2>1. "members" \in LifeSteps
    BY DEF LifeSteps, L!C!Steps
  <2>2. /\ req' \in [Calls -> LifeRequests] /\ req'[r].at = "members"
        /\ \A q \in Calls : q # r => req'[q] = req[q]
    BY <1>2, <2>1, LifeGoesTo DEF LifeInv, LifeFits
  <2>3. LifeFits'
    BY <1>1, <1>2, <2>2 DEF LifeInv, LifeFits
  <2>4. SeedIsPending'
    BY <1>2 DEF SeedIsPending
  <2>5. DeletionIsPending'
    <3>1. \A k \in L!Keys : \A q \in Calls : WillDelete(q, k) => WillDelete(q, k)'
      BY ZenonT(60), <1>1, <1>2, <2>2 DEF WillDelete, Before, L!Keys
    <3> QED
      BY <1>1, <1>2, <3>1 DEF LifeInv, DeletionIsPending
  <2> QED
    BY <2>3, <2>4, <2>5 DEF LifeInv
<1>3. CASE /\ req' = [req EXCEPT ![r] = L!C!Nothing] /\ L!C!Fail
           /\ op' = [op EXCEPT ![r] = "none"]
           /\ past' = [past EXCEPT !.unseeded = TRUE] /\ UNCHANGED seeded
  <2>1. req' \in [Calls -> LifeRequests]
    <3>1. L!C!Nothing \in LifeRequests
      BY DEF L!C!Nothing, LifeRequests, LifeSteps, L!C!Steps
    <3> QED
      BY <1>3, <3>1 DEF LifeInv, LifeFits
  <2>2. /\ past' \in [unseeded : BOOLEAN, moved : BOOLEAN, updated : BOOLEAN]
        /\ past'.unseeded
    BY <1>3 DEF LifeInv, LifeFits
  <2>3. lapse' \in [failed : BOOLEAN, window : SUBSET L!Keys] /\ lapse'.failed
    BY <1>3, LifeFailed DEF LifeInv
  <2>4. LifeFits'
    BY <1>1, <1>3, <2>1, <2>2, <2>3 DEF LifeInv, LifeFits
  <2> QED
    BY <2>2, <2>3, <2>4 DEF LifeInv, SeedIsPending, DeletionIsPending
<1> QED
  BY <1>2, <1>3 DEF L!Seed, L!C!GoTo, L!C!End

LEMMA CancelStep ==
  ASSUME LifeInv, NEW r \in Calls, L!Cancel(r)
  PROVE  LifeInv'
<1>1. past' = past
  BY DEF L!Cancel
<1>2. CASE status = "cancelled"
  <2>1. /\ req[r].at = "idle" /\ req' = [req EXCEPT ![r].at = "members"]
        /\ op' = [op EXCEPT ![r] = "cancel"]
        /\ UNCHANGED <<wired, status, seeded, cache, fill, tag, lapse>>
    BY <1>2 DEF L!Cancel, L!At, L!C!At, L!C!GoTo, L!cacheVars
  <2>2. "members" \in LifeSteps
    BY DEF LifeSteps, L!C!Steps
  <2>3. /\ req' \in [Calls -> LifeRequests] /\ req'[r].at = "members"
        /\ \A q \in Calls : q # r => req'[q] = req[q]
    BY <2>1, <2>2, LifeGoesTo DEF LifeInv, LifeFits
  <2>4. LifeFits'
    BY <1>1, <2>1, <2>3 DEF LifeInv, LifeFits
  <2>5. SeedIsPending'
    BY <1>2, <2>1 DEF SeedIsPending
  <2>6. DeletionIsPending'
    <3>1. \A q \in Calls : q # r => op'[q] = op[q]
      BY <2>1 DEF LifeInv, LifeFits
    <3>2. \A k \in L!Keys : \A q \in Calls : WillDelete(q, k) => WillDelete(q, k)'
      BY ZenonT(60), <2>1, <2>3, <3>1 DEF WillDelete, Before, L!Keys
    <3> QED
      BY <1>1, <2>1, <3>2 DEF LifeInv, DeletionIsPending
  <2> QED
    BY <2>4, <2>5, <2>6 DEF LifeInv
<1>3. CASE status # "cancelled"
  <2>1. L!Commit(r, "cancel", "cancelled", "members")
    BY <1>3 DEF L!Cancel
  <2>2. past' \in [unseeded : BOOLEAN, moved : BOOLEAN, updated : BOOLEAN]
    BY <1>1 DEF LifeInv, LifeFits
  <2>3. "cancelled" \in L!Statuses
    BY DEF L!Statuses
  <2>4. LifeFits' /\ op'[r] = "cancel" /\ req'[r].at = "members" /\ status' = "cancelled"
    BY <2>1, <2>2, <2>3, CommitIs DEF LifeInv
  <2>5. SeedIsPending'
    BY <2>4 DEF SeedIsPending
  <2>6. DeletionIsPending'
    BY <2>4 DEF DeletionIsPending, WillDelete, Before, L!Keys
  <2> QED
    BY <2>4, <2>5, <2>6 DEF LifeInv
<1> QED
  BY <1>2, <1>3

\* A step of a request that takes it on, after which it deletes what it had
\* still to delete and is in the cache.
LEMMA LifeGoesOn ==
  ASSUME LifeInv, NEW r \in Calls, LifeFits',
         req[r].at # "seed" \/ req'[r].at = "seed" \/ past'.unseeded,
         \A q \in Calls : q # r => req'[q] = req[q] /\ op'[q] = op[q],
         UNCHANGED <<status, seeded>>, past.unseeded => past'.unseeded,
         past'.moved = past.moved, past'.updated = past.updated,
         \/ lapse'.failed
         \/ /\ lapse' = lapse
            /\ \A k \in L!Keys : cache'[k] = "stale" =>
                 cache[k] = "stale" /\ (WillDelete(r, k) => WillDelete(r, k)')
  PROVE  LifeInv'
<1>1. SeedIsPending'
  BY DEF LifeInv, SeedIsPending
<1>2. \A k \in L!Keys : \A q \in Calls : q # r => WillDelete(q, k)' = WillDelete(q, k)
  BY DEF WillDelete, Before, L!Keys
<1>3. DeletionIsPending'
  BY <1>2 DEF LifeInv, DeletionIsPending
<1> QED
  BY <1>1, <1>3 DEF LifeInv

LEMMA InvalidateTagStep ==
  ASSUME LifeInv, NEW r \in Calls, L!InvalidateTag(r)
  PROVE  LifeInv'
<1>1. UNCHANGED <<wired, status, seeded, past, op>>
  BY DEF L!InvalidateTag, L!eventVars
<1>2. /\ req \in [Calls -> LifeRequests] /\ req[r] \in LifeRequests
      /\ cache \in [L!Keys -> {"none", "fresh", "stale", "late"}] /\ tag \in SUBSET L!Keys
  BY DEF LifeInv, LifeFits
<1>3. "detail" \in LifeSteps /\ "untag" \in LifeSteps /\ "chunk" \in LifeSteps
  BY DEF LifeSteps, L!C!Steps
<1>4. CASE L!C!Members(r, "detail")
  <2>1. /\ req[r].at = "members" /\ UNCHANGED <<cache, fill, tag, lapse>>
        /\ req' = [req EXCEPT ![r].keys = L!C!SetToSeq(tag),
                              ![r].at = IF tag = {} THEN "detail" ELSE "chunk"]
    BY <1>4 DEF L!C!Members, L!C!At, L!C!cacheVars
  <2>2. PICK list \in Seq(L!Keys), to \in {"detail", "chunk"} :
          list = L!C!SetToSeq(tag) /\ to = IF tag = {} THEN "detail" ELSE "chunk"
    <3>1. IsFiniteSet(L!Keys)
      <4>1. IsFiniteSet({"detail"})
        BY FS_Singleton
      <4>2. IsFiniteSet({"detail"} \cup {"byID"})
        BY <4>1, FS_AddElement
      <4>3. IsFiniteSet(({"detail"} \cup {"byID"}) \cup {"list"})
        BY <4>2, FS_AddElement
      <4>4. L!Keys = ({"detail"} \cup {"byID"}) \cup {"list"}
        BY DEF L!Keys
      <4> QED
        BY <4>3, <4>4
    <3>2. IsFiniteSet(tag)
      BY <1>2, <3>1, FS_Subset
    <3>3. SetToSeq(tag) \in Seq(L!Keys)
      BY <1>2, <3>2, SetAsSequence, SeqMonotonic
    <3>4. L!C!SetToSeq(tag) = SetToSeq(tag)
      BY DEF L!C!SetToSeq, SetToSeq, L!C!Cardinality, Cardinality, L!C!IsInjective, IsInjective
    <3> QED
      BY <3>3, <3>4
  <2>3. PICK new \in LifeRequests :
          new = [[req[r] EXCEPT !.keys = list] EXCEPT !.at = to] /\ new.at = to
    <3>1. [[req[r] EXCEPT !.keys = list] EXCEPT !.at = to] \in LifeRequests
      BY <1>2, <1>3 DEF LifeRequests
    <3>2. [[req[r] EXCEPT !.keys = list] EXCEPT !.at = to].at = to
      BY <1>2 DEF LifeRequests
    <3> QED
      BY <3>1, <3>2
  <2>4. req' = [req EXCEPT ![r] = new]
    BY <1>2, <2>1, <2>2, <2>3
  <2>5. /\ req' \in [Calls -> LifeRequests] /\ req'[r].at \in {"detail", "chunk"}
        /\ \A q \in Calls : q # r => req'[q] = req[q]
    BY <1>2, <2>3, <2>4
  <2>6. LifeFits'
    BY <1>1, <2>1, <2>5 DEF LifeInv, LifeFits
  <2>7. \A k \in L!Keys : WillDelete(r, k) => WillDelete(r, k)'
    BY <1>1, <2>1, <2>5 DEF WillDelete, Before, L!Keys
  <2> QED
    BY <1>1, <2>1, <2>5, <2>6, <2>7, LifeGoesOn
<1>5. CASE L!C!DeleteChunk(r)
  <2>1. req[r].at = "chunk" /\ UNCHANGED <<fill, tag, lapse>>
    BY <1>5 DEF L!C!DeleteChunk, L!C!At
  <2>2. CASE L!C!More(r)
    <3>1. req' = [req EXCEPT ![r].i = Chunk] /\ L!C!Delete(L!C!Batch(r))
      BY <1>5, <2>2 DEF L!C!DeleteChunk
    <3>2. PICK gone : L!C!Delete(gone)
      BY <3>1
    <3>3. /\ cache' \in [L!Keys -> {"none", "fresh", "stale", "late"}]
          /\ \A k \in L!Keys : cache'[k] = "stale" => cache[k] = "stale"
      BY <1>2, <3>2 DEF L!C!Delete
    <3>4. PICK new \in LifeRequests : new = [req[r] EXCEPT !.i = Chunk] /\ new.at = "chunk"
      <4>1. [req[r] EXCEPT !.i = Chunk] \in LifeRequests /\ [req[r] EXCEPT !.i = Chunk].at = "chunk"
        BY <1>2, <2>1 DEF LifeRequests
      <4> QED
        BY <4>1
    <3>5. /\ req' \in [Calls -> LifeRequests] /\ req'[r].at = "chunk"
          /\ \A q \in Calls : q # r => req'[q] = req[q]
      BY <1>2, <3>1, <3>4
    <3>6. LifeFits'
      BY <1>1, <2>1, <3>3, <3>5 DEF LifeInv, LifeFits
    <3>7. \A k \in L!Keys : WillDelete(r, k) => WillDelete(r, k)'
      BY <1>1, <2>1, <3>5 DEF WillDelete, Before, L!Keys
    <3> QED
      BY <1>1, <2>1, <3>3, <3>5, <3>6, <3>7, LifeGoesOn
  <2>3. CASE ~L!C!More(r)
    <3>1. req' = [req EXCEPT ![r].at = "untag"] /\ cache' = cache
      BY <1>5, <2>3 DEF L!C!DeleteChunk, L!C!GoTo
    <3>2. /\ req' \in [Calls -> LifeRequests] /\ req'[r].at = "untag"
          /\ \A q \in Calls : q # r => req'[q] = req[q]
      BY <1>2, <1>3, <3>1, LifeGoesTo
    <3>3. LifeFits'
      BY <1>1, <2>1, <3>1, <3>2 DEF LifeInv, LifeFits
    <3>4. \A k \in L!Keys : WillDelete(r, k) => WillDelete(r, k)'
      BY <1>1, <2>1, <3>2 DEF WillDelete, Before, L!Keys
    <3> QED
      BY <1>1, <2>1, <3>1, <3>2, <3>3, <3>4, LifeGoesOn
  <2> QED
    BY <2>2, <2>3
<1>6. CASE L!C!DropTag(r, "detail") \/ L!C!GiveUp(r, "detail")
  <2>1. /\ req[r].at \in {"members", "chunk", "untag"} /\ UNCHANGED <<cache, fill>>
        /\ req' = [req EXCEPT ![r] = [L!C!Nothing EXCEPT !.at = "detail"]]
        /\ tag' \in SUBSET L!Keys
        /\ lapse' = lapse \/ L!C!Fail
    BY <1>2, <1>6 DEF L!C!DropTag, L!C!GiveUp, L!C!At, L!C!cacheVars
  <2>2. /\ req' \in [Calls -> LifeRequests] /\ req'[r].at = "detail"
        /\ \A q \in Calls : q # r => req'[q] = req[q]
    BY <1>2, <1>3, <2>1, LifeStartsAt
  <2>3. /\ lapse' \in [failed : BOOLEAN, window : SUBSET L!Keys]
        /\ lapse' = lapse \/ lapse'.failed
    BY <2>1, LifeFailed DEF LifeInv, LifeFits
  <2>4. LifeFits'
    BY <1>1, <2>1, <2>2, <2>3 DEF LifeInv, LifeFits
  <2>5. \A k \in L!Keys : WillDelete(r, k) => WillDelete(r, k)'
    BY <1>1, <2>1, <2>2 DEF WillDelete, Before, L!Keys
  <2> QED
    BY <1>1, <2>1, <2>2, <2>3, <2>4, <2>5, LifeGoesOn
<1> QED
  BY <1>4, <1>5, <1>6 DEF L!InvalidateTag

LEMMA DropKeyIs ==
  ASSUME LifeFits, NEW k \in L!Keys, L!DropKey(k)
  PROVE  /\ cache' \in [L!Keys -> {"none", "fresh", "stale", "late"}]
         /\ \A j \in L!Keys : cache'[j] = "stale" => cache[j] = "stale"
         /\ lapse' \in [failed : BOOLEAN, window : SUBSET L!Keys]
         /\ lapse'.failed \/ (lapse' = lapse /\ cache'[k] = "none")
<1>1. CASE L!C!Delete({k}) /\ UNCHANGED lapse
  BY <1>1 DEF L!C!Delete, LifeFits
<1>2. CASE L!C!Fail /\ UNCHANGED cache
  BY <1>2, LifeFailed DEF LifeFits
<1> QED
  BY <1>1, <1>2 DEF L!DropKey

LEMMA InvalidateKeyStep ==
  ASSUME LifeInv, NEW r \in Calls,
         L!InvalidateDetail(r) \/ L!InvalidateList(r) \/ L!InvalidateByID(r)
  PROVE  LifeInv'
<1>1. req \in [Calls -> LifeRequests] /\ req[r] \in LifeRequests
  BY DEF LifeInv, LifeFits
<1>2. UNCHANGED <<wired, status, seeded, past, fill, tag>>
  BY DEF L!InvalidateDetail, L!InvalidateList, L!InvalidateByID, L!eventVars
<1>3. \A q \in Calls : q # r => op'[q] = op[q]
  BY DEF L!InvalidateDetail, L!InvalidateList, L!InvalidateByID, LifeInv, LifeFits
<1>4. op' \in [Calls -> {"none", "update", "publish", "cancel"}]
  BY DEF L!InvalidateDetail, L!InvalidateList, L!InvalidateByID, LifeInv, LifeFits
<1>5. PICK k \in L!Keys :
        /\ k = req[r].at /\ L!DropKey(k)
        /\ IF k = "byID" THEN req' = [req EXCEPT ![r] = L!C!Nothing]
           ELSE /\ req' = [req EXCEPT ![r].at =
                             IF k = "detail" /\ op[r] # "update" THEN "list" ELSE "byID"]
                /\ op' = op
  <2>1. ASSUME L!InvalidateDetail(r)
        PROVE  /\ "detail" = req[r].at /\ L!DropKey("detail") /\ op' = op
               /\ req' = [req EXCEPT ![r].at = IF op[r] # "update" THEN "list" ELSE "byID"]
    BY <2>1 DEF L!InvalidateDetail, L!At, L!C!At, L!C!GoTo
  <2>2. ASSUME L!InvalidateList(r)
        PROVE  /\ "list" = req[r].at /\ L!DropKey("list") /\ op' = op
               /\ req' = [req EXCEPT ![r].at = "byID"]
    BY <2>2 DEF L!InvalidateList, L!At, L!C!At, L!C!GoTo
  <2>3. ASSUME L!InvalidateByID(r)
        PROVE  /\ "byID" = req[r].at /\ L!DropKey("byID")
               /\ req' = [req EXCEPT ![r] = L!C!Nothing]
    BY <2>3 DEF L!InvalidateByID, L!At, L!C!At, L!C!End
  <2>4. "detail" \in L!Keys /\ "list" \in L!Keys /\ "byID" \in L!Keys
    BY DEF L!Keys
  <2> QED
    BY <2>1, <2>2, <2>3, <2>4
<1>6. /\ cache' \in [L!Keys -> {"none", "fresh", "stale", "late"}]
      /\ \A j \in L!Keys : cache'[j] = "stale" => cache[j] = "stale"
      /\ lapse' \in [failed : BOOLEAN, window : SUBSET L!Keys]
      /\ lapse'.failed \/ (lapse' = lapse /\ cache'[k] = "none")
  BY <1>5, DropKeyIs DEF LifeInv
<1>7. /\ req' \in [Calls -> LifeRequests]
      /\ \A q \in Calls : q # r => req'[q] = req[q]
      /\ k = "detail" /\ op[r] # "update" => req'[r].at = "list"
      /\ k = "detail" /\ op[r] = "update" => req'[r].at = "byID"
      /\ k = "list" => req'[r].at = "byID"
  <2>1. CASE k = "byID"
    <3>1. L!C!Nothing \in LifeRequests
      BY DEF L!C!Nothing, LifeRequests, LifeSteps, L!C!Steps
    <3> QED
      BY <1>1, <1>5, <2>1, <3>1
  <2>2. CASE k # "byID"
    <3>1. PICK to \in {"list", "byID"} :
            to = IF k = "detail" /\ op[r] # "update" THEN "list" ELSE "byID"
      OBVIOUS
    <3>2. to \in LifeSteps
      BY DEF LifeSteps
    <3>3. req' = [req EXCEPT ![r].at = to]
      BY <1>5, <2>2, <3>1
    <3>4. /\ req' \in [Calls -> LifeRequests] /\ req'[r].at = to
          /\ \A q \in Calls : q # r => req'[q] = req[q]
      BY <1>1, <3>2, <3>3, LifeGoesTo
    <3> QED
      BY <2>2, <3>1, <3>4
  <2> QED
    BY <2>1, <2>2
<1>8. LifeFits'
  BY <1>2, <1>4, <1>6, <1>7 DEF LifeInv, LifeFits
<1>9. \A j \in L!Keys \ {k} : WillDelete(r, j) => WillDelete(r, j)'
  BY <1>5, <1>7 DEF WillDelete, Before, L!Keys
<1>10. req[r].at # "seed"
  BY <1>5 DEF L!Keys
<1> QED
  BY <1>2, <1>3, <1>6, <1>7, <1>8, <1>9, <1>10, LifeGoesOn

LEMMA LifeDieStep ==
  ASSUME LifeInv, NEW r \in Calls, L!Die(r)
  PROVE  LifeInv'
<1>1. /\ req' = [req EXCEPT ![r] = L!C!Nothing] /\ L!C!Fail
      /\ UNCHANGED <<wired, status, seeded, cache, fill, tag>>
      /\ op' = [op EXCEPT ![r] = "none"]
      /\ past' = [past EXCEPT !.unseeded = @ \/ req[r].at = "seed"]
  BY DEF L!Die, L!C!Die, L!C!End, L!C!cacheVars, L!At, L!C!At
<1>2. L!C!Nothing \in LifeRequests
  BY DEF L!C!Nothing, LifeRequests, LifeSteps, L!C!Steps
<1>3. /\ req' \in [Calls -> LifeRequests]
      /\ \A q \in Calls : q # r => req'[q] = req[q] /\ op'[q] = op[q]
      /\ op' \in [Calls -> {"none", "update", "publish", "cancel"}]
  BY <1>1, <1>2 DEF LifeInv, LifeFits
<1>4. /\ past' \in [unseeded : BOOLEAN, moved : BOOLEAN, updated : BOOLEAN]
      /\ past'.unseeded = (past.unseeded \/ req[r].at = "seed")
      /\ past'.moved = past.moved /\ past'.updated = past.updated
  BY <1>1 DEF LifeInv, LifeFits
<1>5. lapse' \in [failed : BOOLEAN, window : SUBSET L!Keys] /\ lapse'.failed
  BY <1>1, LifeFailed DEF LifeInv
<1>6. LifeFits'
  BY <1>1, <1>3, <1>4, <1>5 DEF LifeInv, LifeFits
<1> QED
  BY <1>1, <1>3, <1>4, <1>5, <1>6, LifeGoesOn

\* Entries are read, stored, dropped and expire: nothing is out of date in the
\* cache that was not, for what was read before a change is stored as late.
LEMMA EntriesStep ==
  ASSUME LifeInv, L!Entries
  PROVE  LifeInv'
<1>1. UNCHANGED <<wired, status, seeded, past, op>>
  BY DEF L!Entries, L!eventVars
<1>2. /\ cache \in [L!Keys -> {"none", "fresh", "stale", "late"}]
      /\ fill \in [L!Keys -> {"none", "fresh", "stale"}] /\ tag \in SUBSET L!Keys
  BY DEF LifeInv, LifeFits
<1>3. "detail" \in L!Keys /\ "list" \in L!Keys /\ "byID" \in L!Keys
  BY DEF L!Keys
<1>4. \A k : L!C!Fetched(k) \in {"late", "fresh"}
  BY DEF L!C!Fetched
<1>5. /\ UNCHANGED <<req, lapse>>
      /\ cache' \in [L!Keys -> {"none", "fresh", "stale", "late"}]
      /\ \A j \in L!Keys : cache'[j] = "stale" => cache[j] = "stale"
      /\ fill' \in [L!Keys -> {"none", "fresh", "stale"}] /\ tag' \in SUBSET L!Keys
  <2> DEFINE Fits == /\ UNCHANGED <<req, lapse>>
                     /\ cache' \in [L!Keys -> {"none", "fresh", "stale", "late"}]
                     /\ \A j \in L!Keys : cache'[j] = "stale" => cache[j] = "stale"
                     /\ fill' \in [L!Keys -> {"none", "fresh", "stale"}]
                     /\ tag' \in SUBSET L!Keys
  <2>1. ASSUME NEW k \in L!Keys, L!C!Read(k) \/ L!C!Drop(k) \/ L!C!Expire(k)
        PROVE  Fits
    BY <1>2, <2>1 DEF L!C!Read, L!C!Drop, L!C!Expire
  <2>2. ASSUME L!StoreNull PROVE Fits
    BY <1>2, <1>3, <2>2 DEF L!StoreNull
  <2>3. ASSUME NEW k \in L!Keys, L!C!StoreTagged(k), UNCHANGED lapse PROVE Fits
    BY <1>2, <1>4, <2>3 DEF L!C!StoreTagged
  <2>4. ASSUME NEW k \in L!Keys, L!C!StoreUntagged(k) PROVE Fits
    BY <1>2, <1>4, <2>4 DEF L!C!StoreUntagged
  <2>5. ASSUME L!StoreFirst PROVE Fits
    BY <1>2, <1>3, <1>4, <2>5 DEF L!StoreFirst
  <2> QED
    BY <1>3, <2>1, <2>2, <2>3, <2>4, <2>5 DEF L!Entries, L!StoreDetail
<1>6. LifeFits'
  BY <1>1, <1>5 DEF LifeInv, LifeFits
<1>7. SeedIsPending'
  BY <1>1, <1>5 DEF LifeInv, SeedIsPending
<1>8. DeletionIsPending'
  <2>1. \A k \in L!Keys : \A q \in Calls : WillDelete(q, k)' = WillDelete(q, k)
    BY <1>1, <1>5 DEF WillDelete, Before
  <2> QED
    BY <1>1, <1>5, <2>1 DEF LifeInv, DeletionIsPending
<1> QED
  BY <1>6, <1>7, <1>8 DEF LifeInv

LEMMA LifeKept == LifeInv /\ [L!Next]_lVars => LifeInv'
<1>1. ASSUME LifeInv, UNCHANGED lVars PROVE LifeInv'
  <2>1. LifeFits' /\ SeedIsPending'
    BY <1>1 DEF lVars, LifeInv, LifeFits, SeedIsPending
  <2>2. DeletionIsPending'
    <3>1. \A k \in L!Keys : \A q \in Calls : WillDelete(q, k)' = WillDelete(q, k)
      BY <1>1 DEF lVars, WillDelete, Before
    <3> QED
      BY <1>1, <3>1 DEF lVars, LifeInv, DeletionIsPending
  <2> QED
    BY <2>1, <2>2 DEF LifeInv
<1> QED
  BY <1>1, UpdateStep, PublishStep, SeedStep, CancelStep, InvalidateTagStep,
     InvalidateKeyStep, LifeDieStep, EntriesStep DEF L!Next

LEMMA LifeAlways == Spec => []LifeInv
<1>1. Init => LifeInv
  BY LifeStarts DEF Init
<1>2. LifeInv /\ [Next]_vars => LifeInv'
  <2>1. [Next]_vars => [L!Next]_lVars
    BY DEF Next, vars
  <2> QED
    BY <2>1, LifeKept
<1> QED
  BY <1>1, <1>2, PTL DEF Spec

\* A published event has its stock once its publication is over, however many
\* publications, updates and cancellations cross, unless seeding failed after
\* the status was set or an update set the status (event.service.js:640).
THEOREM PublishedEventIsSeeded == Spec => []PublishedIsSeeded
<1>1. LifeInv => PublishedIsSeeded
  BY DEF LifeInv, LifeFits, SeedIsPending, PublishedIsSeeded, L!PublishedIsSeeded, L!C!Quiet, L!C!At
<1> QED
  BY <1>1, LifeAlways, PTL

\* What is cached of an event does not outlive the request that changes it, for
\* every number of requests and size of the chunks, but for the list after an
\* update and unless a deletion failed (event.service.js:83, :556).
THEOREM EventEntriesFollow == Spec => []EntriesFollow
<1>1. LifeInv => EntriesFollow
  <2>1. SUFFICES ASSUME LifeInv, L!C!Quiet, ~lapse.failed, NEW k \in L!Keys, cache[k] = "stale"
                 PROVE  k = "list" /\ past.updated
    BY DEF EntriesFollow, L!EntriesFollow
  <2>2. \A r \in Calls : ~WillDelete(r, k)
    BY <2>1 DEF L!C!Quiet, L!C!At, WillDelete, Before, L!Keys
  <2> QED
    BY <2>1, <2>2 DEF LifeInv, DeletionIsPending
<1> QED
  BY <1>1, LifeAlways, PTL

-----------------------------------------------------------------------------
(***************************************************************************)
(* The attendees of an event.  A page that is cached and was not stored    *)
(* between a reading of the set and its deletion is in the set, and among  *)
(* the members that each request under way has still to delete; one that   *)
(* is out of date has a request that has not ended.                        *)
(***************************************************************************)
TagRequests == [at : T!Steps, keys : Seq(Pages), i : {0, PageChunk}]

TagFits ==
  /\ page \in [Pages -> {"none", "fresh", "stale", "late"}]
  /\ pageFill \in [Pages -> {"none", "fresh", "stale"}]
  /\ pageTag \in SUBSET Pages /\ IsFiniteSet(pageTag)
  /\ pageReq \in [Calls -> TagRequests]
  /\ pageLapse \in [failed : BOOLEAN, window : SUBSET Pages]

RoundsFit ==
  \A r \in Calls :
    /\ pageReq[r].at \in {"idle", "members"} => pageReq[r].i = 0
    /\ pageReq[r].at = "untag" => Len(pageReq[r].keys) <= PageChunk

\* Whether a request has still to delete a page.
Remains(q, k) == \E j \in 1..Len(q.keys) : q.i < j /\ q.keys[j] = k
Held(k) ==
  /\ k \in pageTag
  /\ \A r \in Calls : /\ pageReq[r].at = "chunk" => Remains(pageReq[r], k)
                      /\ pageReq[r].at # "untag"

PagesAreHeld ==
  ~pageLapse.failed =>
    \A k \in Pages \ pageLapse.window :
      /\ page[k] # "none" => Held(k)
      /\ page[k] = "stale" => \E r \in Calls : pageReq[r].at # "idle"

TagInv == TagFits /\ RoundsFit /\ PagesAreHeld

LEMMA TagRequestIs ==
  ASSUME NEW q \in TagRequests
  PROVE  /\ q.at \in {"idle", "members", "chunk", "untag"} /\ q.keys \in Seq(Pages)
         /\ q.i \in Nat /\ q.i \in {0, PageChunk} /\ Len(q.keys) \in Nat
BY ChunksAssumption DEF TagRequests, T!Steps

LEMMA TagNothing ==
  T!Nothing \in TagRequests /\ T!Nothing.at = "idle" /\ T!Nothing.i = 0
BY DEF T!Nothing, TagRequests, T!Steps

LEMMA TagStarts == T!Init => TagInv
<1> SUFFICES ASSUME T!Init PROVE TagInv
  OBVIOUS
<1>1. pageReq \in [Calls -> TagRequests] /\ \A r \in Calls : pageReq[r] = T!Nothing
  BY TagNothing DEF T!Init
<1>2. TagFits
  <2>1. pageLapse \in [failed : BOOLEAN, window : SUBSET Pages]
    BY DEF T!Init
  <2> QED
    BY <1>1, <2>1, FS_EmptySet DEF T!Init, TagFits
<1>3. RoundsFit
  BY <1>1, TagNothing DEF RoundsFit
<1>4. PagesAreHeld
  BY DEF T!Init, PagesAreHeld
<1> QED
  BY <1>2, <1>3, <1>4 DEF TagInv

\* A request takes a place, with the members and the index that it has.
LEMMA TagGoesTo ==
  ASSUME NEW old \in [Calls -> TagRequests], NEW r \in Calls, NEW step \in T!Steps
  PROVE  /\ [old EXCEPT ![r].at = step] \in [Calls -> TagRequests]
         /\ [old EXCEPT ![r].at = step][r].at = step
         /\ [old EXCEPT ![r].at = step][r].keys = old[r].keys
         /\ [old EXCEPT ![r].at = step][r].i = old[r].i
         /\ \A q \in Calls : q # r => [old EXCEPT ![r].at = step][q] = old[q]
<1>1. PICK new \in TagRequests :
        /\ new = [old[r] EXCEPT !.at = step] /\ new.at = step
        /\ new.keys = old[r].keys /\ new.i = old[r].i
  <2>1. /\ [old[r] EXCEPT !.at = step] \in TagRequests /\ [old[r] EXCEPT !.at = step].at = step
        /\ [old[r] EXCEPT !.at = step].keys = old[r].keys
        /\ [old[r] EXCEPT !.at = step].i = old[r].i
    BY DEF TagRequests
  <2> QED
    BY <2>1
<1>2. [old EXCEPT ![r].at = step] = [old EXCEPT ![r] = new]
  BY <1>1
<1> QED
  BY <1>1, <1>2

LEMMA BatchIs ==
  ASSUME NEW keys \in Seq(Pages), NEW i \in Nat, NEW last \in 0..Len(keys), i < Len(keys),
         i < last, NEW j \in 1..Len(keys), i < j, j <= last
  PROVE  keys[j] \in T!Range(SubSeq(keys, i + 1, last))
<1> DEFINE batch == SubSeq(keys, i + 1, last)
<1>1. Len(keys) \in Nat
  BY LenProperties
<1>2. /\ batch \in Seq(Pages) /\ Len(batch) = last - i
      /\ \A n \in 1..(last - i) : batch[n] = keys[i + n]
  BY <1>1, SubSeqProperties
<1>3. j - i \in 1..(last - i) /\ i + (j - i) = j
  BY <1>1
<1>4. j - i \in DOMAIN batch /\ batch[j - i] = keys[j]
  BY <1>2, <1>3, LenProperties
<1> HIDE DEF batch
<1>5. keys[j] \in T!Range(batch)
  BY <1>4 DEF T!Range
<1> QED
  BY <1>5 DEF batch

LEMMA ChangeStep ==
  ASSUME TagInv, NEW r \in Calls, T!Change(r)
  PROVE  TagInv'
<1>1. /\ pageReq[r].at = "idle" /\ pageReq' = [pageReq EXCEPT ![r].at = "members"]
      /\ page' = [k \in Pages |-> T!Aged(page[k])]
      /\ pageFill' = [k \in Pages |-> T!Aged(pageFill[k])]
      /\ UNCHANGED <<pageTag, pageLapse>>
  BY DEF T!Change, T!At, T!GoTo, T!Outdate
<1>2. "members" \in T!Steps
  BY DEF T!Steps
<1>3. /\ pageReq' \in [Calls -> TagRequests] /\ pageReq'[r].at = "members"
      /\ pageReq'[r].i = pageReq[r].i
      /\ \A q \in Calls : q # r => pageReq'[q] = pageReq[q]
  BY <1>1, <1>2, TagGoesTo DEF TagInv, TagFits
<1>4. /\ page' \in [Pages -> {"none", "fresh", "stale", "late"}]
      /\ pageFill' \in [Pages -> {"none", "fresh", "stale"}]
      /\ \A k \in Pages : page'[k] # "none" => page[k] # "none"
  BY <1>1 DEF TagInv, TagFits, T!Aged
<1>5. TagFits'
  BY <1>1, <1>3, <1>4 DEF TagInv, TagFits
<1>6. RoundsFit'
  BY <1>1, <1>3 DEF TagInv, RoundsFit
<1>7. \A k \in Pages : Held(k) => Held(k)'
  BY <1>1, <1>3 DEF Held
<1>8. PagesAreHeld'
  BY <1>1, <1>3, <1>4, <1>7 DEF TagInv, PagesAreHeld
<1> QED
  BY <1>5, <1>6, <1>8 DEF TagInv

\* The set is read: it holds what is cached.
LEMMA MembersStep ==
  ASSUME TagInv, NEW r \in Calls, T!Members(r, "idle")
  PROVE  TagInv'
<1>1. /\ pageReq[r].at = "members" /\ UNCHANGED <<page, pageFill, pageTag, pageLapse>>
      /\ pageReq' = [pageReq EXCEPT ![r].keys = T!SetToSeq(pageTag),
                                    ![r].at = IF pageTag = {} THEN "idle" ELSE "chunk"]
  BY DEF T!Members, T!At, T!cacheVars
<1>2. /\ pageReq \in [Calls -> TagRequests] /\ pageReq[r] \in TagRequests /\ pageReq[r].i = 0
      /\ pageTag \in SUBSET Pages /\ IsFiniteSet(pageTag)
  BY <1>1 DEF TagInv, TagFits, RoundsFit
<1>3. PICK list \in Seq(Pages), to \in {"idle", "chunk"} :
        /\ list = T!SetToSeq(pageTag) /\ to = IF pageTag = {} THEN "idle" ELSE "chunk"
        /\ \A k \in pageTag : \E j \in 1..Len(list) : list[j] = k
  <2>1. SetToSeq(pageTag) \in Seq(Pages)
    BY <1>2, SetAsSequence, SeqMonotonic
  <2>2. \A k \in pageTag : \E j \in 1..Len(SetToSeq(pageTag)) : SetToSeq(pageTag)[j] = k
    BY <1>2, SetAsSequence
  <2>3. T!SetToSeq(pageTag) = SetToSeq(pageTag)
    BY DEF T!SetToSeq, SetToSeq, T!Cardinality, Cardinality, T!IsInjective, IsInjective
  <2> QED
    BY <2>1, <2>2, <2>3
<1>4. PICK new \in TagRequests :
        /\ new = [[pageReq[r] EXCEPT !.keys = list] EXCEPT !.at = to]
        /\ new.at = to /\ new.keys = list /\ new.i = 0
  <2>1. "idle" \in T!Steps /\ "chunk" \in T!Steps
    BY DEF T!Steps
  <2>2. [[pageReq[r] EXCEPT !.keys = list] EXCEPT !.at = to] \in TagRequests
    BY <1>2, <2>1 DEF TagRequests
  <2>3. /\ [[pageReq[r] EXCEPT !.keys = list] EXCEPT !.at = to].at = to
        /\ [[pageReq[r] EXCEPT !.keys = list] EXCEPT !.at = to].keys = list
        /\ [[pageReq[r] EXCEPT !.keys = list] EXCEPT !.at = to].i = 0
    BY <1>2 DEF TagRequests
  <2> QED
    BY <2>2, <2>3
<1>5. pageReq' = [pageReq EXCEPT ![r] = new]
  BY <1>1, <1>2, <1>3, <1>4
<1>6. /\ pageReq' \in [Calls -> TagRequests] /\ pageReq'[r] = new
      /\ \A q \in Calls : q # r => pageReq'[q] = pageReq[q]
  BY <1>2, <1>5
<1>7. TagFits'
  BY <1>1, <1>6 DEF TagInv, TagFits
<1>8. RoundsFit'
  BY <1>4, <1>6 DEF TagInv, RoundsFit
<1>9. \A k \in Pages : Held(k) => Held(k)'
  <2> SUFFICES ASSUME NEW k \in Pages, Held(k) PROVE Held(k)'
    OBVIOUS
  <2>1. Remains(new, k)
    <3>1. PICK j \in 1..Len(list) : list[j] = k
      BY <1>3 DEF Held
    <3>2. Len(list) \in Nat
      BY LenProperties
    <3> QED
      BY <1>4, <3>1, <3>2 DEF Remains
  <2>2. pageReq'[r].at # "untag"
    BY <1>4, <1>6
  <2> QED
    BY <1>1, <1>6, <2>1, <2>2 DEF Held
<1>10. PagesAreHeld'
  <2>1. \A k \in Pages : Held(k) => new.at = "chunk"
    BY <1>3, <1>4 DEF Held
  <2> QED
    BY <1>1, <1>4, <1>6, <1>9, <2>1 DEF TagInv, PagesAreHeld
<1> QED
  BY <1>7, <1>8, <1>10 DEF TagInv

LEMMA DeleteChunkStep ==
  ASSUME TagInv, NEW r \in Calls, T!DeleteChunk(r)
  PROVE  TagInv'
<1>1. pageReq[r].at = "chunk" /\ UNCHANGED <<pageFill, pageTag, pageLapse>>
  BY DEF T!DeleteChunk, T!At
<1>2. /\ pageReq \in [Calls -> TagRequests] /\ pageReq[r] \in TagRequests
      /\ page \in [Pages -> {"none", "fresh", "stale", "late"}]
  BY DEF TagInv, TagFits
<1>3. PICK keys \in Seq(Pages), i \in {0, PageChunk}, n \in Nat :
        keys = pageReq[r].keys /\ i = pageReq[r].i /\ n = Len(keys) /\ i \in Nat
  BY <1>2, TagRequestIs
<1>4. CASE i < n
  <2> DEFINE last == IF i + PageChunk < n THEN i + PageChunk ELSE n
             batch == T!Range(SubSeq(keys, i + 1, last))
  <2>1. /\ pageReq' = [pageReq EXCEPT ![r].i = PageChunk]
        /\ page' = [k \in Pages |-> IF k \in batch THEN "none" ELSE page[k]]
    BY <1>3, <1>4 DEF T!DeleteChunk, T!More, T!Batch, T!Delete
  <2>2. PICK new \in TagRequests :
          /\ new = [pageReq[r] EXCEPT !.i = PageChunk]
          /\ new.at = "chunk" /\ new.keys = keys /\ new.i = PageChunk
    <3>1. /\ [pageReq[r] EXCEPT !.i = PageChunk] \in TagRequests
          /\ [pageReq[r] EXCEPT !.i = PageChunk].at = "chunk"
          /\ [pageReq[r] EXCEPT !.i = PageChunk].keys = keys
          /\ [pageReq[r] EXCEPT !.i = PageChunk].i = PageChunk
      BY <1>1, <1>2, <1>3 DEF TagRequests
    <3> QED
      BY <3>1
  <2>3. /\ pageReq' \in [Calls -> TagRequests] /\ pageReq'[r] = new
        /\ \A q \in Calls : q # r => pageReq'[q] = pageReq[q]
    BY <1>2, <2>1, <2>2
  <2>4. /\ page' \in [Pages -> {"none", "fresh", "stale", "late"}]
        /\ \A k \in Pages : page'[k] # "none" => page'[k] = page[k] /\ k \notin batch
    BY <1>2, <2>1
  <2>5. TagFits'
    BY <1>1, <2>3, <2>4 DEF TagInv, TagFits
  <2>6. RoundsFit'
    BY <2>2, <2>3 DEF TagInv, RoundsFit
  <2>7. ASSUME NEW k \in Pages, page'[k] # "none", Held(k) PROVE Held(k)'
    <3>1. PICK j \in 1..n : i < j /\ keys[j] = k
      BY <1>1, <1>3, <2>7 DEF Held, Remains
    <3>2. PageChunk \in Nat \ {0}
      BY ChunksAssumption
    <3>3. last \in 0..n /\ i < last
      BY SMTT(60), <1>3, <1>4, <3>2
    <3>4. ~(j <= last)
      BY ONLY <1>3, <1>4, <2>4, <2>7, <3>1, <3>3, BatchIs
    <3>5. PageChunk < j
      BY <1>3, <3>1, <3>2, <3>4
    <3>6. Remains(new, k)
      BY <1>3, <2>2, <3>1, <3>5 DEF Remains
    <3> QED
      BY <1>1, <2>2, <2>3, <2>7, <3>6 DEF Held
  <2>8. PagesAreHeld'
    <3> HIDE DEF batch, last
    <3> QED
      BY <1>1, <2>2, <2>3, <2>4, <2>7 DEF TagInv, PagesAreHeld
  <2> QED
    BY <2>5, <2>6, <2>8 DEF TagInv
<1>5. CASE ~(i < n)
  <2>1. pageReq' = [pageReq EXCEPT ![r].at = "untag"] /\ page' = page
    BY <1>3, <1>5 DEF T!DeleteChunk, T!More, T!GoTo
  <2>2. "untag" \in T!Steps
    BY DEF T!Steps
  <2>3. /\ pageReq' \in [Calls -> TagRequests] /\ pageReq'[r].at = "untag"
        /\ pageReq'[r].keys = keys
        /\ \A q \in Calls : q # r => pageReq'[q] = pageReq[q]
    BY <1>2, <1>3, <2>1, <2>2, TagGoesTo
  <2>4. TagFits'
    BY <1>1, <2>1, <2>3 DEF TagInv, TagFits
  <2>5. RoundsFit'
    <3>1. n <= PageChunk
      BY <1>3, <1>5, ChunksAssumption
    <3> QED
      BY <1>3, <2>3, <3>1 DEF TagInv, RoundsFit
  <2>6. \A k \in Pages : ~Held(k)
    BY <1>1, <1>3, <1>5 DEF Held, Remains
  <2>7. PagesAreHeld'
    BY <1>1, <2>1, <2>6 DEF TagInv, PagesAreHeld
  <2> QED
    BY <2>4, <2>5, <2>7 DEF TagInv
<1> QED
  BY <1>4, <1>5

\* The set goes, or the request does.
LEMMA TagEndsStep ==
  ASSUME TagInv, NEW r \in Calls,
         T!DropTag(r, "idle") \/ T!GiveUp(r, "idle") \/ T!Die(r)
  PROVE  TagInv'
<1>1. [T!Nothing EXCEPT !.at = "idle"] = T!Nothing
  BY DEF T!Nothing
<1>2. /\ UNCHANGED <<page, pageFill>> /\ pageReq' = [pageReq EXCEPT ![r] = T!Nothing]
      /\ \/ pageReq[r].at = "untag" /\ pageTag' = {} /\ UNCHANGED pageLapse
         \/ pageTag' = pageTag /\ pageLapse' = [pageLapse EXCEPT !.failed = TRUE]
  BY <1>1 DEF T!DropTag, T!GiveUp, T!Die, T!At, T!End, T!Fail, T!cacheVars
<1>3. /\ pageReq' \in [Calls -> TagRequests] /\ pageReq'[r] = T!Nothing
      /\ \A q \in Calls : q # r => pageReq'[q] = pageReq[q]
  BY <1>2, TagNothing DEF TagInv, TagFits
<1>4. /\ pageLapse' \in [failed : BOOLEAN, window : SUBSET Pages]
      /\ pageLapse'.failed \/ (pageLapse' = pageLapse /\ pageReq[r].at = "untag")
  BY <1>2 DEF TagInv, TagFits
<1>5. TagFits'
  BY <1>2, <1>3, <1>4, FS_EmptySet DEF TagInv, TagFits
<1>6. RoundsFit'
  BY <1>3, TagNothing DEF TagInv, RoundsFit
<1>7. pageReq[r].at = "untag" => \A k \in Pages : ~Held(k)
  BY DEF Held
<1>8. PagesAreHeld'
  BY <1>2, <1>4, <1>7 DEF TagInv, PagesAreHeld
<1> QED
  BY <1>5, <1>6, <1>8 DEF TagInv

\* A page is stored, in the set as in the cache.
LEMMA StoreStep ==
  ASSUME TagInv, NEW k \in Pages, T!Store(k)
  PROVE  TagInv'
<1>1. /\ page' = [page EXCEPT ![k] = T!Fetched(k)]
      /\ pageTag' = pageTag \cup {k}
      /\ pageFill' = [pageFill EXCEPT ![k] = "none"]
      /\ UNCHANGED pageReq
      /\ pageLapse' = [pageLapse EXCEPT !.window =
                         IF T!InWindow THEN @ \cup {k} ELSE @ \ {k}]
  BY DEF T!Store, T!StoreTagged
<1>2. T!Fetched(k) \in {"late", "fresh"}
  BY DEF T!Fetched
<1>3. /\ page' \in [Pages -> {"none", "fresh", "stale", "late"}] /\ page'[k] # "stale"
      /\ \A j \in Pages : j # k => page'[j] = page[j]
      /\ pageFill' \in [Pages -> {"none", "fresh", "stale"}]
  BY <1>1, <1>2 DEF TagInv, TagFits
<1>4. /\ pageLapse' \in [failed : BOOLEAN, window : SUBSET Pages]
      /\ pageLapse'.failed = pageLapse.failed
      /\ pageLapse'.window = IF T!InWindow THEN pageLapse.window \cup {k}
                                           ELSE pageLapse.window \ {k}
  BY <1>1 DEF TagInv, TagFits
<1>5. TagFits'
  <2>1. pageTag' \in SUBSET Pages /\ IsFiniteSet(pageTag')
    BY <1>1, FS_AddElement DEF TagInv, TagFits
  <2> QED
    BY <1>1, <1>3, <1>4, <2>1 DEF TagInv, TagFits
<1>6. RoundsFit'
  BY <1>1 DEF TagInv, RoundsFit
<1>7. \A j \in Pages : Held(j) => Held(j)'
  BY <1>1 DEF Held
<1>8. ~T!InWindow => Held(k)'
  BY <1>1 DEF Held, T!InWindow
<1>9. PagesAreHeld'
  BY <1>1, <1>3, <1>4, <1>7, <1>8 DEF TagInv, PagesAreHeld
<1> QED
  BY <1>5, <1>6, <1>9 DEF TagInv

LEMMA PageStep ==
  ASSUME TagInv, NEW k \in Pages, T!Read(k) \/ T!Drop(k) \/ T!Expire(k)
  PROVE  TagInv'
<1>1. /\ UNCHANGED <<pageTag, pageReq, pageLapse>>
      /\ page' = page \/ page' = [page EXCEPT ![k] = "none"]
      /\ \E x \in {"none", "fresh"} : pageFill' = pageFill \/ pageFill' = [pageFill EXCEPT ![k] = x]
  BY DEF T!Read, T!Drop, T!Expire
<1>2. /\ page' \in [Pages -> {"none", "fresh", "stale", "late"}]
      /\ \A j \in Pages : page'[j] # "none" => page'[j] = page[j]
      /\ pageFill' \in [Pages -> {"none", "fresh", "stale"}]
  BY <1>1 DEF TagInv, TagFits
<1>3. TagFits' /\ RoundsFit'
  BY <1>1, <1>2 DEF TagInv, TagFits, RoundsFit
<1>4. \A j \in Pages : Held(j) => Held(j)'
  BY <1>1 DEF Held
<1>5. PagesAreHeld'
  BY <1>1, <1>2, <1>4 DEF TagInv, PagesAreHeld
<1> QED
  BY <1>3, <1>5 DEF TagInv

LEMMA TagKept == TagInv /\ [T!Next]_tVars => TagInv'
<1>1. ASSUME TagInv, T!Next PROVE TagInv'
  BY <1>1, ChangeStep, MembersStep, DeleteChunkStep, TagEndsStep, StoreStep, PageStep
  DEF T!Next, T!Invalidate, T!Entries
<1>2. ASSUME TagInv, UNCHANGED tVars PROVE TagInv'
  <2>1. TagFits' /\ RoundsFit'
    BY <1>2 DEF tVars, TagInv, TagFits, RoundsFit
  <2>2. \A k \in Pages : Held(k)' = Held(k)
    BY <1>2 DEF tVars, Held
  <2>3. PagesAreHeld'
    BY <1>2, <2>2 DEF tVars, TagInv, PagesAreHeld
  <2> QED
    BY <2>1, <2>3 DEF TagInv
<1> QED
  BY <1>1, <1>2

LEMMA TagAlways == Spec => []TagInv
<1>1. Init => TagInv
  BY TagStarts DEF Init
<1>2. TagInv /\ [Next]_vars => TagInv'
  <2>1. [Next]_vars => [T!Next]_tVars
    BY DEF Next, vars
  <2> QED
    BY <2>1, TagKept
<1> QED
  BY <1>1, <1>2, PTL DEF Spec

\* A page that was up to date when it was stored does not outlive the change
\* that outdates it, and what is deleted is deleted in one round, for every
\* number of pages and requests and every size of the chunks; unless a command
\* failed or the page was stored while the set was read and deleted
\* (redis.service.js:518, :550).
THEOREM AttendeePagesFollow == Spec => []PagesFollow
<1>1. TagInv => PagesFollow
  <2> SUFFICES ASSUME TagInv PROVE T!PagesFollow
    BY DEF PagesFollow
  <2>1. T!OneRoundOrNone
    BY DEF T!OneRoundOrNone, T!At, TagInv, RoundsFit
  <2>2. T!Quiet /\ ~pageLapse.failed => \A k \in Pages \ pageLapse.window : page[k] # "stale"
    BY DEF T!Quiet, T!At, TagInv, PagesAreHeld
  <2> QED
    BY <2>1, <2>2 DEF T!PagesFollow
<1> QED
  BY <1>1, TagAlways, PTL

-----------------------------------------------------------------------------
(***************************************************************************)
(* How a change reaches a client.  What is cached or shown out of date has *)
(* the last change of a ticket type on its way: still to be reported, in   *)
(* the topic and newer than what was recorded, or in the consumer's hand.  *)
(* What is shown may have a push on its way instead.  A change is in one   *)
(* of these places only, and none is newer than the stock.                 *)
(***************************************************************************)
Hands == [at : {"idle", "drop", "record", "nudge"}, note : A!Changes \cup {NoNote}]
Snapshots == [is : {"none", "fresh", "stale", "late"}, v : A!Versions]
Etags == {"none", "fresh", "stale", "late"}
Timers == [set : BOOLEAN, hint : A!Versions]
Runs == [at : A!Unread \cup {"versions", "store", "answer"},
         min : A!Versions, seen : A!Counts, v : A!Versions, push : SUBSET A!Sinks]
Clients == [on : BOOLEAN, listed : BOOLEAN, shown : A!Counts]
Pasts == [lost : BOOLEAN, kept : BOOLEAN, late : BOOLEAN]

AvailFits ==
  /\ caching \in BOOLEAN
  /\ version \in A!PerType /\ lastver \in A!PerType
  /\ owed \in SUBSET A!Changes /\ notes \in SUBSET A!Changes /\ hand \in Hands
  /\ snapshot \in Snapshots /\ etag \in Etags
  /\ latest \in A!Versions /\ timer \in Timers
  /\ fetch \in [Fetches -> Runs] /\ inflight \in Fetches \cup {NoFetch}
  /\ client \in Clients /\ availPast \in Pasts

ChangesFit ==
  /\ \A t \in Types : lastver[t] <= version[t]
  /\ \A c \in owed \cup notes : c.v <= version[c.t]
  /\ owed \cap notes = {}
  /\ hand.at # "idle" => /\ hand.note \in A!Changes /\ hand.note.v <= version[hand.note.t]
                         /\ hand.note \notin owed \cup notes

RunsFit ==
  /\ \A f \in Fetches :
       /\ fetch[f].at = "idle" => fetch[f].push = {}
       /\ fetch[f].at \in A!Unread => fetch[f].seen = "fresh"
  /\ inflight # NoFetch => fetch[inflight].at \notin {"idle", "look"}

Coming(t) ==
  \E c \in owed \cup notes : c.t = t /\ c.v = version[t] /\ lastver[t] < version[t]
InHand(t) == hand.note.t = t /\ hand.note.v = version[t]
ToDrop(t) == hand.at = "drop" /\ InHand(t) /\ lastver[t] < version[t]

CacheIsPending ==
  ~availPast.kept /\ (snapshot.is = "stale" \/ etag = "stale") =>
    \E t \in Types : Coming(t) \/ ToDrop(t)

ScreenIsPending ==
  client.listed /\ client.shown = "stale" /\ ~availPast.lost /\ ~availPast.late =>
    \/ \E t \in Types : Coming(t) \/ (hand.at # "idle" /\ InHand(t))
    \/ timer.set
    \/ \E f \in Fetches : "held" \in fetch[f].push /\ fetch[f].seen # "stale"

AvailInv == AvailFits /\ ChangesFit /\ RunsFit /\ CacheIsPending /\ ScreenIsPending

LEMMA AvailTypes == AvailFits <=> A!TypeOK
BY DEF AvailFits, A!TypeOK, Hands, Snapshots, Etags, Timers, Runs, Clients, Pasts

LEMMA GreatestIs ==
  ASSUME NEW set \in SUBSET A!Versions, set # {}
  PROVE  A!Max(set) \in set /\ \A y \in set : A!Max(set) >= y
<1> DEFINE good == {n \in Nat : \A some \in SUBSET (0..n) :
                       some # {} => \E x \in some : \A y \in some : x >= y}
<1>1. 0 \in good
  <2> SUFFICES ASSUME NEW some \in SUBSET (0..0), some # {}
               PROVE  \E x \in some : \A y \in some : x >= y
    OBVIOUS
  <2>1. PICK x : x \in some
    OBVIOUS
  <2>2. \A y \in some : y = 0
    OBVIOUS
  <2>3. x = 0 /\ \A y \in some : x >= y
    BY <2>1, <2>2
  <2> QED
    BY <2>1, <2>3
<1>2. ASSUME NEW n \in good PROVE n + 1 \in good
  <2> SUFFICES ASSUME NEW some \in SUBSET (0..(n + 1)), some # {}
               PROVE  \E x \in some : \A y \in some : x >= y
    OBVIOUS
  <2>1. CASE n + 1 \in some
    BY <2>1
  <2>2. CASE n + 1 \notin some
    <3>1. some \in SUBSET (0..n)
      BY <2>2
    <3> QED
      BY <3>1
  <2> QED
    BY <2>1, <2>2
<1>3. good = Nat
  <2> HIDE DEF good
  <2>1. good \in SUBSET Nat
    BY DEF good
  <2> QED
    BY <1>1, <1>2, <2>1, NaturalInduction
<1>4. \E x \in set : \A y \in set : x >= y
  BY <1>3, TypesAssumption DEF A!Versions
<1> QED
  BY <1>4 DEF A!Max

LEMMA VersionIs == ASSUME NEW v \in A!Versions PROVE v \in Nat /\ 0 \in A!Versions
BY TypesAssumption DEF A!Versions

LEMMA NewestIs == ASSUME version \in A!PerType PROVE A!Newest \in A!Versions
<1>1. {version[t] : t \in Types} \in SUBSET A!Versions /\ {version[t] : t \in Types} # {}
  BY TypesAssumption DEF A!PerType
<1> QED
  BY <1>1, GreatestIs DEF A!Newest

LEMMA EffectiveIs ==
  ASSUME AvailFits, NEW min \in A!Versions
  PROVE  A!Effective(min) \in A!Versions
<1> DEFINE all == {min} \cup {fetch[f].min : f \in {inflight} \cap Fetches}
<1>1. \A f \in Fetches : fetch[f].min \in A!Versions
  BY DEF AvailFits, Runs
<1>2. all \in SUBSET A!Versions /\ all # {}
  BY <1>1
<1>3. A!Max(all) \in A!Versions
  <2> HIDE DEF all
  <2> QED
    BY <1>2, GreatestIs
<1> QED
  BY <1>3 DEF A!Effective

LEMMA RunIs ==
  ASSUME NEW q \in Runs
  PROVE  /\ q.at \in {"idle", "look", "counters", "versions", "store", "answer"}
         /\ q.min \in A!Versions /\ q.seen \in {"fresh", "stale", "wrong"}
         /\ q.v \in A!Versions /\ q.push \in SUBSET {"held", "left"}
BY DEF Runs, A!Unread, A!Counts, A!Sinks

LEMMA ChangeIs ==
  ASSUME NEW c \in A!Changes
  PROVE  /\ c.t \in Types /\ c.v \in A!Versions /\ c.v \in Nat
         /\ \A d \in A!Changes : c.t = d.t /\ c.v = d.v => c = d
BY VersionIs DEF A!Changes

LEMMA IdleRun ==
  /\ A!Idle \in Runs /\ A!Idle.at = "idle" /\ A!Idle.push = {} /\ A!Idle.seen = "fresh"
  /\ A!None \in Snapshots /\ A!None.is = "none" /\ A!NoTimer \in Timers
<1>1. 0 \in A!Versions
  BY TypesAssumption DEF A!Versions
<1> QED
  BY <1>1 DEF A!Idle, A!None, A!NoTimer, Runs, Snapshots, Timers, A!Unread, A!Counts

LEMMA AvailStarts == A!Init => AvailInv
<1> SUFFICES ASSUME A!Init PROVE AvailInv
  OBVIOUS
<1>1. 0 \in A!Versions
  BY TypesAssumption DEF A!Versions
<1>2. fetch \in [Fetches -> Runs] /\ \A f \in Fetches : fetch[f] = A!Idle
  BY IdleRun DEF A!Init
<1>3. hand \in Hands /\ hand.at = "idle"
  BY DEF A!Init, Hands
<1>4. client \in Clients /\ availPast \in Pasts /\ ~client.listed
  BY DEF A!Init, Clients, Pasts, A!Counts
<1>5. snapshot \in Snapshots /\ snapshot.is = "none" /\ timer \in Timers /\ etag = "none"
  BY IdleRun DEF A!Init
<1>6. AvailFits
  BY <1>1, <1>2, <1>3, <1>4, <1>5 DEF A!Init, AvailFits, A!PerType, Etags
<1>7. ChangesFit
  BY <1>3 DEF A!Init, ChangesFit
<1>8. RunsFit
  BY <1>2, IdleRun DEF A!Init, RunsFit
<1>9. CacheIsPending /\ ScreenIsPending
  BY <1>4, <1>5 DEF CacheIsPending, ScreenIsPending
<1> QED
  BY <1>6, <1>7, <1>8, <1>9 DEF AvailInv

\* Where the changes are does not change.
LEMMA ChangesStay ==
  ASSUME AvailInv, UNCHANGED <<version, lastver, owed, notes, hand>>
  PROVE  /\ ChangesFit'
         /\ \A t \in Types : /\ Coming(t)' = Coming(t) /\ InHand(t)' = InHand(t)
                             /\ ToDrop(t)' = ToDrop(t)
BY DEF AvailInv, ChangesFit, Coming, InHand, ToDrop

LEMMA SumBounds ==
  ASSUME version \in A!PerType, NEW t \in Types
  PROVE  version[t] <= A!SumFunction(version) /\ A!SumFunction(version) \in Nat
<1>1. \A x \in Types : version[x] \in Nat
  BY VersionIs DEF A!PerType
<1>2. SumOver(version, Types) \in Nat /\ version[t] <= SumOver(version, Types)
  BY <1>1, TypesAssumption, SumNat
<1>3. A!SumFunction(version) = SumOver(version, Types)
  <2>1. DOMAIN version = Types
    BY DEF A!PerType
  <2> QED
    BY <2>1 DEF A!SumFunction, A!SumFunctionOnSet, A!FoldFunctionOnSet, A!MapThenFoldSet,
                SumOver, SumFunctionOnSet, FoldFunctionOnSet, MapThenFoldSet
<1> QED
  BY <1>2, <1>3

LEMMA ChangeStockStep ==
  ASSUME AvailInv, NEW t \in Types, A!ChangeStock(t)
  PROVE  AvailInv'
<1>1. /\ A!SumFunction(version) < MaxChanges
      /\ version' = [version EXCEPT ![t] = @ + 1]
      /\ owed' = owed \cup {[t |-> t, v |-> version[t] + 1]}
      /\ snapshot' = [snapshot EXCEPT !.is = A!Aged(@)] /\ etag' = A!Aged(etag)
      /\ client' = [client EXCEPT !.shown = A!Aged(@)]
      /\ fetch' = [f \in Fetches |-> IF fetch[f].at \in A!Unread THEN fetch[f]
                                     ELSE [fetch[f] EXCEPT !.seen = "stale"]]
      /\ UNCHANGED <<caching, notes, lastver, hand, latest, timer, inflight, availPast>>
  BY DEF A!ChangeStock
<1>2. /\ version \in [Types -> A!Versions] /\ \A x \in Types : version[x] \in Nat
      /\ lastver \in [Types -> A!Versions] /\ \A x \in Types : lastver[x] \in Nat
  BY VersionIs DEF AvailInv, AvailFits, A!PerType
<1>3. PICK n \in A!Versions : n = version[t] + 1
  <2>1. version[t] + 1 \in 0..MaxChanges
    BY <1>1, <1>2, SumBounds, TypesAssumption DEF AvailInv, AvailFits
  <2> QED
    BY <2>1 DEF A!Versions
<1>4. /\ version' = [version EXCEPT ![t] = n] /\ version' \in A!PerType
      /\ version'[t] = n /\ \A x \in Types : x # t => version'[x] = version[x]
  BY <1>1, <1>2, <1>3 DEF A!PerType
<1>5. PICK c \in A!Changes : owed' = owed \cup {c} /\ c.t = t /\ c.v = n
  <2>1. [t |-> t, v |-> n] \in A!Changes
    BY DEF A!Changes
  <2> QED
    BY <1>1, <1>3, <2>1
<1>6. snapshot' \in Snapshots /\ etag' \in Etags /\ client' \in Clients
  BY <1>1 DEF AvailInv, AvailFits, Snapshots, Etags, Clients, A!Aged, A!Counts
<1>7. ASSUME NEW f \in Fetches
      PROVE  /\ fetch'[f] \in Runs /\ fetch'[f].at = fetch[f].at /\ fetch'[f].push = fetch[f].push
             /\ fetch[f].at \in A!Unread => fetch'[f] = fetch[f]
  <2>1. fetch[f] \in Runs
    BY DEF AvailInv, AvailFits
  <2>2. /\ [fetch[f] EXCEPT !.seen = "stale"] \in Runs
        /\ [fetch[f] EXCEPT !.seen = "stale"].at = fetch[f].at
        /\ [fetch[f] EXCEPT !.seen = "stale"].push = fetch[f].push
    BY <2>1 DEF Runs, A!Counts
  <2>3. fetch'[f] \in {fetch[f], [fetch[f] EXCEPT !.seen = "stale"]}
    BY <1>1
  <2> QED
    BY <1>1, <2>1, <2>2, <2>3
<1>8. fetch' \in [Fetches -> Runs]
  <2>1. fetch' = [f \in Fetches |-> fetch'[f]]
    BY <1>1
  <2> QED
    BY <1>7, <2>1
<1>9. AvailFits'
  <2>1. owed' \in SUBSET A!Changes
    BY <1>5 DEF AvailInv, AvailFits
  <2> QED
    BY <1>1, <1>4, <1>6, <1>8, <2>1 DEF AvailInv, AvailFits
<1>10. \A x \in Types : version[x] <= version'[x] /\ version'[x] \in Nat
  BY <1>2, <1>3, <1>4
<1>11. \A d \in A!Changes : d.v <= version[d.t] => d.v <= version'[d.t] /\ d # c
  BY <1>2, <1>3, <1>5, <1>10, ChangeIs
<1>12. owed \subseteq A!Changes /\ notes \subseteq A!Changes
  BY DEF AvailInv, AvailFits
<1>13. ChangesFit'
  <2>1. \A x \in Types : lastver'[x] <= version'[x]
    BY <1>1, <1>2, <1>10 DEF AvailInv, ChangesFit
  <2>2. \A d \in owed' \cup notes' : d.v <= version'[d.t]
    <3>1. \A d \in owed \cup notes : d.v <= version'[d.t]
      BY <1>11, <1>12 DEF AvailInv, ChangesFit
    <3>2. c.v <= version'[c.t]
      BY <1>4, <1>5, <1>10
    <3> QED
      BY <1>1, <1>5, <3>1, <3>2
  <2>3. c \notin notes /\ (hand.at # "idle" => hand.note # c)
    BY <1>11, <1>12 DEF AvailInv, ChangesFit
  <2>4. owed' \cap notes' = {}
    BY <1>1, <1>5, <2>3 DEF AvailInv, ChangesFit
  <2>5. hand'.at # "idle" => /\ hand'.note \in A!Changes /\ hand'.note.v <= version'[hand'.note.t]
                             /\ hand'.note \notin owed' \cup notes'
    BY <1>1, <1>5, <1>11, <2>3 DEF AvailInv, ChangesFit
  <2> QED
    BY <2>1, <2>2, <2>4, <2>5 DEF ChangesFit
<1>14. Coming(t)'
  <2>1. lastver'[t] < version'[t]
    BY <1>1, <1>2, <1>3, <1>4 DEF AvailInv, ChangesFit
  <2>2. c \in (owed \cup notes)' /\ c.t = t /\ c.v = version'[t]
    BY <1>4, <1>5
  <2> QED
    BY <2>1, <2>2 DEF Coming
<1>15. RunsFit'
  <2>1. \A f \in Fetches : fetch'[f].at = fetch[f].at /\ fetch'[f].push = fetch[f].push
    BY <1>7
  <2>2. \A f \in Fetches : fetch[f].at \in A!Unread => fetch'[f].seen = fetch[f].seen
    BY <1>7
  <2>3. inflight \in Fetches \cup {NoFetch}
    BY DEF AvailInv, AvailFits
  <2> QED
    BY <1>1, <2>1, <2>2, <2>3 DEF AvailInv, RunsFit
<1>16. CacheIsPending' /\ ScreenIsPending'
  BY <1>14 DEF CacheIsPending, ScreenIsPending
<1> QED
  BY <1>9, <1>13, <1>15, <1>16 DEF AvailInv

\* What is in the cache and on the screen changes, the changes of the stock and
\* what has come of them do not.
LEMMA AvailGoesOn ==
  ASSUME AvailInv, AvailFits', ChangesFit', UNCHANGED <<fetch, inflight>>,
         \A t \in Types : Coming(t) => Coming(t)',
         ~availPast'.kept /\ (snapshot'.is = "stale" \/ etag' = "stale") =>
           /\ ~availPast.kept /\ (snapshot.is = "stale" \/ etag = "stale")
           /\ \A t \in Types : ToDrop(t) => Coming(t)' \/ ToDrop(t)',
         client'.listed /\ client'.shown = "stale" /\ ~availPast'.lost /\ ~availPast'.late =>
           \/ /\ client.listed /\ client.shown = "stale" /\ ~availPast.lost /\ ~availPast.late
              /\ \A t \in Types : hand.at # "idle" /\ InHand(t) =>
                   Coming(t)' \/ (hand'.at # "idle" /\ InHand(t)')
              /\ timer.set => timer'.set
           \/ timer'.set
  PROVE  AvailInv'
<1>1. RunsFit'
  BY DEF AvailInv, RunsFit
<1>2. CacheIsPending'
  BY DEF AvailInv, CacheIsPending
<1>3. ScreenIsPending'
  BY DEF AvailInv, ScreenIsPending
<1> QED
  BY <1>1, <1>2, <1>3 DEF AvailInv



LEMMA AfterChangeStep ==
  ASSUME AvailInv, NEW c \in owed, A!AfterChange(c)
  PROVE  AvailInv'
<1>1. /\ owed' = owed \ {c} /\ snapshot' \in {snapshot, A!None}
      /\ UNCHANGED <<caching, version, lastver, hand, etag, latest, timer, client, fetch, inflight>>
  BY DEF A!AfterChange, A!pushed
<1>2. \/ notes' = notes \cup {c} /\ availPast' = availPast
      \/ /\ availPast' \in Pasts /\ availPast'.lost /\ availPast'.kept /\ notes' = notes
  BY DEF A!AfterChange, AvailInv, AvailFits, Pasts
<1>3. c \in A!Changes
  BY DEF AvailInv, AvailFits
<1>4. AvailFits'
  BY <1>1, <1>2, <1>3, IdleRun DEF AvailInv, AvailFits
<1>5. ChangesFit'
  BY <1>1, <1>2, <1>3 DEF AvailInv, ChangesFit
<1>6. CASE availPast'.lost /\ availPast'.kept
  <2>1. RunsFit'
    BY <1>1 DEF AvailInv, RunsFit
  <2> QED
    BY <1>4, <1>5, <1>6, <2>1 DEF AvailInv, CacheIsPending, ScreenIsPending
<1>7. CASE notes' = notes \cup {c} /\ availPast' = availPast
  <2>1. \A t \in Types : /\ Coming(t)' = Coming(t) /\ InHand(t)' = InHand(t)
                        /\ ToDrop(t)' = ToDrop(t)
    BY <1>1, <1>7 DEF Coming, InHand, ToDrop
  <2> QED
    BY <1>1, <1>4, <1>5, <1>7, <2>1, IdleRun, AvailGoesOn
<1> QED
  BY <1>2, <1>6, <1>7

LEMMA TakeNoteStep ==
  ASSUME AvailInv, NEW c \in notes, A!TakeNote(c)
  PROVE  AvailInv'
<1>1. /\ hand.at = "idle" /\ notes' = notes \ {c}
      /\ UNCHANGED <<caching, version, owed, lastver, snapshot, etag, latest, timer, client,
                     fetch, inflight, availPast>>
  BY DEF A!TakeNote, A!stored, A!pushed
<1>2. c \in A!Changes /\ c.t \in Types
  BY ChangeIs DEF AvailInv, AvailFits
<1>3. /\ hand' \in Hands
      /\ (hand'.at = "drop" /\ hand'.note = c) \/ (hand' = hand /\ c.v <= lastver[c.t])
  <2>1. [at |-> "drop", note |-> c] \in Hands
    BY <1>2 DEF Hands
  <2> QED
    BY <2>1 DEF A!TakeNote, AvailInv, AvailFits
<1>4. lastver[c.t] \in Nat /\ c.v \in Nat
  BY <1>2, ChangeIs, VersionIs DEF AvailInv, AvailFits, A!PerType
<1>5. AvailFits'
  BY <1>1, <1>3 DEF AvailInv, AvailFits
<1>6. ChangesFit'
  <2>1. c \notin owed /\ c \notin notes' /\ c.v <= version[c.t]
    BY <1>1 DEF AvailInv, ChangesFit
  <2>2. CASE hand'.at = "drop" /\ hand'.note = c
    BY <1>1, <1>2, <2>1, <2>2 DEF AvailInv, ChangesFit
  <2>3. CASE hand' = hand
    BY <1>1, <2>3 DEF AvailInv, ChangesFit
  <2> QED
    BY <1>3, <2>2, <2>3
<1>7. ASSUME NEW t \in Types, Coming(t)
      PROVE  Coming(t)' \/ (ToDrop(t)' /\ hand'.at = "drop" /\ InHand(t)')
  <2>1. PICK d \in owed \cup notes : d.t = t /\ d.v = version[t] /\ lastver[t] < version[t]
    BY <1>7 DEF Coming
  <2>2. CASE d = c
    <3>1. ~(c.v <= lastver[c.t])
      BY <1>4, <2>1, <2>2
    <3> QED
      BY <1>1, <1>3, <2>1, <2>2, <3>1 DEF InHand, ToDrop
  <2>3. CASE d # c
    BY <1>1, <2>1, <2>3 DEF Coming
  <2> QED
    BY <2>2, <2>3
<1>8. CacheIsPending'
  BY <1>1, <1>7 DEF AvailInv, CacheIsPending, ToDrop
<1>9. ScreenIsPending'
  BY <1>1, <1>7 DEF AvailInv, ScreenIsPending
<1>10. RunsFit'
  BY <1>1 DEF AvailInv, RunsFit
<1> QED
  BY <1>5, <1>6, <1>8, <1>9, <1>10 DEF AvailInv

LEMMA HandGoesTo ==
  ASSUME NEW h \in Hands, NEW at \in {"record", "nudge"}
  PROVE  /\ [h EXCEPT !.at = at] \in Hands /\ [h EXCEPT !.at = at].at = at
         /\ [h EXCEPT !.at = at].note = h.note
         /\ [at |-> "idle", note |-> NoNote] \in Hands
BY DEF Hands

LEMMA DropStoredStep ==
  ASSUME AvailInv, A!DropStored
  PROVE  AvailInv'
<1>1. /\ hand.at = "drop" /\ hand' = [hand EXCEPT !.at = "record"]
      /\ UNCHANGED <<caching, version, owed, notes, lastver, latest, timer, client,
                     fetch, inflight>>
  BY DEF A!DropStored, A!pushed
<1>2. hand' \in Hands /\ hand'.at = "record" /\ hand'.note = hand.note
  BY <1>1, HandGoesTo DEF AvailInv, AvailFits
<1>3. /\ snapshot' \in Snapshots /\ etag' \in Etags /\ availPast' \in Pasts
      /\ availPast'.lost = availPast.lost /\ availPast'.late = availPast.late
      /\ availPast'.kept \/ (snapshot'.is = "none" /\ etag' = "none")
  <2>1. CASE A!Invalidate /\ UNCHANGED availPast
    BY <2>1, IdleRun DEF A!Invalidate, AvailInv, AvailFits, Etags
  <2>2. CASE /\ availPast' = [availPast EXCEPT !.kept = TRUE]
             /\ snapshot' \in {snapshot, A!None} /\ etag' \in {etag, "none"}
    <3>1. availPast \in Pasts /\ etag \in Etags /\ snapshot \in Snapshots
      BY DEF AvailInv, AvailFits
    <3>2. /\ [availPast EXCEPT !.kept = TRUE] \in Pasts /\ [availPast EXCEPT !.kept = TRUE].kept
          /\ [availPast EXCEPT !.kept = TRUE].lost = availPast.lost
          /\ [availPast EXCEPT !.kept = TRUE].late = availPast.late
      BY <3>1 DEF Pasts
    <3> QED
      BY <2>2, <3>1, <3>2, IdleRun DEF Etags
  <2> QED
    BY <2>1, <2>2 DEF A!DropStored
<1>4. AvailFits'
  BY <1>1, <1>2, <1>3 DEF AvailInv, AvailFits
<1>5. ChangesFit'
  BY <1>1, <1>2 DEF AvailInv, ChangesFit
<1>6. \A t \in Types : Coming(t)' = Coming(t) /\ InHand(t)' = InHand(t)
  BY <1>1, <1>2 DEF Coming, InHand
<1> QED
  BY <1>1, <1>2, <1>3, <1>4, <1>5, <1>6, AvailGoesOn DEF ToDrop

LEMMA RecordVersionStep ==
  ASSUME AvailInv, A!RecordVersion
  PROVE  AvailInv'
<1>1. /\ hand.at = "record" /\ hand' = [hand EXCEPT !.at = "nudge"]
      /\ lastver' \in {lastver, [lastver EXCEPT ![hand.note.t] = hand.note.v]}
      /\ UNCHANGED <<caching, version, owed, notes, snapshot, etag, latest, timer, client,
                     fetch, inflight, availPast>>
  BY DEF A!RecordVersion, A!pushed, A!stored
<1>2. hand' \in Hands /\ hand'.at = "nudge" /\ hand'.note = hand.note
  BY <1>1, HandGoesTo DEF AvailInv, AvailFits
<1>3. /\ hand.note \in A!Changes /\ hand.note.v <= version[hand.note.t]
      /\ hand.note \notin owed \cup notes
  BY <1>1 DEF AvailInv, ChangesFit
<1>4. hand.note.t \in Types /\ hand.note.v \in A!Versions /\ hand.note.v \in Nat
  BY <1>3, ChangeIs
<1>5. /\ lastver' \in A!PerType
      /\ \A t \in Types : lastver'[t] = lastver[t] \/ (t = hand.note.t /\ lastver'[t] = hand.note.v)
  BY <1>1, <1>4 DEF AvailInv, AvailFits, A!PerType
<1>6. AvailFits'
  BY <1>1, <1>2, <1>5 DEF AvailInv, AvailFits
<1>7. ChangesFit'
  <2>1. \A t \in Types : lastver'[t] <= version[t]
    BY <1>3, <1>5 DEF AvailInv, ChangesFit
  <2> QED
    BY <1>1, <1>2, <2>1 DEF AvailInv, ChangesFit
<1>8. ASSUME NEW t \in Types, Coming(t) PROVE Coming(t)'
  <2>1. PICK d \in owed \cup notes : d.t = t /\ d.v = version[t] /\ lastver[t] < version[t]
    BY <1>8 DEF Coming
  <2>2. d \in A!Changes /\ version[t] \in Nat
    BY <2>1, VersionIs DEF AvailInv, AvailFits, A!PerType
  <2>3. t = hand.note.t => hand.note.v < version[t]
    BY <1>3, <1>4, <2>1, <2>2, ChangeIs
  <2>4. lastver'[t] < version[t]
    BY <1>5, <2>1, <2>3
  <2> QED
    BY <1>1, <2>1, <2>4 DEF Coming
<1>9. \A t \in Types : InHand(t)' = InHand(t)
  BY <1>1, <1>2 DEF InHand
<1> QED
  BY <1>1, <1>2, <1>6, <1>7, <1>8, <1>9, AvailGoesOn DEF ToDrop

LEMMA NudgeStep ==
  ASSUME AvailInv, A!Nudge
  PROVE  AvailInv'
<1>1. /\ hand.at = "nudge" /\ hand' = [at |-> "idle", note |-> NoNote]
      /\ latest' = hand.note.v
      /\ timer' = IF client.listed /\ ~timer.set THEN [set |-> TRUE, hint |-> hand.note.v] ELSE timer
      /\ UNCHANGED <<caching, version, owed, notes, lastver, snapshot, etag, client, fetch,
                     inflight, availPast>>
  BY DEF A!Nudge, A!stored
<1>2. hand' \in Hands /\ hand'.at = "idle"
  BY <1>1, HandGoesTo DEF Hands
<1>3. hand.note.v \in A!Versions
  BY <1>1, ChangeIs DEF AvailInv, ChangesFit
<1>4. timer' \in Timers /\ (client.listed => timer'.set) /\ (timer.set => timer'.set)
  BY <1>1, <1>3 DEF AvailInv, AvailFits, Timers
<1>5. AvailFits'
  BY <1>1, <1>2, <1>3, <1>4 DEF AvailInv, AvailFits
<1>6. ChangesFit'
  BY <1>1, <1>2 DEF AvailInv, ChangesFit
<1>7. \A t \in Types : Coming(t)' = Coming(t)
  BY <1>1 DEF Coming
<1> QED
  BY <1>1, <1>2, <1>4, <1>5, <1>6, <1>7, AvailGoesOn DEF ToDrop

LEMMA HandlerFailsStep ==
  ASSUME AvailInv, A!HandlerFails
  PROVE  AvailInv'
<1>1. /\ hand.at # "idle" /\ hand' = [at |-> "idle", note |-> NoNote]
      /\ notes' = notes \cup {hand.note}
      /\ availPast' = [availPast EXCEPT !.lost = @ \/ lastver[hand.note.t] >= hand.note.v]
      /\ UNCHANGED <<caching, version, owed, lastver, snapshot, etag, latest, timer, client,
                     fetch, inflight>>
  BY DEF A!HandlerFails, A!stored, A!pushed
<1>2. hand' \in Hands /\ hand'.at = "idle"
  BY <1>1 DEF Hands
<1>3. /\ hand.note \in A!Changes /\ hand.note.v <= version[hand.note.t]
      /\ hand.note \notin owed \cup notes
  BY <1>1 DEF AvailInv, ChangesFit
<1>4. hand.note.t \in Types /\ hand.note.v \in Nat /\ lastver[hand.note.t] \in Nat
  BY <1>3, ChangeIs, VersionIs DEF AvailInv, AvailFits, A!PerType
<1>5. PICK x \in BOOLEAN : x = (availPast.lost \/ lastver[hand.note.t] >= hand.note.v)
  OBVIOUS
<1>6. /\ availPast' \in Pasts /\ availPast'.lost = x
      /\ availPast'.kept = availPast.kept /\ availPast'.late = availPast.late
  <2>1. availPast' = [availPast EXCEPT !.lost = x]
    BY <1>1, <1>5
  <2> QED
    <3>1. availPast \in Pasts
      BY DEF AvailInv, AvailFits
    <3>2. /\ [availPast EXCEPT !.lost = x] \in Pasts /\ [availPast EXCEPT !.lost = x].lost = x
          /\ [availPast EXCEPT !.lost = x].kept = availPast.kept
          /\ [availPast EXCEPT !.lost = x].late = availPast.late
      BY <3>1 DEF Pasts
    <3> QED
      BY <2>1, <3>2
<1>7. AvailFits'
  BY <1>1, <1>2, <1>3, <1>6 DEF AvailInv, AvailFits
<1>8. ChangesFit'
  BY <1>1, <1>2, <1>3 DEF AvailInv, ChangesFit
<1>9. \A t \in Types : Coming(t) => Coming(t)'
  BY <1>1 DEF Coming
<1>10. ASSUME NEW t \in Types, InHand(t), lastver[hand.note.t] < hand.note.v PROVE Coming(t)'
  BY <1>1, <1>10 DEF Coming, InHand
<1>11. lastver[hand.note.t] < hand.note.v \/ lastver[hand.note.t] >= hand.note.v
  BY <1>4
<1>12. ASSUME NEW t \in Types, ToDrop(t) PROVE Coming(t)'
  <2>1. InHand(t) /\ lastver[t] < version[t]
    BY <1>12 DEF ToDrop
  <2> QED
    BY <1>1, <2>1 DEF Coming, InHand
<1> QED
  BY <1>1, <1>5, <1>6, <1>7, <1>8, <1>9, <1>10, <1>11, <1>12, AvailGoesOn

-----------------------------------------------------------------------------
\* What will bring the screen up to date: a timer that is set, or a run that
\* has read what is, and that a push waits for.
WillShow == timer.set \/ \E f \in Fetches : "held" \in fetch[f].push /\ fetch[f].seen # "stale"

LEMMA RunsGoOn ==
  ASSUME AvailInv, AvailFits', RunsFit', UNCHANGED <<version, lastver, owed, notes, hand>>,
         ~availPast'.kept /\ (snapshot'.is = "stale" \/ etag' = "stale") =>
           ~availPast.kept /\ (snapshot.is = "stale" \/ etag = "stale"),
         client'.listed /\ client'.shown = "stale" /\ ~availPast'.lost /\ ~availPast'.late =>
           \/ WillShow'
           \/ /\ client.listed /\ client.shown = "stale" /\ ~availPast.lost /\ ~availPast.late
              /\ ~WillShow
  PROVE  AvailInv'
<1>1. /\ ChangesFit'
      /\ \A t \in Types : /\ Coming(t)' = Coming(t) /\ InHand(t)' = InHand(t)
                          /\ ToDrop(t)' = ToDrop(t)
  BY ChangesStay
<1>2. CacheIsPending'
  BY <1>1 DEF AvailInv, CacheIsPending
<1>3. ScreenIsPending'
  BY <1>1 DEF AvailInv, ScreenIsPending, WillShow
<1> QED
  BY <1>1, <1>2, <1>3 DEF AvailInv

\* A run takes a step, which leaves it under way.
LEMMA RunTakes ==
  ASSUME AvailInv, NEW f \in Fetches, NEW new \in Runs,
         fetch' = [fetch EXCEPT ![f] = new], new.at \notin {"idle", "look"},
         new.at = "counters" => new.seen = "fresh", inflight' \in {inflight, f}
  PROVE  /\ fetch' \in [Fetches -> Runs] /\ fetch'[f] = new
         /\ \A g \in Fetches : g # f => fetch'[g] = fetch[g]
         /\ inflight' \in Fetches \cup {NoFetch} /\ RunsFit'
<1>1. /\ fetch' \in [Fetches -> Runs] /\ fetch'[f] = new
      /\ \A g \in Fetches : g # f => fetch'[g] = fetch[g]
  BY DEF AvailInv, AvailFits
<1>2. inflight' \in Fetches \cup {NoFetch}
  BY DEF AvailInv, AvailFits
<1>3. RunsFit'
  BY <1>1, <1>2 DEF AvailInv, AvailFits, RunsFit, A!Unread
<1> QED
  BY <1>1, <1>2, <1>3

LEMMA StartIs ==
  ASSUME AvailInv, NEW min \in A!Versions, NEW sinks \in SUBSET A!Sinks, A!Start(min, sinks)
  PROVE  /\ fetch' \in [Fetches -> Runs] /\ inflight' \in Fetches \cup {NoFetch} /\ RunsFit'
         /\ \E f \in Fetches :
              /\ fetch'[f].push = sinks /\ fetch'[f].seen = "fresh" /\ fetch[f].push = {}
              /\ \A g \in Fetches : g # f => fetch'[g] = fetch[g]
<1>1. PICK f \in Fetches :
        /\ fetch[f].at = "idle" /\ inflight' = f
        /\ fetch' = [fetch EXCEPT ![f] = [A!Idle EXCEPT !.at = "counters", !.min = min,
                                                       !.push = sinks]]
  BY DEF A!Start
<1>2. PICK new \in Runs :
        /\ new = [A!Idle EXCEPT !.at = "counters", !.min = min, !.push = sinks]
        /\ new.at = "counters" /\ new.push = sinks /\ new.seen = "fresh"
  <2>1. [A!Idle EXCEPT !.at = "counters", !.min = min, !.push = sinks] \in Runs
    BY IdleRun DEF Runs, A!Unread
  <2>2. /\ [A!Idle EXCEPT !.at = "counters", !.min = min, !.push = sinks].at = "counters"
        /\ [A!Idle EXCEPT !.at = "counters", !.min = min, !.push = sinks].push = sinks
        /\ [A!Idle EXCEPT !.at = "counters", !.min = min, !.push = sinks].seen = "fresh"
    BY IdleRun DEF Runs
  <2> QED
    BY <2>1, <2>2
<1>3. fetch' = [fetch EXCEPT ![f] = new]
  BY <1>1, <1>2
<1>4. /\ fetch' \in [Fetches -> Runs] /\ fetch'[f] = new
      /\ \A g \in Fetches : g # f => fetch'[g] = fetch[g]
      /\ inflight' \in Fetches \cup {NoFetch} /\ RunsFit'
  BY <1>1, <1>2, <1>3, RunTakes
<1>5. fetch[f].push = {}
  BY <1>1 DEF AvailInv, RunsFit
<1> QED
  BY <1>2, <1>4, <1>5

LEMMA QueryStep ==
  ASSUME AvailInv, NEW min \in A!Versions, NEW force \in BOOLEAN, A!Query(min, force)
  PROVE  AvailInv'
<1>1. UNCHANGED <<caching, version, owed, notes, lastver, hand, snapshot, etag, latest, timer,
                  client, availPast>>
  BY DEF A!Query, A!noted, A!stored, A!pushed
<1>2. PICK least \in A!Versions : A!Start(least, {})
  BY EffectiveIs DEF A!Query, AvailInv
<1>3. /\ fetch' \in [Fetches -> Runs] /\ inflight' \in Fetches \cup {NoFetch} /\ RunsFit'
      /\ \E f \in Fetches : /\ fetch'[f].push = {} /\ fetch[f].push = {}
                            /\ \A g \in Fetches : g # f => fetch'[g] = fetch[g]
  BY <1>2, StartIs
<1>4. AvailFits'
  BY <1>1, <1>3 DEF AvailInv, AvailFits
<1>5. WillShow => WillShow'
  BY <1>1, <1>3 DEF WillShow
<1> QED
  BY <1>1, <1>3, <1>4, <1>5, RunsGoOn

LEMMA ConnectStep ==
  ASSUME AvailInv, A!Connect
  PROVE  AvailInv'
<1>1. UNCHANGED <<caching, version, owed, notes, lastver, hand, snapshot, etag, latest, fetch,
                  inflight, availPast>>
  BY DEF A!Connect, A!noted, A!stored
<1>2. client' \in Clients /\ timer' \in Timers /\ timer'.set
  <2>1. client \in Clients /\ latest \in A!Versions /\ timer \in Timers
    BY DEF AvailInv, AvailFits
  <2>2. [set |-> TRUE, hint |-> latest] \in Timers
    BY <2>1 DEF Timers
  <2>3. [client EXCEPT !.on = TRUE, !.listed = TRUE] \in Clients
    BY <2>1 DEF Clients
  <2> QED
    BY <2>1, <2>2, <2>3 DEF A!Connect
<1>3. AvailFits' /\ RunsFit'
  BY <1>1, <1>2 DEF AvailInv, AvailFits, RunsFit
<1> QED
  BY <1>1, <1>2, <1>3, RunsGoOn DEF WillShow

LEMMA DisconnectStep ==
  ASSUME AvailInv, A!Disconnect
  PROVE  AvailInv'
<1> DEFINE Left(p) == IF client.listed /\ "held" \in p THEN {"left"} ELSE p \ {"held"}
<1>1. /\ UNCHANGED <<caching, version, owed, notes, lastver, hand, snapshot, etag, timer,
                     inflight, availPast>>
      /\ client' = [client EXCEPT !.on = FALSE, !.listed = FALSE]
      /\ latest' = IF client.listed THEN 0 ELSE latest
      /\ fetch' = [f \in Fetches |-> [fetch[f] EXCEPT !.push = Left(@)]]
  BY DEF A!Disconnect, A!noted, A!stored
<1>2. client' \in Clients /\ ~client'.listed /\ latest' \in A!Versions
  <2>1. 0 \in A!Versions
    BY TypesAssumption DEF A!Versions
  <2>2. client \in Clients /\ latest \in A!Versions
    BY DEF AvailInv, AvailFits
  <2> QED
    BY <1>1, <2>1, <2>2 DEF Clients
<1>3. ASSUME NEW f \in Fetches
      PROVE  /\ fetch'[f] \in Runs /\ fetch'[f].at = fetch[f].at
             /\ fetch'[f].seen = fetch[f].seen
             /\ fetch[f].push = {} => fetch'[f].push = {}
  <2>1. fetch[f] \in Runs /\ fetch[f].push \in SUBSET A!Sinks
    BY DEF AvailInv, AvailFits, Runs
  <2>2. PICK p \in SUBSET A!Sinks : p = Left(fetch[f].push)
    BY <2>1 DEF A!Sinks
  <2>3. fetch'[f] = [fetch[f] EXCEPT !.push = p]
    BY <1>1, <2>2
  <2>4. /\ [fetch[f] EXCEPT !.push = p] \in Runs
        /\ [fetch[f] EXCEPT !.push = p].at = fetch[f].at
        /\ [fetch[f] EXCEPT !.push = p].seen = fetch[f].seen
        /\ [fetch[f] EXCEPT !.push = p].push = p
    BY <2>1 DEF Runs
  <2>5. fetch[f].push = {} => p = {}
    BY <2>2
  <2> HIDE DEF Left
  <2> QED
    BY <2>3, <2>4, <2>5
<1>4. fetch' \in [Fetches -> Runs]
  <2>1. fetch' = [f \in Fetches |-> fetch'[f]]
    BY <1>1
  <2> QED
    BY <1>3, <2>1
<1>5. AvailFits'
  BY <1>1, <1>2, <1>4 DEF AvailInv, AvailFits
<1>6. RunsFit'
  <2>1. \A f \in Fetches :
          /\ fetch'[f].at = "idle" => fetch'[f].push = {}
          /\ fetch'[f].at \in A!Unread => fetch'[f].seen = "fresh"
    BY <1>3 DEF AvailInv, RunsFit
  <2>2. inflight' # NoFetch => fetch'[inflight'].at \notin {"idle", "look"}
    BY <1>1, <1>3 DEF AvailInv, AvailFits, RunsFit
  <2> QED
    BY <2>1, <2>2 DEF RunsFit
<1> QED
  BY <1>1, <1>2, <1>5, <1>6, RunsGoOn

\* What a client is given.
LEMMA ShowIs ==
  ASSUME AvailFits, NEW sinks \in SUBSET A!Sinks, NEW seen \in A!Counts, NEW late \in BOOLEAN,
         A!Show(sinks, seen, late)
  PROVE  /\ client' \in Clients /\ availPast' \in Pasts /\ latest' \in A!Versions
         /\ availPast'.kept = availPast.kept /\ availPast'.lost = availPast.lost
         /\ client'.listed => client.listed
         /\ "held" \in sinks =>
              /\ client'.shown = seen
              /\ availPast'.late = (late \/ (client.shown # "stale" /\ seen = "stale"))
         /\ "held" \notin sinks => client'.shown = client.shown /\ availPast' = availPast
<1>1. client \in Clients /\ availPast \in Pasts /\ latest \in A!Versions /\ 0 \in A!Versions
  BY TypesAssumption DEF AvailFits, A!Versions
<1>2. PICK screen \in A!Counts, listed \in BOOLEAN :
        /\ client' = [client EXCEPT !.shown = screen, !.listed = listed]
        /\ screen = IF "held" \in sinks THEN seen ELSE client.shown
        /\ listed => client.listed
  <2>1. PICK screen \in A!Counts : screen = IF "held" \in sinks THEN seen ELSE client.shown
    BY <1>1 DEF Clients
  <2>2. PICK listed \in BOOLEAN : listed = (client.listed /\ "left" \notin sinks)
    OBVIOUS
  <2> QED
    BY <2>1, <2>2 DEF A!Show
<1>3. client' \in Clients /\ client'.shown = screen /\ client'.listed = listed
  BY <1>1, <1>2 DEF Clients
<1>4. latest' \in A!Versions
  BY <1>1 DEF A!Show
<1>5. /\ availPast' \in Pasts
      /\ availPast'.kept = availPast.kept /\ availPast'.lost = availPast.lost
      /\ "held" \in sinks =>
           availPast'.late = (late \/ (client.shown # "stale" /\ seen = "stale"))
      /\ "held" \notin sinks => availPast' = availPast
  <2>1. PICK x \in BOOLEAN : x = (late \/ (client.shown # "stale" /\ seen = "stale"))
    OBVIOUS
  <2>2. availPast' = IF "held" \in sinks THEN [availPast EXCEPT !.late = x] ELSE availPast
    BY <2>1 DEF A!Show
  <2>3. /\ [availPast EXCEPT !.late = x] \in Pasts /\ [availPast EXCEPT !.late = x].late = x
        /\ [availPast EXCEPT !.late = x].kept = availPast.kept
        /\ [availPast EXCEPT !.late = x].lost = availPast.lost
    BY <1>1 DEF Pasts
  <2> QED
    BY <1>1, <2>1, <2>2, <2>3
<1> QED
  BY <1>2, <1>3, <1>4, <1>5

LEMMA LosePushIs ==
  ASSUME AvailInv, NEW sinks \in SUBSET A!Sinks, A!LosePush(sinks)
  PROVE  /\ availPast' \in Pasts /\ availPast'.lost = (availPast.lost \/ "held" \in sinks)
         /\ availPast'.kept = availPast.kept /\ availPast'.late = availPast.late
<1>1. availPast \in Pasts
  BY DEF AvailInv, AvailFits
<1>2. PICK x \in BOOLEAN : x = (availPast.lost \/ "held" \in sinks)
  OBVIOUS
<1>3. availPast' = [availPast EXCEPT !.lost = x]
  BY <1>2 DEF A!LosePush
<1>4. /\ availPast' \in Pasts /\ availPast'.lost = x
      /\ availPast'.kept = availPast.kept /\ availPast'.late = availPast.late
  BY <1>1, <1>3 DEF Pasts
<1> QED
  BY <1>2, <1>4

\* A push joins the run that goes on, which no longer is idle, nor is it a push
\* that looks into the cache.
LEMMA JoinIs ==
  ASSUME AvailInv, NEW min \in A!Versions, NEW sinks \in SUBSET A!Sinks,
         NEW runs \in [Fetches -> Runs], A!Joins(min), A!Join(min, runs, sinks),
         \A f \in Fetches : runs[f] \in {fetch[f], A!Idle},
         runs[inflight] = fetch[inflight]
  PROVE  /\ fetch' \in [Fetches -> Runs] /\ inflight' \in Fetches \cup {NoFetch} /\ RunsFit'
         /\ availPast' \in Pasts
         /\ availPast'.kept = availPast.kept /\ availPast'.lost = availPast.lost
         /\ "held" \notin sinks => availPast' = availPast
         /\ "held" \in sinks =>
              availPast'.late \/ \E f \in Fetches : /\ "held" \in fetch'[f].push
                                                    /\ fetch'[f].seen # "stale"
         /\ \A g \in Fetches : runs[g] = fetch[g] =>
              fetch'[g].seen = fetch[g].seen /\ fetch[g].push \subseteq fetch'[g].push
<1>1. PICK f \in Fetches : /\ f = inflight /\ min <= fetch[f].min
                           /\ fetch[f].at \notin {"idle", "look"} /\ runs[f] = fetch[f]
  BY DEF A!Joins, AvailInv, AvailFits, RunsFit
<1>2. fetch[f] \in Runs
  BY DEF AvailInv, AvailFits
<1>3. PICK new \in Runs :
        /\ new = [runs[f] EXCEPT !.push = @ \cup sinks]
        /\ new.at = fetch[f].at /\ new.seen = fetch[f].seen
        /\ new.push = fetch[f].push \cup sinks
  <2>1. PICK p \in SUBSET A!Sinks : p = fetch[f].push \cup sinks
    BY <1>2 DEF Runs
  <2>2. /\ [fetch[f] EXCEPT !.push = p] \in Runs
        /\ [fetch[f] EXCEPT !.push = p].at = fetch[f].at
        /\ [fetch[f] EXCEPT !.push = p].seen = fetch[f].seen
        /\ [fetch[f] EXCEPT !.push = p].push = p
    BY <1>2 DEF Runs
  <2> QED
    BY <1>1, <2>1, <2>2
<1>4. /\ fetch' = [runs EXCEPT ![f] = new] /\ inflight' = inflight
  BY <1>1, <1>3 DEF A!Join
<1>5. /\ fetch' \in [Fetches -> Runs] /\ fetch'[f] = new
      /\ \A g \in Fetches : g # f => fetch'[g] = runs[g]
  BY <1>4
<1>6. RunsFit'
  <2>1. ASSUME NEW g \in Fetches
        PROVE  /\ fetch'[g].at = "idle" => fetch'[g].push = {}
               /\ fetch'[g].at \in A!Unread => fetch'[g].seen = "fresh"
    <3>1. CASE g = f
      BY <1>1, <1>3, <1>5, <3>1 DEF AvailInv, RunsFit
    <3>2. CASE g # f
      BY <1>5, <3>2, IdleRun DEF AvailInv, RunsFit
    <3> QED
      BY <3>1, <3>2
  <2>2. inflight' # NoFetch => fetch'[inflight'].at \notin {"idle", "look"}
    BY <1>1, <1>3, <1>4, <1>5
  <2> QED
    BY <2>1, <2>2 DEF RunsFit
<1>7. /\ availPast' \in Pasts
      /\ availPast'.kept = availPast.kept /\ availPast'.lost = availPast.lost
      /\ "held" \notin sinks => availPast' = availPast
      /\ "held" \in sinks => availPast'.late = (fetch[f].seen = "stale")
  <2>1. PICK x \in BOOLEAN : x = (min <= runs[f].min /\ runs[f].seen = "stale")
    OBVIOUS
  <2>2. availPast' = IF "held" \in sinks THEN [availPast EXCEPT !.late = x] ELSE availPast
    BY <1>1, <2>1 DEF A!Join
  <2>3. availPast \in Pasts
    BY DEF AvailInv, AvailFits
  <2>4. /\ [availPast EXCEPT !.late = x] \in Pasts /\ [availPast EXCEPT !.late = x].late = x
        /\ [availPast EXCEPT !.late = x].kept = availPast.kept
        /\ [availPast EXCEPT !.late = x].lost = availPast.lost
    BY <2>3 DEF Pasts
  <2> QED
    BY <1>1, <2>1, <2>2, <2>3, <2>4
<1>8. "held" \in sinks =>
        availPast'.late \/ \E g \in Fetches : "held" \in fetch'[g].push /\ fetch'[g].seen # "stale"
  BY <1>3, <1>5, <1>7
<1>9. \A g \in Fetches : runs[g] = fetch[g] =>
        fetch'[g].seen = fetch[g].seen /\ fetch[g].push \subseteq fetch'[g].push
  BY <1>3, <1>5
<1>10. inflight' \in Fetches \cup {NoFetch}
  BY <1>1, <1>4
<1> QED
  BY <1>5, <1>6, <1>7, <1>8, <1>9, <1>10

LEMMA PushStep ==
  ASSUME AvailInv, A!Push
  PROVE  AvailInv'
<1> DEFINE min == IF latest # 0 THEN latest ELSE timer.hint
<1>1. /\ UNCHANGED <<caching, version, owed, notes, lastver, hand, snapshot, etag, latest,
                     client>>
      /\ timer' = A!NoTimer
  BY DEF A!Push, A!noted, A!stored
<1>2. min \in A!Versions
  BY DEF AvailInv, AvailFits, Timers
<1>3. timer' \in Timers /\ {"held"} \in SUBSET A!Sinks
  BY <1>1, IdleRun DEF A!Sinks
<1>4. \/ ~client.listed /\ UNCHANGED <<fetch, inflight, availPast>>
      \/ /\ UNCHANGED <<inflight, availPast>>
         /\ \E f \in Fetches :
              /\ fetch[f].at = "idle"
              /\ fetch' = [fetch EXCEPT ![f] = [A!Idle EXCEPT !.at = "look", !.min = min,
                                                             !.push = {"held"}]]
      \/ A!LosePush({"held"}) /\ UNCHANGED <<fetch, inflight>>
      \/ A!Joins(min) /\ A!Join(min, fetch, {"held"})
      \/ A!Start(A!Effective(min), {"held"}) /\ UNCHANGED availPast
  BY DEF A!Push
<1> HIDE DEF min
<1>5. CASE ~client.listed /\ UNCHANGED <<fetch, inflight, availPast>>
  <2>1. AvailFits' /\ RunsFit'
    BY <1>1, <1>3, <1>5 DEF AvailInv, AvailFits, RunsFit
  <2> QED
    BY <1>1, <1>5, <2>1, RunsGoOn
<1>6. CASE /\ UNCHANGED <<inflight, availPast>>
           /\ \E f \in Fetches :
                /\ fetch[f].at = "idle"
                /\ fetch' = [fetch EXCEPT ![f] = [A!Idle EXCEPT !.at = "look", !.min = min,
                                                               !.push = {"held"}]]
  <2>1. PICK f \in Fetches :
          /\ fetch[f].at = "idle"
          /\ fetch' = [fetch EXCEPT ![f] = [A!Idle EXCEPT !.at = "look", !.min = min,
                                                         !.push = {"held"}]]
    BY <1>6
  <2>2. PICK new \in Runs :
          /\ new = [A!Idle EXCEPT !.at = "look", !.min = min, !.push = {"held"}]
          /\ new.at = "look" /\ new.push = {"held"} /\ new.seen = "fresh"
    <3>1. [A!Idle EXCEPT !.at = "look", !.min = min, !.push = {"held"}] \in Runs
      BY <1>2, <1>3, IdleRun DEF Runs, A!Unread
    <3>2. /\ [A!Idle EXCEPT !.at = "look", !.min = min, !.push = {"held"}].at = "look"
          /\ [A!Idle EXCEPT !.at = "look", !.min = min, !.push = {"held"}].push = {"held"}
          /\ [A!Idle EXCEPT !.at = "look", !.min = min, !.push = {"held"}].seen = "fresh"
      BY IdleRun DEF Runs
    <3> QED
      BY <3>1, <3>2
  <2>3. fetch' = [fetch EXCEPT ![f] = new]
    BY <2>1, <2>2
  <2>4. /\ fetch' \in [Fetches -> Runs] /\ fetch'[f] = new
        /\ \A g \in Fetches : g # f => fetch'[g] = fetch[g]
    BY <2>3 DEF AvailInv, AvailFits
  <2>5. RunsFit'
    <3>1. \A g \in Fetches : /\ fetch'[g].at = "idle" => fetch'[g].push = {}
                             /\ fetch'[g].at \in A!Unread => fetch'[g].seen = "fresh"
      BY <2>2, <2>4 DEF AvailInv, RunsFit
    <3>2. inflight' # NoFetch => inflight # f /\ inflight' = inflight /\ inflight \in Fetches
      BY <1>6, <2>1 DEF AvailInv, AvailFits, RunsFit
    <3>3. inflight' # NoFetch => fetch'[inflight'].at \notin {"idle", "look"}
      BY <2>4, <3>2 DEF AvailInv, RunsFit
    <3> QED
      BY <3>1, <3>3 DEF RunsFit
  <2>6. AvailFits'
    BY <1>1, <1>3, <1>6, <2>4 DEF AvailInv, AvailFits
  <2>7. WillShow'
    BY <2>2, <2>4 DEF WillShow
  <2> QED
    BY <1>1, <1>6, <2>5, <2>6, <2>7, RunsGoOn
<1>7. CASE A!Joins(min) /\ A!Join(min, fetch, {"held"})
  <2>1. fetch \in [Fetches -> Runs]
    BY DEF AvailInv, AvailFits
  <2>2. /\ fetch' \in [Fetches -> Runs] /\ inflight' \in Fetches \cup {NoFetch} /\ RunsFit'
        /\ availPast' \in Pasts /\ availPast'.kept = availPast.kept
        /\ availPast'.late \/ \E f \in Fetches : /\ "held" \in fetch'[f].push
                                                 /\ fetch'[f].seen # "stale"
    BY <1>2, <1>3, <1>7, <2>1, JoinIs
  <2>3. AvailFits'
    BY <1>1, <1>3, <2>2 DEF AvailInv, AvailFits
  <2> QED
    BY <1>1, <2>2, <2>3, RunsGoOn DEF WillShow
<1>8. CASE A!Start(A!Effective(min), {"held"}) /\ UNCHANGED availPast
  <2>1. PICK least \in A!Versions : A!Start(least, {"held"})
    BY <1>2, <1>8, EffectiveIs DEF AvailInv
  <2>2. /\ fetch' \in [Fetches -> Runs] /\ inflight' \in Fetches \cup {NoFetch} /\ RunsFit'
        /\ \E f \in Fetches : fetch'[f].push = {"held"} /\ fetch'[f].seen = "fresh"
    BY <1>3, <2>1, StartIs
  <2>3. AvailFits'
    BY <1>1, <1>3, <1>8, <2>2 DEF AvailInv, AvailFits
  <2>4. WillShow'
    BY <2>2 DEF WillShow
  <2> QED
    BY <1>1, <1>8, <2>2, <2>3, <2>4, RunsGoOn
<1>9. CASE A!LosePush({"held"}) /\ UNCHANGED <<fetch, inflight>>
  <2>1. /\ availPast' \in Pasts /\ availPast'.lost /\ availPast'.kept = availPast.kept
    BY <1>3, <1>9, LosePushIs
  <2>2. AvailFits' /\ RunsFit'
    BY <1>1, <1>3, <1>9, <2>1 DEF AvailInv, AvailFits, RunsFit
  <2> QED
    BY <1>1, <2>1, <2>2, RunsGoOn
<1> QED
  BY <1>4, <1>5, <1>6, <1>7, <1>8, <1>9

\* The push at f has its answer from the cache: it shows what it found, joins a
\* run or becomes one.
LEMMA LookUpStep ==
  ASSUME AvailInv, NEW f \in Fetches, A!LookUp(f)
  PROVE  AvailInv'
<1>1. /\ UNCHANGED <<caching, version, owed, notes, lastver, hand, snapshot, etag, timer>>
      /\ fetch[f].at = "look"
  BY DEF A!LookUp, A!noted, A!stored
<1>2. /\ fetch[f] \in Runs /\ fetch \in [Fetches -> Runs] /\ fetch[f].min \in A!Versions
      /\ fetch[f].push \in SUBSET A!Sinks
  BY DEF AvailInv, AvailFits, Runs
<1>3. PICK min \in A!Versions : min = fetch[f].min
  BY <1>2
<1>4. PICK sinks \in SUBSET A!Sinks : sinks = fetch[f].push
  BY <1>2
<1>5. PICK rest \in [Fetches -> Runs] :
        /\ rest = [fetch EXCEPT ![f] = A!Idle] /\ rest[f] = A!Idle
        /\ \A g \in Fetches : g # f => rest[g] = fetch[g]
  <2>1. [fetch EXCEPT ![f] = A!Idle] \in [Fetches -> Runs]
    BY <1>2, IdleRun
  <2> QED
    BY <1>2, <2>1
<1>6. (inflight # NoFetch => inflight # f) /\ inflight \in Fetches \cup {NoFetch}
  BY <1>1 DEF AvailInv, AvailFits, RunsFit
<1>7. \/ /\ A!Hit(min) /\ fetch' = rest /\ UNCHANGED inflight
         /\ A!Show(sinks, IF snapshot.is = "fresh" THEN "fresh" ELSE "stale",
                   snapshot.is # "fresh")
      \/ A!LosePush(sinks) /\ fetch' = rest /\ UNCHANGED <<client, latest, inflight>>
      \/ A!Joins(min) /\ A!Join(min, rest, sinks) /\ UNCHANGED <<client, latest>>
      \/ /\ fetch' = [fetch EXCEPT ![f].at = "counters", ![f].min = A!Effective(min)]
         /\ inflight' = f /\ UNCHANGED <<client, latest, availPast>>
  BY <1>3, <1>4, <1>5 DEF A!LookUp
<1>8. ASSUME fetch' = rest, inflight' = inflight PROVE RunsFit'
  <2>1. \A g \in Fetches : /\ fetch'[g].at = "idle" => fetch'[g].push = {}
                           /\ fetch'[g].at \in A!Unread => fetch'[g].seen = "fresh"
    BY <1>5, <1>8, IdleRun DEF AvailInv, RunsFit
  <2>2. inflight' # NoFetch => fetch'[inflight'].at \notin {"idle", "look"}
    BY <1>5, <1>6, <1>8 DEF AvailInv, RunsFit
  <2> QED
    BY <2>1, <2>2 DEF RunsFit
<1>9. CASE /\ A!Hit(min) /\ fetch' = rest /\ UNCHANGED inflight
           /\ A!Show(sinks, IF snapshot.is = "fresh" THEN "fresh" ELSE "stale",
                     snapshot.is # "fresh")
  <2>1. PICK seen \in A!Counts, late \in BOOLEAN :
          A!Show(sinks, seen, late) /\ (seen = "fresh" \/ late)
    <3>1. PICK seen \in A!Counts : seen = IF snapshot.is = "fresh" THEN "fresh" ELSE "stale"
      BY DEF A!Counts
    <3>2. PICK late \in BOOLEAN : late = (snapshot.is # "fresh")
      OBVIOUS
    <3> QED
      BY <1>9, <3>1, <3>2
  <2>2. /\ client' \in Clients /\ availPast' \in Pasts /\ latest' \in A!Versions
        /\ availPast'.kept = availPast.kept /\ availPast'.lost = availPast.lost
        /\ client'.listed => client.listed
        /\ "held" \in sinks => client'.shown = "fresh" \/ availPast'.late
        /\ "held" \notin sinks => client'.shown = client.shown /\ availPast' = availPast
    BY <2>1, ShowIs DEF AvailInv
  <2>3. RunsFit'
    BY <1>9, <1>8
  <2>4. AvailFits'
    BY <1>1, <1>5, <1>6, <1>9, <2>2 DEF AvailInv, AvailFits
  <2>5. "held" \notin sinks => (WillShow => WillShow')
    BY <1>1, <1>4, <1>5, <1>9 DEF WillShow
  <2> QED
    BY <1>1, <2>2, <2>3, <2>4, <2>5, RunsGoOn
<1>10. CASE A!Joins(min) /\ A!Join(min, rest, sinks) /\ UNCHANGED <<client, latest>>
  <2>1. /\ \A g \in Fetches : rest[g] \in {fetch[g], A!Idle}
        /\ rest[inflight] = fetch[inflight]
    BY <1>5, <1>6, <1>10 DEF A!Joins
  <2>2. /\ fetch' \in [Fetches -> Runs] /\ inflight' \in Fetches \cup {NoFetch} /\ RunsFit'
        /\ availPast' \in Pasts
        /\ availPast'.kept = availPast.kept /\ availPast'.lost = availPast.lost
        /\ "held" \notin sinks => availPast' = availPast
        /\ "held" \in sinks =>
             availPast'.late \/ \E g \in Fetches : /\ "held" \in fetch'[g].push
                                                   /\ fetch'[g].seen # "stale"
        /\ \A g \in Fetches : rest[g] = fetch[g] =>
             fetch'[g].seen = fetch[g].seen /\ fetch[g].push \subseteq fetch'[g].push
    BY <1>10, <2>1, JoinIs
  <2>3. AvailFits'
    BY <1>1, <1>10, <2>2 DEF AvailInv, AvailFits
  <2>4. "held" \in sinks => availPast'.late \/ WillShow'
    BY <2>2 DEF WillShow
  <2>5. "held" \notin sinks => (WillShow => WillShow')
    BY <1>1, <1>4, <1>5, <2>2 DEF WillShow
  <2> QED
    BY <1>1, <1>10, <2>2, <2>3, <2>4, <2>5, RunsGoOn
<1>11. CASE /\ fetch' = [fetch EXCEPT ![f].at = "counters", ![f].min = A!Effective(min)]
            /\ inflight' = f /\ UNCHANGED <<client, latest, availPast>>
  <2>1. PICK least \in A!Versions : least = A!Effective(min)
    BY EffectiveIs DEF AvailInv
  <2>2. PICK new \in Runs :
          /\ new = [[fetch[f] EXCEPT !.at = "counters"] EXCEPT !.min = least]
          /\ new.at = "counters" /\ new.seen = fetch[f].seen /\ new.push = fetch[f].push
    <3>1. /\ [[fetch[f] EXCEPT !.at = "counters"] EXCEPT !.min = least] \in Runs
          /\ [[fetch[f] EXCEPT !.at = "counters"] EXCEPT !.min = least].at = "counters"
          /\ [[fetch[f] EXCEPT !.at = "counters"] EXCEPT !.min = least].seen = fetch[f].seen
          /\ [[fetch[f] EXCEPT !.at = "counters"] EXCEPT !.min = least].push = fetch[f].push
      BY <1>2 DEF Runs, A!Unread
    <3> QED
      BY <3>1
  <2>3. fetch' = [fetch EXCEPT ![f] = new]
    BY <1>2, <1>11, <2>1, <2>2
  <2>4. new.seen = "fresh"
    BY <1>1, <2>2 DEF AvailInv, RunsFit, A!Unread
  <2>5. /\ fetch' \in [Fetches -> Runs] /\ fetch'[f] = new
        /\ \A g \in Fetches : g # f => fetch'[g] = fetch[g]
        /\ inflight' \in Fetches \cup {NoFetch} /\ RunsFit'
    <3>1. inflight' \in {inflight, f} /\ new.at \notin {"idle", "look"}
      BY <1>11, <2>2
    <3> QED
      BY <2>2, <2>3, <2>4, <3>1, RunTakes
  <2>6. AvailFits'
    BY <1>1, <1>11, <2>5 DEF AvailInv, AvailFits
  <2>7. WillShow => WillShow'
    <3>1. ASSUME NEW g \in Fetches, "held" \in fetch[g].push, fetch[g].seen # "stale"
          PROVE  "held" \in fetch'[g].push /\ fetch'[g].seen # "stale"
      <4>1. CASE g = f
        BY <2>2, <2>5, <3>1, <4>1
      <4>2. CASE g # f
        BY <2>5, <3>1, <4>2
      <4> QED
        BY <4>1, <4>2
    <3>2. timer' = timer
      BY <1>1
    <3> QED
      BY <3>1, <3>2 DEF WillShow
  <2> QED
    BY <1>1, <1>11, <2>5, <2>6, <2>7, RunsGoOn
<1>12. CASE A!LosePush(sinks) /\ fetch' = rest /\ UNCHANGED <<client, latest, inflight>>
  <2>1. /\ availPast' \in Pasts /\ availPast'.lost = (availPast.lost \/ "held" \in sinks)
        /\ availPast'.kept = availPast.kept /\ availPast'.late = availPast.late
    BY <1>12, LosePushIs
  <2>2. RunsFit'
    BY <1>8, <1>12
  <2>3. AvailFits'
    BY <1>1, <1>5, <1>6, <1>12, <2>1 DEF AvailInv, AvailFits
  <2>4. "held" \notin sinks => (WillShow => WillShow')
    BY <1>1, <1>4, <1>5, <1>12 DEF WillShow
  <2> QED
    BY <1>1, <1>12, <2>1, <2>2, <2>3, <2>4, RunsGoOn
<1> QED
  BY <1>7, <1>9, <1>10, <1>11, <1>12

LEMMA ReadStep ==
  ASSUME AvailInv, NEW f \in Fetches, A!ReadCounters(f) \/ A!ReadVersions(f)
  PROVE  AvailInv'
<1>1. UNCHANGED <<caching, version, owed, notes, lastver, hand, snapshot, etag, latest, timer,
                  client, inflight, availPast>>
  BY DEF A!ReadCounters, A!ReadVersions, A!noted, A!stored, A!pushed
<1>2. fetch[f] \in Runs /\ fetch \in [Fetches -> Runs]
  BY DEF AvailInv, AvailFits
<1>3. PICK new \in Runs :
        /\ fetch' = [fetch EXCEPT ![f] = new]
        /\ new.at \in {"versions", "store", "answer"} /\ new.push = fetch[f].push
        /\ fetch[f].seen # "stale" => new.seen # "stale"
  <2>1. CASE A!ReadCounters(f)
    <3>1. PICK seen \in {"fresh", "wrong"} :
            fetch' = [fetch EXCEPT ![f] = [[fetch[f] EXCEPT !.at = "versions"] EXCEPT !.seen = seen]]
      BY <1>2, <2>1 DEF A!ReadCounters
    <3>2. PICK new \in Runs :
            /\ new = [[fetch[f] EXCEPT !.at = "versions"] EXCEPT !.seen = seen]
            /\ new.at = "versions" /\ new.push = fetch[f].push /\ new.seen # "stale"
      <4>1. /\ [[fetch[f] EXCEPT !.at = "versions"] EXCEPT !.seen = seen] \in Runs
            /\ [[fetch[f] EXCEPT !.at = "versions"] EXCEPT !.seen = seen].at = "versions"
            /\ [[fetch[f] EXCEPT !.at = "versions"] EXCEPT !.seen = seen].push = fetch[f].push
            /\ [[fetch[f] EXCEPT !.at = "versions"] EXCEPT !.seen = seen].seen = seen
        BY <1>2 DEF Runs, A!Counts
      <4> QED
        BY <4>1
    <3> QED
      BY <3>1, <3>2
  <2>2. CASE A!ReadVersions(f)
    <3>1. PICK v \in A!Versions, at \in {"store", "answer"} :
            fetch' = [fetch EXCEPT ![f] = [[fetch[f] EXCEPT !.at = at] EXCEPT !.v = v]]
      <4>1. PICK known \in SUBSET Types, v \in A!Versions :
              /\ fetch' = [fetch EXCEPT ![f].at = IF caching THEN "store" ELSE "answer",
                                        ![f].v = IF caching
                                                   THEN A!Max({fetch[f].min} \cup {version[t] : t \in known})
                                                   ELSE 0]
              /\ v = IF caching THEN A!Max({fetch[f].min} \cup {version[t] : t \in known}) ELSE 0
        <5>1. PICK known \in SUBSET Types :
                fetch' = [fetch EXCEPT ![f].at = IF caching THEN "store" ELSE "answer",
                                       ![f].v = IF caching
                                                  THEN A!Max({fetch[f].min} \cup {version[t] : t \in known})
                                                  ELSE 0]
          BY <2>2 DEF A!ReadVersions
        <5>2. PICK all \in SUBSET A!Versions : all = {fetch[f].min} \cup {version[t] : t \in known}
          <6>1. fetch[f].min \in A!Versions
            BY <1>2, RunIs
          <6>2. \A t \in known : version[t] \in A!Versions
            BY DEF AvailInv, AvailFits, A!PerType
          <6> QED
            BY <6>1, <6>2
        <5>3. A!Max(all) \in A!Versions
          BY <5>2, GreatestIs
        <5>4. 0 \in A!Versions
          BY TypesAssumption DEF A!Versions
        <5>5. PICK v \in A!Versions : v = IF caching THEN A!Max(all) ELSE 0
          BY <5>3, <5>4
        <5> QED
          BY <5>1, <5>2, <5>5
      <4>2. PICK at \in {"store", "answer"} : at = IF caching THEN "store" ELSE "answer"
        OBVIOUS
      <4>3. fetch' = [fetch EXCEPT ![f].at = at, ![f].v = v]
        BY <4>1, <4>2
      <4> QED
        BY <1>2, <4>3
    <3>2. PICK new \in Runs :
            /\ new = [[fetch[f] EXCEPT !.at = at] EXCEPT !.v = v]
            /\ new.at = at /\ new.push = fetch[f].push /\ new.seen = fetch[f].seen
      <4>1. /\ [[fetch[f] EXCEPT !.at = at] EXCEPT !.v = v] \in Runs
            /\ [[fetch[f] EXCEPT !.at = at] EXCEPT !.v = v].at = at
            /\ [[fetch[f] EXCEPT !.at = at] EXCEPT !.v = v].push = fetch[f].push
            /\ [[fetch[f] EXCEPT !.at = at] EXCEPT !.v = v].seen = fetch[f].seen
        BY <1>2 DEF Runs
      <4> QED
        BY <4>1
    <3> QED
      BY <3>1, <3>2
  <2> QED
    BY <2>1, <2>2
<1>4. /\ fetch' \in [Fetches -> Runs] /\ fetch'[f] = new /\ RunsFit'
      /\ \A g \in Fetches : g # f => fetch'[g] = fetch[g]
  BY <1>1, <1>3, RunTakes
<1>5. AvailFits'
  BY <1>1, <1>4 DEF AvailInv, AvailFits
<1>6. WillShow => WillShow'
  BY <1>1, <1>3, <1>4 DEF WillShow
<1> QED
  BY <1>1, <1>4, <1>5, <1>6, RunsGoOn

LEMMA StoreSnapshotStep ==
  ASSUME AvailInv, NEW f \in Fetches, A!StoreSnapshot(f)
  PROVE  AvailInv'
<1>1. /\ UNCHANGED <<caching, version, owed, notes, lastver, hand, etag, latest, timer,
                     client, inflight, availPast>>
      /\ snapshot' \in {snapshot, [is |-> A!Stored(fetch[f].seen), v |-> fetch[f].v]}
      /\ fetch' = [fetch EXCEPT ![f].at = "answer", ![f].v = 0]
  BY DEF A!StoreSnapshot, A!noted, A!pushed
<1>2. fetch[f] \in Runs /\ fetch \in [Fetches -> Runs] /\ 0 \in A!Versions
  BY TypesAssumption DEF AvailInv, AvailFits, A!Versions
<1>3. PICK new \in Runs :
        /\ new = [[fetch[f] EXCEPT !.at = "answer"] EXCEPT !.v = 0]
        /\ new.at = "answer" /\ new.push = fetch[f].push /\ new.seen = fetch[f].seen
  <2>1. /\ [[fetch[f] EXCEPT !.at = "answer"] EXCEPT !.v = 0] \in Runs
        /\ [[fetch[f] EXCEPT !.at = "answer"] EXCEPT !.v = 0].at = "answer"
        /\ [[fetch[f] EXCEPT !.at = "answer"] EXCEPT !.v = 0].push = fetch[f].push
        /\ [[fetch[f] EXCEPT !.at = "answer"] EXCEPT !.v = 0].seen = fetch[f].seen
    BY <1>2 DEF Runs
  <2> QED
    BY <2>1
<1>4. fetch' = [fetch EXCEPT ![f] = new]
  BY <1>1, <1>2, <1>3
<1>5. /\ fetch' \in [Fetches -> Runs] /\ fetch'[f] = new /\ RunsFit'
      /\ \A g \in Fetches : g # f => fetch'[g] = fetch[g]
  BY <1>1, <1>3, <1>4, RunTakes
<1>6. snapshot' \in Snapshots /\ (snapshot' = snapshot \/ snapshot'.is # "stale")
  <2>1. A!Stored(fetch[f].seen) \in {"fresh", "late"} /\ fetch[f].v \in A!Versions
    BY <1>2, RunIs DEF A!Stored
  <2>2. PICK is \in {"fresh", "late"}, v \in A!Versions :
          is = A!Stored(fetch[f].seen) /\ v = fetch[f].v
    BY <2>1
  <2>3. [is |-> is, v |-> v] \in Snapshots /\ [is |-> is, v |-> v].is # "stale"
    BY DEF Snapshots
  <2>4. snapshot \in Snapshots
    BY DEF AvailInv, AvailFits
  <2> QED
    BY <1>1, <2>2, <2>3, <2>4
<1>7. AvailFits'
  BY <1>1, <1>5, <1>6 DEF AvailInv, AvailFits
<1>8. WillShow => WillShow'
  BY <1>1, <1>3, <1>5 DEF WillShow
<1> QED
  BY <1>1, <1>5, <1>6, <1>7, <1>8, RunsGoOn

LEMMA EndRunIs ==
  ASSUME AvailInv, NEW f \in Fetches, A!EndRun(f)
  PROVE  /\ fetch' \in [Fetches -> Runs] /\ inflight' \in Fetches \cup {NoFetch} /\ RunsFit'
         /\ \A g \in Fetches : g # f => fetch'[g] = fetch[g]
<1>1. /\ fetch' \in [Fetches -> Runs] /\ fetch'[f] = A!Idle
      /\ \A g \in Fetches : g # f => fetch'[g] = fetch[g]
  BY IdleRun DEF A!EndRun, AvailInv, AvailFits
<1>2. /\ inflight' \in Fetches \cup {NoFetch}
      /\ inflight' # NoFetch => inflight' = inflight /\ inflight # f
  BY DEF A!EndRun, AvailInv, AvailFits
<1>3. \A g \in Fetches :
        /\ fetch'[g].at = "idle" => fetch'[g].push = {}
        /\ fetch'[g].at \in A!Unread => fetch'[g].seen = "fresh"
  BY <1>1, IdleRun DEF AvailInv, RunsFit
<1>4. inflight' # NoFetch => fetch'[inflight'].at \notin {"idle", "look"}
  BY <1>1, <1>2 DEF AvailInv, AvailFits, RunsFit
<1> QED
  BY <1>1, <1>2, <1>3, <1>4 DEF RunsFit

LEMMA AnswerStep ==
  ASSUME AvailInv, NEW f \in Fetches, A!Answer(f)
  PROVE  AvailInv'
<1>1. /\ UNCHANGED <<caching, version, owed, notes, lastver, hand, snapshot, timer>>
      /\ etag' \in {etag, A!Stored(fetch[f].seen)} /\ A!EndRun(f)
      /\ A!Show(fetch[f].push, fetch[f].seen, availPast.late)
  BY DEF A!Answer, A!noted
<1>2. PICK seen \in A!Counts, sinks \in SUBSET A!Sinks, late \in BOOLEAN :
        seen = fetch[f].seen /\ sinks = fetch[f].push /\ late = availPast.late
  BY DEF AvailInv, AvailFits, Runs, Pasts
<1>3. etag' \in Etags /\ (etag' = etag \/ etag' # "stale")
  BY <1>1 DEF A!Stored, AvailInv, AvailFits, Etags
<1>4. /\ fetch' \in [Fetches -> Runs] /\ inflight' \in Fetches \cup {NoFetch} /\ RunsFit'
      /\ \A g \in Fetches : g # f => fetch'[g] = fetch[g]
  BY <1>1, EndRunIs
<1>5. /\ client' \in Clients /\ availPast' \in Pasts /\ latest' \in A!Versions
      /\ availPast'.kept = availPast.kept /\ availPast'.lost = availPast.lost
      /\ client'.listed => client.listed
      /\ "held" \in sinks =>
           /\ client'.shown = seen
           /\ availPast'.late = (late \/ (client.shown # "stale" /\ seen = "stale"))
      /\ "held" \notin sinks => client'.shown = client.shown /\ availPast' = availPast
  BY <1>1, <1>2, ShowIs DEF AvailInv
<1>6. AvailFits'
  BY <1>1, <1>3, <1>4, <1>5 DEF AvailInv, AvailFits
<1>7. seen = "stale" \/ "held" \notin sinks => (WillShow => WillShow')
  BY <1>1, <1>2, <1>4 DEF WillShow
<1> QED
  BY <1>1, <1>2, <1>3, <1>4, <1>5, <1>6, <1>7, RunsGoOn

LEMMA FailsStep ==
  ASSUME AvailInv, NEW f \in Fetches, A!Fails(f)
  PROVE  AvailInv'
<1>1. /\ UNCHANGED <<caching, version, owed, notes, lastver, hand, snapshot, latest, timer,
                     client>>
      /\ etag' \in {etag, "none"} /\ A!EndRun(f)
      /\ A!LosePush(fetch[f].push)
  BY DEF A!Fails, A!noted, A!pushed
<1>2. /\ availPast' \in Pasts /\ availPast'.lost = (availPast.lost \/ "held" \in fetch[f].push)
      /\ availPast'.kept = availPast.kept /\ availPast'.late = availPast.late
  <2>1. PICK sinks \in SUBSET A!Sinks : sinks = fetch[f].push
    BY DEF AvailInv, AvailFits, Runs
  <2> QED
    BY <1>1, <2>1, LosePushIs
<1>3. etag' \in Etags /\ (etag' = etag \/ etag' # "stale")
  BY <1>1 DEF AvailInv, AvailFits, Etags
<1>4. /\ fetch' \in [Fetches -> Runs] /\ inflight' \in Fetches \cup {NoFetch} /\ RunsFit'
      /\ \A g \in Fetches : g # f => fetch'[g] = fetch[g]
  BY <1>1, EndRunIs
<1>5. AvailFits'
  BY <1>1, <1>2, <1>3, <1>4 DEF AvailInv, AvailFits
<1>6. ~availPast'.lost /\ WillShow => WillShow'
  BY <1>1, <1>2, <1>4 DEF WillShow
<1> QED
  BY <1>1, <1>2, <1>3, <1>4, <1>5, <1>6, RunsGoOn

LEMMA AvailExpireStep ==
  ASSUME AvailInv, A!Expire
  PROVE  AvailInv'
<1>1. /\ UNCHANGED <<caching, version, owed, notes, lastver, hand, latest, timer, client,
                     fetch, inflight, availPast>>
      /\ \/ snapshot' = A!None /\ etag' = etag
         \/ etag' = "none" /\ snapshot' = snapshot
  BY DEF A!Expire, A!noted, A!pushed
<1>2. AvailFits' /\ RunsFit'
  BY <1>1, IdleRun DEF AvailInv, AvailFits, RunsFit, Etags
<1>3. WillShow => WillShow'
  BY <1>1 DEF WillShow
<1> QED
  BY <1>1, <1>2, <1>3, IdleRun, RunsGoOn

LEMMA AvailKept == AvailInv /\ [A!Next]_aVars => AvailInv'
<1>1. ASSUME AvailInv, A!Next PROVE AvailInv'
  BY <1>1, ChangeStockStep, AfterChangeStep, TakeNoteStep, DropStoredStep, RecordVersionStep,
     NudgeStep, HandlerFailsStep, QueryStep, ConnectStep, DisconnectStep, PushStep,
     LookUpStep, ReadStep,
     StoreSnapshotStep, AnswerStep, FailsStep, AvailExpireStep DEF A!Next
<1>2. ASSUME AvailInv, UNCHANGED aVars PROVE AvailInv'
  <2>1. AvailFits' /\ RunsFit'
    BY <1>2 DEF aVars, AvailInv, AvailFits, RunsFit
  <2>2. WillShow' = WillShow
    BY <1>2 DEF aVars, WillShow
  <2> QED
    BY <1>2, <2>1, <2>2, RunsGoOn DEF aVars
<1> QED
  BY <1>1, <1>2

LEMMA AvailAlways == Spec => []AvailInv
<1>1. Init => AvailInv
  BY AvailStarts DEF Init
<1>2. AvailInv /\ [Next]_vars => AvailInv'
  <2>1. [Next]_vars => [A!Next]_aVars
    BY DEF Next, vars
  <2> QED
    BY <2>1, AvailKept
<1> QED
  BY <1>1, <1>2, PTL DEF Spec

\* Once every change is handled, the cached snapshot and the etag belong to the
\* stock as it is, for every number of ticket types, changes and requests, in
\* whatever order the changes are reported and the runs read and store; unless
\* a note or a deletion was lost (availability.service.js:79).
THEOREM CachedStockFollows == Spec => []CacheFollows
<1>1. AvailInv => CacheFollows
  BY DEF AvailInv, CacheIsPending, Coming, ToDrop, CacheFollows, A!CacheFollows, A!Handled
<1> QED
  BY <1>1, AvailAlways, PTL

\* A connected client sees the stock once every change is handled and no push for
\* it is under way, for every number of ticket types, changes and runs; unless a
\* note or a push was lost, a push for those before it struck it off the list, a
\* read of the counters failed since the last change, or it was given something
\* old under a version that covered the one asked for (broadcaster.sse.js:62).
THEOREM ClientIsCurrent == Spec => []ClientCurrent
<1>1. AvailInv => ClientCurrent
  <2> SUFFICES ASSUME AvailInv, A!Handled, client.listed, ~timer.set,
                      \A f \in Fetches : "held" \notin fetch[f].push,
                      ~availPast.lost, ~availPast.late
               PROVE  client.shown # "stale"
    BY DEF ClientCurrent, A!ClientCurrent
  <2> QED
    BY DEF AvailInv, ScreenIsPending, Coming, A!Handled
<1> QED
  BY <1>1, AvailAlways, PTL

-----------------------------------------------------------------------------
(***************************************************************************)
(* The files of a form.  A field and what a reading will add to the value  *)
(* that it started from are distinct and within the limit together; unless *)
(* something crossed, one reading at most is under way, and what is wanted *)
(* is in the field or being read.                                          *)
(***************************************************************************)
Distincts == {s \in Seq(Files) : \A i, k \in 1..Len(s) : s[i] = s[k] => i = k}
Readings == [on : BOOLEAN, base : Distincts, new : SUBSET Files]

FormFits ==
  /\ single \in BOOLEAN /\ shown \in BOOLEAN /\ creating \in BOOLEAN
  /\ files \in Distincts /\ submit \in Distincts
  /\ Len(files) <= F!Limit
  /\ wanted \in SUBSET Files /\ crossed \in BOOLEAN
  /\ reading \in [Reads -> Readings]

ReadingsFit ==
  \A r \in Reads : reading[r].on =>
    IF single THEN Cardinality(reading[r].new) = 1
    ELSE /\ Len(reading[r].base) + Cardinality(reading[r].new) <= MaxFiles
         /\ reading[r].new \cap F!ToSet(reading[r].base) = {}

WantedFollows ==
  ~crossed =>
    /\ \A r \in Reads : reading[r].on =>
         /\ shown
         /\ \A q \in Reads : reading[q].on => q = r
         /\ ~single => reading[r].base = files
         /\ wanted = reading[r].new \cup (IF single THEN {} ELSE F!ToSet(files))
    /\ (\A r \in Reads : ~reading[r].on) => F!ToSet(files) = wanted

FormInv == FormFits /\ ReadingsFit /\ WantedFollows

LEMMA FormsOfNames ==
  ASSUME NEW set
  PROVE  F!Cardinality(set) = Cardinality(set) /\ F!SetToSeq(set) = SetToSeq(set)
<1>1. F!Cardinality(set) = Cardinality(set)
  BY DEF F!Cardinality, Cardinality
<1>2. F!SetToSeq(set) = SetToSeq(set)
  BY DEF F!SetToSeq, SetToSeq, F!Cardinality, Cardinality, F!IsInjective, IsInjective
<1> QED
  BY <1>1, <1>2

LEMMA DistinctIs ==
  ASSUME NEW s \in Distincts
  PROVE  /\ s \in Seq(Files) /\ Len(s) \in Nat /\ DOMAIN s = 1..Len(s)
         /\ \A i, k \in 1..Len(s) : s[i] = s[k] => i = k
         /\ \A x : x \in F!ToSet(s) <=> \E i \in 1..Len(s) : s[i] = x
         /\ F!ToSet(s) \in SUBSET Files
         /\ s = << >> <=> Len(s) = 0
         /\ F!IsInjective(s)
<1>1. s \in Seq(Files) /\ \A i, k \in 1..Len(s) : s[i] = s[k] => i = k
  BY DEF Distincts
<1>2. Len(s) \in Nat /\ DOMAIN s = 1..Len(s)
  BY <1>1, LenProperties
<1>3. \A x : x \in F!ToSet(s) <=> \E i \in 1..Len(s) : s[i] = x
  BY <1>2 DEF F!ToSet
<1>4. F!ToSet(s) \in SUBSET Files
  BY <1>1, <1>3, ElementOfSeq
<1>5. F!IsInjective(s)
  BY <1>1, <1>2 DEF F!IsInjective
<1>6. s = << >> <=> Len(s) = 0
  BY <1>1, EmptySeq
<1> QED
  BY <1>1, <1>2, <1>3, <1>4, <1>5, <1>6

LEMMA EmptyIs == << >> \in Distincts /\ Len(<< >>) = 0 /\ F!ToSet(<< >>) = {}
<1>1. << >> \in Distincts
  BY EmptySeq DEF Distincts
<1> QED
  BY <1>1, EmptySeq, DistinctIs

\* A list of distinct files is as long as its set is large at most.
LEMMA DistinctFits == ASSUME NEW s \in Distincts PROVE s \in F!Lists
<1>1. s \in Seq(Files) /\ Len(s) \in Nat /\ s \in [1..Len(s) -> Files]
  BY DistinctIs, LenProperties
<1>2. s \in Injection(1..Len(s), Files)
  BY <1>1, DistinctIs DEF Injection, IsInjective
<1>3. Cardinality(1..Len(s)) = Len(s)
  BY SMTT(60), <1>1, FS_Interval
<1>4. Len(s) <= Cardinality(Files) /\ Cardinality(Files) \in Nat
  BY <1>2, <1>3, FS_Injection, FS_CardinalityType, FilesAssumption
<1>5. Len(s) \in 0..(MaxFiles + F!Cardinality(Files))
  BY <1>1, <1>4, FilesAssumption, FormsOfNames
<1> QED
  BY <1>1, <1>5 DEF F!Lists

\* Files of a set, and files added to a list that has none of them.
LEMMA ListedIs ==
  ASSUME NEW set \in SUBSET Files
  PROVE  /\ F!SetToSeq(set) \in Distincts
         /\ Len(F!SetToSeq(set)) = Cardinality(set)
         /\ F!ToSet(F!SetToSeq(set)) = set
         /\ Cardinality(set) \in Nat
<1>1. IsFiniteSet(set)
  BY FilesAssumption, FS_Subset
<1>2. PICK s : s = SetToSeq(set)
  OBVIOUS
<1>3. /\ s \in Seq(set) /\ Len(s) = Cardinality(set)
      /\ \A i, k \in 1..Len(s) : s[i] = s[k] => i = k
      /\ \A x \in set : \E i \in 1..Len(s) : s[i] = x
  BY <1>1, <1>2, SetAsSequence
<1>4. s \in Seq(Files)
  BY <1>3, SeqMonotonic
<1>5. s \in Distincts
  BY <1>3, <1>4 DEF Distincts
<1>6. \A x : x \in F!ToSet(s) <=> x \in set
  BY <1>3, <1>5, DistinctIs, ElementOfSeq
<1>7. F!ToSet(s) = set
  BY <1>6
<1> QED
  BY <1>1, <1>2, <1>3, <1>5, <1>7, FormsOfNames, FS_CardinalityType

LEMMA JoinedIs ==
  ASSUME NEW s \in Distincts, NEW t \in Distincts, F!ToSet(t) \cap F!ToSet(s) = {}
  PROVE  /\ s \o t \in Distincts /\ Len(s \o t) = Len(s) + Len(t)
         /\ F!ToSet(s \o t) = F!ToSet(s) \cup F!ToSet(t)
<1>1. /\ s \in Seq(Files) /\ t \in Seq(Files) /\ Len(s) \in Nat /\ Len(t) \in Nat
  BY DistinctIs
<1>2. PICK m \in Nat, n \in Nat : m = Len(s) /\ n = Len(t)
  BY <1>1
<1>3. PICK u \in Seq(Files) :
        /\ u = s \o t /\ Len(u) = m + n
        /\ \A i \in 1..(m + n) : u[i] = IF i <= m THEN s[i] ELSE t[i - m]
  <2>1. /\ s \o t \in Seq(Files) /\ Len(s \o t) = Len(s) + Len(t)
        /\ \A i \in 1..(Len(s) + Len(t)) :
             (s \o t)[i] = IF i <= Len(s) THEN s[i] ELSE t[i - Len(s)]
    BY <1>1, ConcatProperties
  <2>2. PICK u \in Seq(Files) : u = s \o t
    BY <2>1
  <2>3. /\ Len(u) = m + n
        /\ \A i \in 1..(m + n) : u[i] = IF i <= m THEN s[i] ELSE t[i - m]
    BY ONLY <1>2, <2>1, <2>2
  <2> QED
    BY <2>2, <2>3
<1>4. \A i \in 1..(m + n) : \/ i \in 1..m /\ u[i] = s[i]
                            \/ i - m \in 1..n /\ u[i] = t[i - m]
  BY <1>3
<1>5. \A i \in 1..m, k \in 1..n : s[i] # t[k]
  BY ZenonT(60), <1>2, DistinctIs
<1>6. /\ \A i, k \in 1..m : s[i] = s[k] => i = k
      /\ \A i, k \in 1..n : t[i] = t[k] => i = k
  BY SMTT(60), <1>2, DistinctIs
<1>7. \A i, k \in 1..(m + n) : u[i] = u[k] => i = k
  <2> SUFFICES ASSUME NEW i \in 1..(m + n), NEW k \in 1..(m + n), u[i] = u[k] PROVE i = k
    OBVIOUS
  <2>1. CASE i \in 1..m /\ u[i] = s[i] /\ k \in 1..m /\ u[k] = s[k]
    BY <1>6, <2>1
  <2>2. CASE i - m \in 1..n /\ u[i] = t[i - m] /\ k - m \in 1..n /\ u[k] = t[k - m]
    <3>1. i - m = k - m
      BY <1>6, <2>2
    <3> QED
      BY <3>1
  <2> QED
    BY <1>4, <1>5, <2>1, <2>2
<1>8. u \in Distincts
  BY <1>3, <1>7 DEF Distincts
<1>9. \A x : x \in F!ToSet(u) <=> x \in F!ToSet(s) \/ x \in F!ToSet(t)
  <2> TAKE x
  <2>1. x \in F!ToSet(u) <=> \E i \in 1..(m + n) : u[i] = x
    <3>1. x \in F!ToSet(u) <=> \E i \in 1..Len(u) : u[i] = x
      BY <1>8, DistinctIs
    <3> QED
      BY <1>3, <3>1
  <2>2. x \in F!ToSet(s) <=> \E i \in 1..m : s[i] = x
    BY <1>2, DistinctIs
  <2>3. x \in F!ToSet(t) <=> \E i \in 1..n : t[i] = x
    BY <1>2, DistinctIs
  <2>4. \A i \in 1..m : i \in 1..(m + n) /\ u[i] = s[i]
    <3> SUFFICES ASSUME NEW i \in 1..m PROVE i \in 1..(m + n) /\ u[i] = s[i]
      OBVIOUS
    <3>1. i \in 1..(m + n) /\ i <= m
      OBVIOUS
    <3> QED
      BY <1>3, <3>1
  <2>5. \A i \in 1..n : i + m \in 1..(m + n) /\ u[i + m] = t[i]
    <3> SUFFICES ASSUME NEW i \in 1..n PROVE i + m \in 1..(m + n) /\ u[i + m] = t[i]
      OBVIOUS
    <3>1. i + m \in 1..(m + n) /\ ~(i + m <= m) /\ (i + m) - m = i
      OBVIOUS
    <3> QED
      BY <1>3, <3>1
  <2> QED
    BY <1>4, <2>1, <2>2, <2>3, <2>4, <2>5
<1> QED
  BY <1>2, <1>3, <1>8, <1>9

LEMMA PartIs ==
  ASSUME NEW s \in Distincts, NEW a \in 1..(Len(s) + 1), NEW b \in 0..Len(s), a <= b + 1
  PROVE  /\ SubSeq(s, a, b) \in Distincts /\ Len(SubSeq(s, a, b)) = b - a + 1
         /\ \A x : x \in F!ToSet(SubSeq(s, a, b)) <=> \E i \in a..b : s[i] = x
<1>1. /\ s \in Seq(Files) /\ Len(s) \in Nat
      /\ \A i, k \in 1..Len(s) : s[i] = s[k] => i = k
  BY DistinctIs
<1>2. PICK n \in Nat : n = b - a + 1
  BY <1>1
<1>3. PICK u \in Seq(Files) : u = SubSeq(s, a, b) /\ Len(u) = n /\ \A i \in 1..n : u[i] = s[a + i - 1]
  <2>1. /\ SubSeq(s, a, b) \in Seq(Files)
        /\ Len(SubSeq(s, a, b)) = IF a <= b THEN b - a + 1 ELSE 0
        /\ \A i \in 1..(b - a + 1) : SubSeq(s, a, b)[i] = s[a + i - 1]
    BY <1>1, SubSeqProperties
  <2>2. Len(SubSeq(s, a, b)) = n
    BY <1>1, <1>2, <2>1
  <2>3. \A i \in 1..n : SubSeq(s, a, b)[i] = s[a + i - 1]
    BY <1>2, <2>1
  <2> QED
    BY <2>1, <2>2, <2>3
<1>4. \A i \in 1..n : a + i - 1 \in 1..Len(s) /\ a + i - 1 \in a..b
  BY <1>1, <1>2
<1>5. u \in Distincts
  <2>1. ASSUME NEW i \in 1..n, NEW k \in 1..n, u[i] = u[k] PROVE i = k
    <3>1. a + i - 1 = a + k - 1
      BY ZenonT(60), <1>1, <1>3, <1>4, <2>1
    <3> QED
      BY <3>1
  <2> QED
    BY <1>3, <2>1 DEF Distincts
<1>6. \A x : x \in F!ToSet(u) <=> \E i \in a..b : s[i] = x
  <2> TAKE x
  <2>1. x \in F!ToSet(u) <=> \E i \in 1..n : u[i] = x
    <3>1. x \in F!ToSet(u) <=> \E i \in 1..Len(u) : u[i] = x
      BY <1>5, DistinctIs
    <3> QED
      BY <1>3, <3>1
  <2>2. ASSUME NEW i \in a..b PROVE i - a + 1 \in 1..n /\ u[i - a + 1] = s[i]
    <3>1. i - a + 1 \in 1..n /\ a + (i - a + 1) - 1 = i
      BY <1>2
    <3> QED
      BY <1>3, <3>1
  <2>3. ASSUME x \in F!ToSet(u) PROVE \E i \in a..b : s[i] = x
    <3>1. PICK k \in 1..n : u[k] = x
      BY <2>1, <2>3
    <3>2. a + k - 1 \in a..b /\ s[a + k - 1] = x
      BY <1>3, <1>4, <3>1
    <3> QED
      BY <3>2
  <2>4. ASSUME NEW i \in a..b, s[i] = x PROVE x \in F!ToSet(u)
    BY ZenonT(30), <2>1, <2>2, <2>4
  <2> QED
    BY <2>3, <2>4
<1> QED
  BY <1>2, <1>3, <1>5, <1>6

LEMMA RemovedIs ==
  ASSUME NEW s \in Distincts, NEW i \in 1..Len(s)
  PROVE  /\ F!RemoveAt(s, i) \in Distincts /\ Len(F!RemoveAt(s, i)) = Len(s) - 1
         /\ F!ToSet(F!RemoveAt(s, i)) = F!ToSet(s) \ {s[i]}
<1>1. Len(s) \in Nat /\ \A j, k \in 1..Len(s) : s[j] = s[k] => j = k
  BY DistinctIs
<1>2. PICK n \in Nat : n = Len(s) /\ i \in 1..n
  BY <1>1
<1>3. PICK t \in Distincts : /\ t = SubSeq(s, 1, i - 1) /\ Len(t) = i - 1
                             /\ \A x : x \in F!ToSet(t) <=> \E j \in 1..(i - 1) : s[j] = x
  <2>1. PICK a, b : a = 1 /\ b = i - 1
    OBVIOUS
  <2>2. a \in 1..(Len(s) + 1) /\ b \in 0..Len(s) /\ a <= b + 1 /\ b - a + 1 = i - 1
    BY <1>2, <2>1
  <2>3. /\ SubSeq(s, a, b) \in Distincts /\ Len(SubSeq(s, a, b)) = b - a + 1
        /\ \A x : x \in F!ToSet(SubSeq(s, a, b)) <=> \E j \in a..b : s[j] = x
    BY <2>2, PartIs
  <2>4. PICK t : t = SubSeq(s, a, b)
    OBVIOUS
  <2>5. t \in Distincts /\ Len(t) = i - 1 /\ \A x : x \in F!ToSet(t) <=> \E j \in a..b : s[j] = x
    BY ONLY <2>2, <2>3, <2>4
  <2>6. t = SubSeq(s, 1, i - 1) /\ \A x : x \in F!ToSet(t) <=> \E j \in 1..(i - 1) : s[j] = x
    BY ONLY <2>1, <2>4, <2>5
  <2> QED
    BY <2>5, <2>6
<1>4. PICK u \in Distincts : /\ u = SubSeq(s, i + 1, n) /\ Len(u) = n - i
                             /\ \A x : x \in F!ToSet(u) <=> \E j \in (i + 1)..n : s[j] = x
  <2>1. PICK a : a = i + 1
    OBVIOUS
  <2>2. a \in 1..(Len(s) + 1) /\ n \in 0..Len(s) /\ a <= n + 1 /\ n - a + 1 = n - i
    BY <1>2, <2>1
  <2>3. /\ SubSeq(s, a, n) \in Distincts /\ Len(SubSeq(s, a, n)) = n - a + 1
        /\ \A x : x \in F!ToSet(SubSeq(s, a, n)) <=> \E j \in a..n : s[j] = x
    BY <2>2, PartIs
  <2>4. PICK u : u = SubSeq(s, a, n)
    OBVIOUS
  <2>5. u \in Distincts /\ Len(u) = n - i /\ \A x : x \in F!ToSet(u) <=> \E j \in a..n : s[j] = x
    BY ONLY <2>2, <2>3, <2>4
  <2>6. u = SubSeq(s, i + 1, n) /\ \A x : x \in F!ToSet(u) <=> \E j \in (i + 1)..n : s[j] = x
    BY ONLY <2>1, <2>4, <2>5
  <2> QED
    BY <2>5, <2>6
<1>5. F!RemoveAt(s, i) = t \o u
  BY <1>2, <1>3, <1>4 DEF F!RemoveAt
<1>6. F!ToSet(u) \cap F!ToSet(t) = {}
  BY <1>1, <1>2, <1>3, <1>4
<1>7. /\ t \o u \in Distincts /\ Len(t \o u) = Len(t) + Len(u)
      /\ F!ToSet(t \o u) = F!ToSet(t) \cup F!ToSet(u)
  BY <1>6, JoinedIs
<1>8. Len(t) + Len(u) = n - 1
  <2>1. n \in Nat /\ i \in 1..n /\ Len(t) = i - 1 /\ Len(u) = n - i
    BY ONLY <1>2, <1>3, <1>4
  <2> QED
    BY ONLY <2>1
<1>9. \A x : x \in F!ToSet(t) \cup F!ToSet(u) <=> x \in F!ToSet(s) /\ x # s[i]
  <2> TAKE x
  <2>1. x \in F!ToSet(s) <=> \E j \in 1..n : s[j] = x
    BY <1>2, DistinctIs
  <2>2. \A j \in 1..n : j \in 1..(i - 1) \/ j = i \/ j \in (i + 1)..n
    BY <1>2
  <2>3. \A j \in 1..(i - 1) : j \in 1..n /\ j # i
    BY <1>2
  <2>4. \A j \in (i + 1)..n : j \in 1..n /\ j # i
    BY <1>2
  <2>5. \A j \in 1..n : j # i => s[j] # s[i]
    BY <1>1, <1>2
  <2> QED
    BY <1>3, <1>4, <2>1, <2>2, <2>3, <2>4, <2>5
<1>10. F!ToSet(t) \cup F!ToSet(u) = F!ToSet(s) \ {s[i]}
  BY <1>9
<1> QED
  BY <1>2, <1>5, <1>7, <1>8, <1>10

\* The field gets a value: then nothing is unclear only if nothing is read, and
\* nothing was unclear before or there is nothing any more.
LEMMA SetIs ==
  ASSUME NEW new, NEW want, F!Set(new, want)
  PROVE  /\ files' = new /\ wanted' = want /\ crossed' \in BOOLEAN
         /\ ~crossed' => \A r \in Reads : ~reading'[r].on
         /\ ~crossed' => ~crossed \/ (new = << >> /\ want = {})
BY DEF F!Set, F!UnderWay

LEMMA FieldSet ==
  ASSUME FormInv, NEW new \in Distincts, NEW want \in SUBSET Files, F!Set(new, want),
         Len(new) <= F!Limit,
         ~crossed /\ (\A r \in Reads : ~reading'[r].on) => F!ToSet(new) = want,
         single' = single, shown' \in BOOLEAN, creating' \in BOOLEAN, submit' \in Distincts,
         reading' \in [Reads -> Readings],
         \A r \in Reads : reading'[r] = reading[r] \/ ~reading'[r].on
  PROVE  FormInv'
<1>1. /\ files' = new /\ wanted' = want /\ crossed' \in BOOLEAN
      /\ ~crossed' => \A r \in Reads : ~reading'[r].on
      /\ ~crossed' => ~crossed \/ (new = << >> /\ want = {})
  BY SetIs
<1>2. FormFits'
  <2>1. F!Limit' = F!Limit
    BY DEF F!Limit
  <2>2. single' \in BOOLEAN
    BY DEF FormInv, FormFits
  <2>3. (Len(files) <= F!Limit)'
    BY <1>1, <2>1
  <2> QED
    BY <1>1, <2>2, <2>3 DEF FormFits
<1>3. ReadingsFit'
  BY DEF FormInv, ReadingsFit
<1>4. WantedFollows'
  <2> SUFFICES ASSUME ~crossed' PROVE (\A r \in Reads : ~reading'[r].on) /\ F!ToSet(new) = want
    BY <1>1 DEF WantedFollows, F!ToSet
  <2>1. \A r \in Reads : ~reading'[r].on
    BY <1>1
  <2>2. CASE ~crossed
    BY <2>1, <2>2
  <2>3. CASE new = << >> /\ want = {}
    BY <2>1, <2>3, EmptyIs
  <2> QED
    BY <1>1, <2>2, <2>3
<1> QED
  BY <1>2, <1>3, <1>4 DEF FormInv

\* What a selection may add.
LEMMA ValidIs ==
  ASSUME FormInv, NEW fs \in SUBSET Files, F!Valid(fs) # {}, single => Cardinality(fs) = 1
  PROVE  /\ F!Valid(fs) \in SUBSET Files
         /\ single => F!Valid(fs) = fs
         /\ ~single => /\ Len(files) + Cardinality(F!Valid(fs)) <= MaxFiles
                       /\ F!Valid(fs) \cap F!ToSet(files) = {}
<1>1. CASE single
  BY <1>1 DEF F!Valid
<1>2. CASE ~single
  <2>1. F!Cardinality(fs) = Cardinality(fs)
    BY FormsOfNames
  <2>2. F!Valid(fs) = fs \ F!ToSet(files) /\ Len(files) + Cardinality(fs) <= MaxFiles
    <3>1. Cardinality(fs) \in Nat /\ Len(files) \in Nat
      BY ListedIs, DistinctIs DEF FormInv, FormFits
    <3>2. ~(Len(files) + Cardinality(fs) > MaxFiles)
      BY <1>2, <2>1 DEF F!Valid, F!Limit
    <3>3. F!Valid(fs) = fs \ F!ToSet(files)
      BY <1>2, <2>1 DEF F!Valid, F!Limit
    <3> QED
      BY <3>1, <3>2, <3>3, FilesAssumption
  <2>3. PICK rest \in SUBSET Files : rest = fs \ F!ToSet(files)
    OBVIOUS
  <2>4. IsFiniteSet(fs) /\ rest \subseteq fs
    BY <2>3, FilesAssumption, FS_Subset
  <2>5. Cardinality(rest) <= Cardinality(fs)
    BY <2>4, FS_Subset
  <2>6. Cardinality(rest) \in Nat /\ Cardinality(fs) \in Nat /\ Len(files) \in Nat
    BY ListedIs, DistinctIs DEF FormInv, FormFits
  <2>7. Len(files) + Cardinality(rest) <= MaxFiles
    BY <2>2, <2>5, <2>6, FilesAssumption
  <2> QED
    BY <1>2, <2>2, <2>3, <2>7
<1> QED
  BY <1>1, <1>2

LEMMA ChooseStep ==
  ASSUME FormInv, NEW r \in Reads, NEW fs \in SUBSET Files, F!Choose(r, fs)
  PROVE  FormInv'
<1>1. /\ shown /\ ~reading[r].on /\ F!Valid(fs) # {} /\ (single => Cardinality(fs) = 1)
      /\ reading' = [reading EXCEPT ![r] = [on |-> TRUE, base |-> files, new |-> F!Valid(fs)]]
      /\ wanted' = F!Valid(fs) \cup (IF single THEN {} ELSE wanted)
      /\ crossed' = (crossed \/ F!UnderWay(reading) # {})
      /\ UNCHANGED <<single, shown, files, submit, creating>>
  BY FormsOfNames DEF F!Choose
<1>2. PICK new \in SUBSET Files : new = F!Valid(fs)
  BY <1>1, ValidIs
<1>3. /\ single => Cardinality(new) = 1
      /\ ~single => Len(files) + Cardinality(new) <= MaxFiles /\ new \cap F!ToSet(files) = {}
  BY <1>1, <1>2, ValidIs
<1>4. [on |-> TRUE, base |-> files, new |-> new] \in Readings
  BY DEF FormInv, FormFits, Readings
<1>5. PICK now \in Readings : now = [on |-> TRUE, base |-> files, new |-> new]
  BY <1>4
<1>6. now.on /\ now.base = files /\ now.new = new
  BY <1>5
<1>7. reading \in [Reads -> Readings] /\ reading' = [reading EXCEPT ![r] = now]
  BY <1>1, <1>2, <1>5 DEF FormInv, FormFits
<1>8. /\ reading' \in [Reads -> Readings] /\ reading'[r] = now
      /\ \A q \in Reads : q # r => reading'[q] = reading[q]
  BY SMTT(60), <1>7
<1>9. FormFits'
  <2>1. F!Limit' = F!Limit
    BY <1>1 DEF F!Limit
  <2>2. (Len(files) <= F!Limit)'
    BY <1>1, <2>1 DEF FormInv, FormFits
  <2>3. wanted' \in SUBSET Files /\ crossed' \in BOOLEAN
    BY <1>1, <1>2 DEF FormInv, FormFits
  <2> QED
    BY <1>1, <1>8, <2>2, <2>3 DEF FormInv, FormFits
<1>10. ReadingsFit'
  BY <1>1, <1>3, <1>6, <1>8 DEF FormInv, ReadingsFit, F!ToSet
<1>11. WantedFollows'
  <2> SUFFICES ASSUME ~crossed'
               PROVE  /\ \A q \in Reads : q # r => ~reading'[q].on
                      /\ wanted' = new \cup (IF single THEN {} ELSE F!ToSet(files))
    BY <1>1, <1>6, <1>8 DEF WantedFollows, F!ToSet
  <2>1. ~crossed /\ \A q \in Reads : ~reading[q].on
    BY <1>1 DEF F!UnderWay
  <2>2. wanted = F!ToSet(files)
    BY <2>1 DEF FormInv, WantedFollows
  <2> QED
    BY <1>1, <1>2, <1>8, <2>1, <2>2
<1> QED
  BY <1>9, <1>10, <1>11 DEF FormInv

\* A reading ends.
LEMMA ReadingEnds ==
  ASSUME FormInv, NEW r \in Reads, reading' = [reading EXCEPT ![r] = F!NotReading]
  PROVE  /\ reading' \in [Reads -> Readings] /\ ~reading'[r].on
         /\ \A q \in Reads : q # r => reading'[q] = reading[q]
<1>1. F!NotReading \in Readings
  BY EmptyIs DEF F!NotReading, Readings
<1>2. ~F!NotReading.on
  BY DEF F!NotReading
<1>3. reading \in [Reads -> Readings]
  BY DEF FormInv, FormFits
<1> QED
  BY <1>1, <1>2, <1>3

LEMMA ImagesReadStep ==
  ASSUME FormInv, NEW r \in Reads, F!ImagesRead(r)
  PROVE  FormInv'
<1>1. /\ ~single /\ reading[r].on
      /\ reading' = [reading EXCEPT ![r] = F!NotReading]
      /\ UNCHANGED <<single, shown, submit, creating>>
  BY DEF F!ImagesRead
<1>2. PICK read \in SUBSET reading[r].new :
        IF shown /\ read # {}
        THEN F!Set(F!Added(r, read), wanted \ (reading[r].new \ read))
        ELSE /\ wanted' = IF shown THEN wanted \ (reading[r].new \ read) ELSE wanted
             /\ UNCHANGED <<files, crossed>>
  BY DEF F!ImagesRead
<1>3. PICK it \in Readings : it = reading[r]
  BY DEF FormInv, FormFits
<1>4. PICK base \in Distincts, new \in SUBSET Files : base = it.base /\ new = it.new
  BY DEF Readings
<1>5. PICK want \in SUBSET Files : want = wanted \ (new \ read)
  BY DEF FormInv, FormFits
<1>6. /\ read \in SUBSET new /\ read \in SUBSET Files
      /\ new \cap F!ToSet(base) = {} /\ Len(base) + Cardinality(new) <= MaxFiles
  BY <1>1, <1>2, <1>3, <1>4 DEF FormInv, ReadingsFit
<1>7. /\ reading' \in [Reads -> Readings] /\ ~reading'[r].on
      /\ \A q \in Reads : q # r => reading'[q] = reading[q]
  BY <1>1, ReadingEnds
<1>8. ~crossed => /\ shown /\ base = files /\ wanted = new \cup F!ToSet(files)
                  /\ \A q \in Reads : q # r => ~reading[q].on
  BY <1>1, <1>3, <1>4 DEF FormInv, WantedFollows
<1>9. ~crossed => want = F!ToSet(base) \cup read
  BY <1>5, <1>6, <1>8
<1>10. single' \in BOOLEAN /\ shown' \in BOOLEAN /\ creating' \in BOOLEAN /\ submit' \in Distincts
  BY <1>1 DEF FormInv, FormFits
<1>11. CASE shown /\ read # {}
  <2>1. PICK added \in Distincts : added = F!SetToSeq(read) /\ Len(added) = Cardinality(read)
                                   /\ F!ToSet(added) = read
    BY <1>6, ListedIs
  <2>2. F!ToSet(added) \cap F!ToSet(base) = {}
    BY <1>6, <2>1
  <2>3. /\ base \o added \in Distincts /\ Len(base \o added) = Len(base) + Len(added)
        /\ F!ToSet(base \o added) = F!ToSet(base) \cup F!ToSet(added)
    BY <2>2, JoinedIs
  <2>4. PICK now \in Distincts : now = base \o added
    BY <2>3
  <2>5. Len(now) = Len(base) + Cardinality(read) /\ F!ToSet(now) = F!ToSet(base) \cup read
    BY ONLY <2>1, <2>3, <2>4
  <2>6. Len(now) <= F!Limit
    <3>1. Cardinality(read) <= Cardinality(new)
      BY <1>6, FilesAssumption, FS_Subset
    <3>2. Cardinality(read) \in Nat /\ Cardinality(new) \in Nat /\ Len(base) \in Nat
      BY <1>6, ListedIs, DistinctIs
    <3>3. Len(base) + Cardinality(read) <= MaxFiles
      BY ONLY <1>6, <3>1, <3>2, FilesAssumption
    <3> QED
      BY <1>1, <2>5, <3>3 DEF F!Limit
  <2>7. F!Added(r, read) = now
    BY <1>3, <1>4, <2>1, <2>4 DEF F!Added
  <2>8. F!Set(now, want)
    BY <1>2, <1>3, <1>4, <1>5, <1>11, <2>7
  <2>9. ~crossed => F!ToSet(now) = want
    BY <1>9, <2>5
  <2> QED
    BY <1>1, <1>7, <1>10, <2>6, <2>8, <2>9, FieldSet
<1>12. CASE ~(shown /\ read # {})
  <2>1. /\ files' = files /\ crossed' = crossed
        /\ wanted' = IF shown THEN want ELSE wanted
    BY <1>2, <1>3, <1>4, <1>5, <1>12
  <2>2. FormFits'
    <3>1. F!Limit' = F!Limit
      BY <1>1 DEF F!Limit
    <3>2. (Len(files) <= F!Limit)'
      BY <2>1, <3>1 DEF FormInv, FormFits
    <3>3. files' \in Distincts /\ wanted' \in SUBSET Files /\ crossed' \in BOOLEAN
      BY <2>1 DEF FormInv, FormFits
    <3> QED
      BY <1>7, <1>10, <3>2, <3>3 DEF FormFits
  <2>3. ReadingsFit'
    BY <1>1, <1>7 DEF FormInv, ReadingsFit, F!ToSet
  <2>4. WantedFollows'
    <3> SUFFICES ASSUME ~crossed PROVE /\ \A q \in Reads : ~reading'[q].on
                                       /\ F!ToSet(files) = want /\ shown
      BY <2>1 DEF WantedFollows, F!ToSet
    <3>1. read = {}
      BY <1>8, <1>12
    <3> QED
      BY <1>7, <1>8, <1>9, <3>1
  <2> QED
    BY <2>2, <2>3, <2>4 DEF FormInv
<1> QED
  BY <1>11, <1>12

LEMMA DocumentReadStep ==
  ASSUME FormInv, NEW r \in Reads, F!DocumentRead(r)
  PROVE  FormInv'
<1>1. /\ single /\ reading[r].on
      /\ reading' = [reading EXCEPT ![r] = F!NotReading]
      /\ UNCHANGED <<single, shown, submit, creating>>
      /\ \/ F!Set(F!SetToSeq(reading[r].new), wanted)
         \/ F!Set(<< >>, wanted \ reading[r].new)
  BY DEF F!DocumentRead
<1>2. PICK it \in Readings : it = reading[r]
  BY DEF FormInv, FormFits
<1>3. PICK new \in SUBSET Files : new = it.new
  BY DEF Readings
<1>4. PICK want \in SUBSET Files : want = wanted
  BY DEF FormInv, FormFits
<1>5. Cardinality(new) = 1
  BY <1>1, <1>2, <1>3 DEF FormInv, ReadingsFit
<1>6. /\ reading' \in [Reads -> Readings] /\ ~reading'[r].on
      /\ \A q \in Reads : q # r => reading'[q] = reading[q]
  BY <1>1, ReadingEnds
<1>7. ~crossed => want = new
  BY <1>1, <1>2, <1>3, <1>4 DEF FormInv, WantedFollows
<1>8. single' \in BOOLEAN /\ shown' \in BOOLEAN /\ creating' \in BOOLEAN /\ submit' \in Distincts
  BY <1>1 DEF FormInv, FormFits
<1>9. F!Limit = 1
  BY <1>1 DEF F!Limit
<1>10. CASE F!Set(F!SetToSeq(reading[r].new), wanted)
  <2>1. PICK now \in Distincts : now = F!SetToSeq(new) /\ Len(now) = Cardinality(new)
                                 /\ F!ToSet(now) = new
    BY ListedIs
  <2>2. F!Set(now, want) /\ Len(now) <= F!Limit
    BY <1>2, <1>3, <1>4, <1>5, <1>9, <1>10, <2>1
  <2> QED
    BY <1>1, <1>6, <1>7, <1>8, <2>1, <2>2, FieldSet
<1>11. CASE F!Set(<< >>, wanted \ reading[r].new)
  <2>1. PICK now \in Distincts : now = << >> /\ Len(now) = 0 /\ F!ToSet(now) = {}
    BY EmptyIs
  <2>2. PICK rest \in SUBSET Files : rest = want \ new
    OBVIOUS
  <2>3. F!Set(now, rest) /\ Len(now) <= F!Limit
    BY <1>2, <1>3, <1>4, <1>9, <1>11, <2>1, <2>2
  <2>4. ~crossed => F!ToSet(now) = rest
    BY <1>7, <2>1, <2>2
  <2> QED
    BY <1>1, <1>6, <1>8, <2>3, <2>4, FieldSet
<1> QED
  BY <1>1, <1>10, <1>11

\* Readings that go on or all end.
LEMMA ReadingsGoOn ==
  ASSUME FormInv, reading' = reading \/ reading' = [r \in Reads |-> F!NotReading]
  PROVE  /\ reading' \in [Reads -> Readings]
         /\ \A r \in Reads : reading'[r] = reading[r] \/ ~reading'[r].on
<1>1. F!NotReading \in Readings
  BY EmptyIs DEF F!NotReading, Readings
<1>2. ~F!NotReading.on
  BY DEF F!NotReading
<1> QED
  BY <1>1, <1>2 DEF FormInv, FormFits

LEMMA RemoveFileStep == ASSUME FormInv, NEW i, F!RemoveFile(i) PROVE FormInv'
<1>1. /\ i \in DOMAIN files /\ reading' = reading
      /\ F!Set(F!RemoveAt(files, i), wanted \ {files[i]})
      /\ UNCHANGED <<single, shown, submit, creating>>
  BY DEF F!RemoveFile
<1>2. PICK s \in Distincts : s = files /\ i \in 1..Len(s) /\ Len(s) <= F!Limit /\ Len(s) \in Nat
  BY <1>1, DistinctIs DEF FormInv, FormFits
<1>3. PICK now \in Distincts : /\ now = F!RemoveAt(s, i) /\ Len(now) = Len(s) - 1
                               /\ F!ToSet(now) = F!ToSet(s) \ {s[i]}
  BY <1>2, RemovedIs
<1>4. PICK want \in SUBSET Files : want = wanted \ {s[i]}
  BY DEF FormInv, FormFits
<1>5. F!Set(now, want)
  BY <1>1, <1>2, <1>3, <1>4
<1>6. Len(now) <= F!Limit
  <2>1. F!Limit \in Nat
    BY FilesAssumption DEF F!Limit
  <2> QED
    BY <1>2, <1>3, <2>1
<1>7. /\ reading' \in [Reads -> Readings]
      /\ \A r \in Reads : reading'[r] = reading[r] \/ ~reading'[r].on
  BY <1>1, ReadingsGoOn
<1>8. ~crossed /\ (\A r \in Reads : ~reading'[r].on) => F!ToSet(now) = want
  <2> SUFFICES ASSUME ~crossed, \A r \in Reads : ~reading[r].on PROVE F!ToSet(s) = wanted
    BY <1>1, <1>3, <1>4
  <2> QED
    BY <1>2 DEF FormInv, WantedFollows
<1>9. shown' \in BOOLEAN /\ creating' \in BOOLEAN /\ submit' \in Distincts
  BY <1>1 DEF FormInv, FormFits
<1> QED
  BY <1>1, <1>5, <1>6, <1>7, <1>8, <1>9, FieldSet

\* The field is emptied.
LEMMA FieldCleared ==
  ASSUME FormInv, F!Set(<< >>, {}),
         single' = single, shown' \in BOOLEAN, creating' \in BOOLEAN, submit' \in Distincts,
         reading' = reading \/ reading' = [r \in Reads |-> F!NotReading]
  PROVE  FormInv'
<1>1. PICK now \in Distincts : now = << >> /\ Len(now) = 0 /\ F!ToSet(now) = {}
  BY EmptyIs
<1>2. PICK want \in SUBSET Files : want = {}
  OBVIOUS
<1>3. F!Set(now, want) /\ F!ToSet(now) = want
  BY <1>1, <1>2
<1>4. Len(now) <= F!Limit
  BY <1>1, FilesAssumption DEF F!Limit
<1>5. /\ reading' \in [Reads -> Readings]
      /\ \A r \in Reads : reading'[r] = reading[r] \/ ~reading'[r].on
  BY ReadingsGoOn
<1> QED
  BY <1>3, <1>4, <1>5, FieldSet

LEMMA ClearStep ==
  ASSUME FormInv, F!RemoveAllFiles \/ F!Reject \/ F!Uploaded \/ F!Created \/ F!Close
  PROVE  FormInv'
<1>1. << >> \in Distincts
  BY EmptyIs
<1>2. /\ F!Set(<< >>, {}) /\ single' = single
      /\ shown' \in BOOLEAN /\ creating' \in BOOLEAN /\ submit' \in Distincts
      /\ reading' = reading \/ reading' = [r \in Reads |-> F!NotReading]
  BY <1>1 DEF F!RemoveAllFiles, F!Reject, F!Uploaded, F!Created, F!Close, F!Reset,
              FormInv, FormFits
<1> QED
  BY <1>2, FieldCleared

\* The field and what is read stay; a form that is opened had none under way, or
\* something is unclear.
LEMMA FormStays ==
  ASSUME FormInv, UNCHANGED <<single, files, wanted, crossed, reading>>,
         shown' \in BOOLEAN, shown => shown', submit' \in Distincts, creating' \in BOOLEAN
  PROVE  FormInv'
<1>1. F!Limit' = F!Limit
  BY DEF F!Limit
<1>2. (Len(files) <= F!Limit)'
  BY <1>1 DEF FormInv, FormFits
<1>3. FormFits'
  BY <1>2 DEF FormInv, FormFits
<1>4. ReadingsFit' /\ WantedFollows'
  BY DEF FormInv, ReadingsFit, WantedFollows, F!ToSet
<1> QED
  BY <1>3, <1>4 DEF FormInv

LEMMA FormStaysStep ==
  ASSUME FormInv, F!Submit \/ F!CreateFails \/ F!Open \/ UNCHANGED fVars
  PROVE  FormInv'
<1>1. /\ UNCHANGED <<single, files, wanted, crossed, reading>>
      /\ shown' \in BOOLEAN /\ (shown => shown') /\ submit' \in Distincts /\ creating' \in BOOLEAN
  BY DEF F!Submit, F!CreateFails, F!Open, F!formVars, fVars, FormInv, FormFits
<1> QED
  BY <1>1, FormStays

LEMMA FormStarts == F!Init => FormInv
<1> SUFFICES ASSUME F!Init PROVE FormInv
  OBVIOUS
<1>1. F!NotReading \in Readings /\ ~F!NotReading.on
  BY EmptyIs DEF F!NotReading, Readings
<1>2. FormFits
  <2>1. PICK now \in Distincts : now = << >> /\ Len(now) = 0
    BY EmptyIs
  <2>2. files = now /\ submit = now
    BY <2>1 DEF F!Init
  <2>3. Len(now) <= F!Limit
    BY <2>1, FilesAssumption DEF F!Limit
  <2>4. reading \in [Reads -> Readings]
    BY <1>1 DEF F!Init
  <2> QED
    BY <2>2, <2>3, <2>4 DEF F!Init, FormFits
<1>3. \A r \in Reads : ~reading[r].on
  BY <1>1 DEF F!Init
<1> QED
  BY <1>2, <1>3, EmptyIs DEF F!Init, FormInv, ReadingsFit, WantedFollows

LEMMA FormKept == FormInv /\ [F!Next]_fVars => FormInv'
BY ChooseStep, ImagesReadStep, DocumentReadStep, RemoveFileStep, ClearStep, FormStaysStep
   DEF F!Next

LEMMA FormAlways == Spec => []FormInv
<1>1. Init => FormInv
  BY FormStarts DEF Init
<1>2. FormInv /\ [Next]_vars => FormInv'
  <2>1. [Next]_vars => [F!Next]_fVars
    BY DEF Next, vars
  <2> QED
    BY <2>1, FormKept
<1> QED
  BY <1>1, <1>2, PTL DEF Spec

\* The field has at most as many files as allowed and none twice, whatever is
\* chosen, removed and submitted while files are read, for every set of files,
\* limit and number of readings; and it has exactly the files that were chosen
\* and neither removed nor unreadable, unless something crossed a reading
\* (multi-document-uploader.tsx:170, DocumentUploader.tsx:115).
THEOREM FormKeepsFiles == Spec => []FilesFit
<1>1. FormInv => FilesFit
  <2> SUFFICES ASSUME FormInv PROVE F!FilesFit
    BY DEF FilesFit
  <2>1. Len(files) <= F!Limit /\ F!IsInjective(files)
    BY DistinctIs DEF FormInv, FormFits
  <2>2. F!UnderWay(reading) = {} /\ ~crossed => F!ToSet(files) = wanted
    BY DEF FormInv, WantedFollows, F!UnderWay
  <2> QED
    BY <2>1, <2>2 DEF F!FilesFit
<1> QED
  BY <1>1, FormAlways, PTL

-----------------------------------------------------------------------------
(***************************************************************************)
(* The types of all parts.                                                 *)
(***************************************************************************)
LEMMA LifeTypes == LifeFits => L!TypeOK
<1> SUFFICES ASSUME LifeFits PROVE L!TypeOK
  OBVIOUS
<1>1. ASSUME NEW r \in Calls
      PROVE  /\ req[r].at \in LifeSteps /\ req[r].i \in {0, Chunk}
             /\ L!C!Range(req[r].keys) \subseteq L!Keys
  <2>1. PICK q \in LifeRequests : q = req[r]
    BY DEF LifeFits
  <2>2. q.at \in LifeSteps /\ q.i \in {0, Chunk} /\ q.keys \in Seq(L!Keys)
    BY DEF LifeRequests
  <2>3. L!C!Range(q.keys) \subseteq L!Keys
    BY <2>2, ElementOfSeq, LenProperties DEF L!C!Range
  <2> QED
    BY <2>1, <2>2, <2>3
<1>2. lapse.failed \in BOOLEAN /\ lapse.window \in SUBSET L!Keys
  BY DEF LifeFits
<1>3. L!C!EntriesOK
  BY <1>1, <1>2 DEF LifeFits, L!C!EntriesOK
<1> QED
  BY <1>1, <1>3 DEF LifeFits, L!TypeOK, LifeSteps

LEMMA TagTypes == TagFits => T!TypeOK
<1> SUFFICES ASSUME TagFits PROVE T!TypeOK
  OBVIOUS
<1>1. ASSUME NEW r \in Calls
      PROVE  /\ pageReq[r].at \in T!Steps /\ pageReq[r].i \in {0, PageChunk}
             /\ T!Range(pageReq[r].keys) \subseteq Pages
  <2>1. PICK q \in TagRequests : q = pageReq[r]
    BY DEF TagFits
  <2>2. q.at \in T!Steps /\ q.i \in {0, PageChunk} /\ q.keys \in Seq(Pages)
    BY DEF TagRequests
  <2>3. T!Range(q.keys) \subseteq Pages
    BY <2>2, ElementOfSeq, LenProperties DEF T!Range
  <2> QED
    BY <2>1, <2>2, <2>3
<1>2. pageLapse.failed \in BOOLEAN /\ pageLapse.window \in SUBSET Pages
  BY DEF TagFits
<1>3. T!EntriesOK
  BY <1>1, <1>2 DEF TagFits, T!EntriesOK
<1> QED
  BY <1>1, <1>3 DEF TagFits, T!TypeOK

LEMMA FormTypes == FormFits => F!TypeOK
<1> SUFFICES ASSUME FormFits PROVE F!TypeOK
  OBVIOUS
<1>1. files \in F!Lists /\ submit \in F!Lists
  BY DistinctFits DEF FormFits
<1>2. Readings \subseteq F!ReadType
  BY DistinctFits DEF Readings, F!ReadType
<1>3. reading \in [Reads -> F!ReadType]
  BY <1>2 DEF FormFits
<1> QED
  BY <1>1, <1>3 DEF FormFits, F!TypeOK

\* Every part keeps the types of its variables, for all values of the constants.
THEOREM EventsTypes == Spec => []TypeOK
<1> DEFINE Part == part \in {"lifecycle", "attendees", "availability", "stock page",
                             "query cache", "form"}
<1>1. Spec => []Part
  <2>1. Init => Part
    BY DEF Init
  <2>2. Part /\ [Next]_vars => Part'
    BY DEF Next, vars
  <2> QED
    BY <2>1, <2>2, PTL DEF Spec
<1>2. Part /\ LifeInv /\ TagInv /\ AvailInv /\ StockInv /\ QueryInv /\ FormInv => TypeOK
  <2> SUFFICES ASSUME Part, LifeInv, TagInv, AvailInv, StockInv, QueryInv, FormInv PROVE TypeOK
    OBVIOUS
  <2>1. L!TypeOK /\ T!TypeOK /\ A!TypeOK /\ F!TypeOK
    BY LifeTypes, TagTypes, AvailTypes, FormTypes DEF LifeInv, TagInv, AvailInv, FormInv
  <2>2. S!TypeOK /\ Q!TypeOK
    BY DEF StockInv, QueryInv
  <2> QED
    BY <2>1, <2>2 DEF TypeOK, Lifecycle, Attendees, Available, StockPage, Cached, Form
<1> HIDE DEF Part
<1> QED
  BY <1>1, <1>2, LifeAlways, TagAlways, AvailAlways, StockAlways, QueryAlways, FormAlways, PTL
=============================================================================
