---------------------------- MODULE PeersProofs ----------------------------
(***************************************************************************)
(* What holds of bans and connections for every set of peers, every choice *)
(* of seeds and penalties and every bound: the types, that a ban only the  *)
(* database knows is about to be deleted, and that a banned peer stays     *)
(* out.  Each is inductive given the types; the steps are lemmas by kind   *)
(* of state, one step for each action.                                     *)
(***************************************************************************)
EXTENDS Peers, TLAPS

\* An offence keeps the ban maps typed: a score that is kept is below the
\* threshold.
LEMMA OffenceTypes ==
  ASSUME TypeOK, NEW p \in Peers, NEW penalty \in Nat, RecordOffense(p, penalty)
  PROVE  /\ bans' \in [Peers -> {"none", "active", "expired"}]
         /\ banStore' \in [Peers -> {"none", "active", "expired"}]
         /\ scores' \in [Peers -> 0..(BanThreshold - 1)]
<1>1. /\ bans \in [Peers -> {"none", "active", "expired"}]
      /\ banStore \in [Peers -> {"none", "active", "expired"}]
      /\ scores \in [Peers -> 0..(BanThreshold - 1)]
      /\ BanThreshold \in Nat \ {0}
  BY Penalties DEF TypeOK, BanTypes
<1>2. CASE Active(p)
  BY <1>1, <1>2 DEF RecordOffense, banVars
<1>3. CASE ~Active(p) /\ scores[p] + penalty < BanThreshold
  <2>1. scores' = [scores EXCEPT ![p] = scores[p] + penalty] /\ UNCHANGED <<bans, banStore>>
    BY <1>3 DEF RecordOffense
  <2>2. scores[p] + penalty \in 0..(BanThreshold - 1)
    BY <1>1, <1>3
  <2> QED BY <1>1, <2>1, <2>2
<1>4. CASE ~Active(p) /\ ~(scores[p] + penalty < BanThreshold)
  <2>1. /\ bans' = [bans EXCEPT ![p] = "active"]
        /\ scores' = [scores EXCEPT ![p] = 0]
        /\ banStore' = [banStore EXCEPT ![p] = "active"]
    BY <1>4 DEF RecordOffense
  <2> QED BY <1>1, <2>1
<1> QED BY <1>2, <1>3, <1>4

LEMMA PenaltiesAreNat ==
  PenaltyHandshakeFail \in Nat /\ \A l \in Loops : Penalty(l) \in Nat
BY Penalties DEF Penalty, Loops

LEMMA ExpiredTypes ==
  ASSUME TypeOK, NEW c \in Callers, NEW p \in Peers, Expired(c, p)
  PROVE  /\ deleting' \in [Callers -> SUBSET ({"map", "store"} \X Peers)]
         /\ \A d \in Callers : deleting[d] \subseteq deleting'[d]
BY DEF TypeOK, BanTypes, Expired

LEMMA DialTypes ==
  ASSUME TypeOK, NEW p \in Peers, Dial(p)
  PROVE  /\ deleting' \in [Callers -> SUBSET ({"map", "store"} \X Peers)]
         /\ \A d \in Callers : deleting[d] \subseteq deleting'[d]
         /\ attempt' \in [Peers -> [way : {"none", "in", "out"}, at : {"none", "secure", "open"}]]
         /\ \A q \in Peers : attempt'[q].at # "none" => attempt'[q].way # "none"
         /\ \A q \in Peers : attempt'[q].at = "open" => attempt[q].at = "open"
<1>1. p \in Callers
  BY DEF Callers
<1>2. Expired(p, p) /\ (attempt' = [attempt EXCEPT ![p] = Securing("out")] \/ attempt' = attempt)
  BY DEF Dial
<1>3. /\ attempt \in [Peers -> [way : {"none", "in", "out"}, at : {"none", "secure", "open"}]]
      /\ \A q \in Peers : attempt[q].at # "none" => attempt[q].way # "none"
  BY DEF TypeOK, NetTypes
<1>4. Securing("out") = [way |-> "out", at |-> "secure"]
  BY DEF Securing
<1>5. /\ attempt' \in [Peers -> [way : {"none", "in", "out"}, at : {"none", "secure", "open"}]]
      /\ \A q \in Peers : attempt'[q].at # "none" => attempt'[q].way # "none"
      /\ \A q \in Peers : attempt'[q].at = "open" => attempt[q].at = "open"
  <2>1. CASE attempt' = attempt
    BY <1>3, <2>1
  <2>2. CASE attempt' = [attempt EXCEPT ![p] = Securing("out")]
    BY <1>3, <1>4, <2>2
  <2> QED BY <1>2, <2>1, <2>2
<1> QED BY <1>1, <1>2, <1>5, ExpiredTypes

\* Empty inboxes and idle dialers are typed.
LEMMA IdleTypes ==
  /\ [l \in Loops |-> Empty] \in [Loops -> [from : Peers \cup {NoPeer}, bad : BOOLEAN,
                                          at : {"empty", "queued", "added"}]]
  /\ \A l \in Loops : [k \in Loops |-> Empty][l].at = "empty"
  /\ [d \in Dialers |-> Idle] \in [Dialers -> [peer : Peers \cup {NoPeer},
                                              at : {"idle", "connect", "wait", "add"}]]
  /\ \A d \in Dialers : [k \in Dialers |-> Idle][d].at = "idle"
<1>1. Empty \in [from : Peers \cup {NoPeer}, bad : BOOLEAN, at : {"empty", "queued", "added"}]
      /\ Empty.at = "empty"
  BY DEF Empty
<1>2. Idle \in [peer : Peers \cup {NoPeer}, at : {"idle", "connect", "wait", "add"}]
      /\ Idle.at = "idle"
  BY DEF Idle
<1> QED BY <1>1, <1>2

\* What persistPeers may leave in the store are peers.
LEMMA SavedTypes ==
  ASSUME TypeOK
  PROVE  \A kept \in SavedPeers : kept \in SUBSET Peers
BY DEF TypeOK, TableTypes, SavedPeers

\* The ban maps, the scores and the pending deletions.
LEMMA BanSteps ==
  ASSUME TypeOK, Next
  PROVE  BanTypes'
<1> USE SomeSeeds, Penalties
    DEF TypeOK, BanTypes, NetTypes, TableTypes, Dialers, Callers, banVars, Active
<1>1. ASSUME NEW clear \in BOOLEAN, Start(clear)
      PROVE  BanTypes'
  BY <1>1 DEF Start, PruneAll, PruneExpired
<1>2. ASSUME NameSeeds
      PROVE  BanTypes'
  BY <1>2 DEF NameSeeds
<1>3. ASSUME Down
      PROVE  BanTypes'
  BY <1>3 DEF Down, SavedPeers, Idle, Empty, Nobody, Quiet
<1>4. ASSUME Persist
      PROVE  BanTypes'
  BY <1>4 DEF Persist, SavedPeers, PruneStale
<1>5. ASSUME RetrySeeds
      PROVE  BanTypes'
  BY <1>5 DEF RetrySeeds
<1>6. ASSUME ConnectSeed
      PROVE  BanTypes'
  BY <1>6 DEF ConnectSeed, Connect, Dial, Expired, Idle
<1>7. ASSUME AddDialed("seed")
      PROVE  BanTypes'
  BY <1>7 DEF AddDialed, Idle
<1>8. ASSUME NEW s \in Seeds, VisitSeed(s)
       PROVE  BanTypes'
  <2>1. "seed" \in Callers /\ s \in Peers
    BY SomeSeeds DEF Callers, Dialers
  <2>2. CASE Active(s)
    <3>1. /\ bans' = [bans EXCEPT ![s] = "none"] /\ scores' = [scores EXCEPT ![s] = 0]
          /\ deleting' = [deleting EXCEPT !["seed"] = @ \cup {<<"store", s>>}]
          /\ banStore' = banStore
      BY <1>8, <2>2 DEF VisitSeed, Unban
    <3>2. deleting["seed"] \in SUBSET ({"map", "store"} \X Peers) /\ <<"store", s>> \in {"map",
     "store"} \X Peers
      BY <2>1
    <3> QED BY <2>1, <3>1, <3>2
  <2>3. CASE ~Active(s)
    BY <1>8, <2>1, <2>3, ExpiredTypes DEF VisitSeed, TypeOK, BanTypes
  <2> QED BY <2>2, <2>3
<1>9. ASSUME AddDialed("mdns")
       PROVE  BanTypes'
  BY <1>9 DEF AddDialed, Idle
<1>10. ASSUME NEW c \in Callers, NEW p \in Peers, DeleteFromMap(c, p)
       PROVE  BanTypes'
  BY <1>10 DEF DeleteFromMap
<1>11. ASSUME NEW c \in Callers, NEW p \in Peers, DeleteFromStore(c, p)
       PROVE  BanTypes'
  BY <1>11 DEF DeleteFromStore
<1>12. ASSUME NEW l \in Loops, HandleMessage(l)
       PROVE  BanTypes'
  BY <1>12 DEF HandleMessage, Empty
<1>13. ASSUME NEW l \in Loops, JudgeMessage(l)
       PROVE  BanTypes'
  <2>0. inbox[l].from \in Peers
    BY <1>13 DEF JudgeMessage, TypeOK, TableTypes
  <2>1. /\ bans' \in [Peers -> {"none", "active", "expired"}]
        /\ banStore' \in [Peers -> {"none", "active", "expired"}]
        /\ scores' \in [Peers -> 0..(BanThreshold - 1)]
    BY <1>13, <2>0, OffenceTypes, PenaltiesAreNat DEF JudgeMessage, TypeOK, BanTypes, banVars
  <2>2. deleting' = deleting
    BY <1>13 DEF JudgeMessage
  <2> QED BY <2>1, <2>2 DEF TypeOK, BanTypes
<1>14. ASSUME NEW l \in Loops, NEW p \in Peers, NEW bad \in BOOLEAN, Receive(l, p, bad)
       PROVE  BanTypes'
  BY <1>14 DEF Receive, Spend
<1>15. ASSUME NEW p \in Peers, DisconnectRemove(p)
       PROVE  BanTypes'
  BY <1>15 DEF DisconnectRemove
<1>16. ASSUME NEW p \in Peers, DisconnectClose(p)
       PROVE  BanTypes'
  BY <1>16 DEF DisconnectClose
<1>17. ASSUME NEW p \in Peers, Disconnected(p)
       PROVE  BanTypes'
  BY <1>17 DEF Disconnected
<1>18. ASSUME NEW p \in Peers, RemoveDisconnected(p)
       PROVE  BanTypes'
  BY <1>18 DEF RemoveDisconnected
<1>19. ASSUME NEW p \in Peers, DoHandshake(p)
       PROVE  BanTypes'
  <2>1. /\ bans' \in [Peers -> {"none", "active", "expired"}]
        /\ banStore' \in [Peers -> {"none", "active", "expired"}]
        /\ scores' \in [Peers -> 0..(BanThreshold - 1)]
    BY <1>19, OffenceTypes, PenaltiesAreNat DEF DoHandshake, Reject, TypeOK, BanTypes, banVars
  <2>2. deleting' = deleting
    BY <1>19 DEF DoHandshake
  <2> QED BY <2>1, <2>2 DEF TypeOK, BanTypes
<1>20. ASSUME NEW p \in Peers, AnswerHandshake(p)
       PROVE  BanTypes'
  <2>1. /\ bans' \in [Peers -> {"none", "active", "expired"}]
        /\ banStore' \in [Peers -> {"none", "active", "expired"}]
        /\ scores' \in [Peers -> 0..(BanThreshold - 1)]
    BY <1>20, OffenceTypes, PenaltiesAreNat DEF AnswerHandshake, Reject, TypeOK, BanTypes, banVars
  <2>2. deleting' = deleting
    BY <1>20 DEF AnswerHandshake
  <2> QED BY <2>1, <2>2 DEF TypeOK, BanTypes
<1>21. ASSUME NEW p \in Peers, Accept(p)
       PROVE  BanTypes'
  BY <1>21 DEF Accept
<1>22. ASSUME NEW p \in Peers, Secure(p)
       PROVE  BanTypes'
  BY <1>22 DEF Secure, Refuse, Settle, Expired, Idle
<1>23. ASSUME NEW p \in Peers, Open(p)
       PROVE  BanTypes'
  BY <1>23 DEF Open, Settle
<1>24. ASSUME NEW p \in Peers, Fail(p)
       PROVE  BanTypes'
  BY <1>24 DEF Fail, Refuse, Settle, Idle
<1>25. ASSUME NEW p \in Peers, Drop(p)
       PROVE  BanTypes'
  BY <1>25 DEF Drop
<1>26. ASSUME NEW p \in Peers, FoundByMDNS(p)
       PROVE  BanTypes'
  BY <1>26 DEF FoundByMDNS, Connect, Dial, Expired, Idle
<1>27. ASSUME NEW p \in Peers, FoundByDHT(p)
       PROVE  BanTypes'
  BY <1>27 DEF FoundByDHT, Dial, Expired
<1>28. ASSUME NEW p \in Peers, DialSaved(p)
       PROVE  BanTypes'
  <2>1. deleting' \in [Callers -> SUBSET ({"map", "store"} \X Peers)]
    BY <1>28, DialTypes DEF DialSaved, TypeOK, BanTypes
  <2> QED BY <1>28, <2>1 DEF DialSaved, TypeOK, BanTypes, banVars
<1>29. ASSUME NEW p \in Peers, DayPasses(p)
       PROVE  BanTypes'
  BY <1>29 DEF DayPasses
<1> HIDE DEF TypeOK, BanTypes, NetTypes, TableTypes, Callers
<1> QED
  BY <1>1, <1>2, <1>3, <1>4, <1>5, <1>6, <1>7, <1>8, <1>9, <1>10, <1>11, <1>12, <1>13, <1>14,
     <1>15, <1>16, <1>17, <1>18, <1>19, <1>20, <1>21, <1>22, <1>23, <1>24, <1>25, <1>26, <1>27,
     <1>28, <1>29 DEF Next, StartUp, SeedLoop, Delete, ReadLoop, Disconnect, Callback

\* Connections, attempts and callbacks.
LEMMA NetSteps ==
  ASSUME TypeOK, Next
  PROVE  NetTypes'
<1> USE SomeSeeds
    DEF TypeOK, NetTypes, TableTypes, Dialers, netVars, Nobody, NoAttempt, Securing
<1>1. ASSUME NEW clear \in BOOLEAN, Start(clear)
      PROVE  NetTypes'
  BY <1>1 DEF Start
<1>2. ASSUME NameSeeds
      PROVE  NetTypes'
  BY <1>2 DEF NameSeeds
<1>3. ASSUME Down
      PROVE  NetTypes'
  BY <1>3 DEF Down, SavedPeers, Idle, Empty, Nobody, Quiet
<1>4. ASSUME Persist
      PROVE  NetTypes'
  BY <1>4 DEF Persist, SavedPeers, PruneStale
<1>5. ASSUME RetrySeeds
      PROVE  NetTypes'
  BY <1>5 DEF RetrySeeds
<1>6. ASSUME ConnectSeed
      PROVE  NetTypes'
  <2>1. dialing["seed"].peer \in Peers
    BY <1>6 DEF ConnectSeed, TypeOK, TableTypes, Dialers
  <2>2. Dial(dialing["seed"].peer) \/ UNCHANGED attempt
    BY <1>6 DEF ConnectSeed, Connect
  <2>3. UNCHANGED <<conns, events, closing>>
    BY <1>6 DEF ConnectSeed
  <2> QED BY <2>1, <2>2, <2>3, DialTypes DEF TypeOK, NetTypes
<1>7. ASSUME AddDialed("seed")
      PROVE  NetTypes'
  BY <1>7 DEF AddDialed, Idle
<1>8. ASSUME NEW s \in Seeds, VisitSeed(s)
       PROVE  NetTypes'
  BY <1>8 DEF VisitSeed, Unban, Expired
<1>9. ASSUME AddDialed("mdns")
       PROVE  NetTypes'
  BY <1>9 DEF AddDialed, Idle
<1>10. ASSUME NEW c \in Callers, NEW p \in Peers, DeleteFromMap(c, p)
       PROVE  NetTypes'
  BY <1>10 DEF DeleteFromMap
<1>11. ASSUME NEW c \in Callers, NEW p \in Peers, DeleteFromStore(c, p)
       PROVE  NetTypes'
  BY <1>11 DEF DeleteFromStore
<1>12. ASSUME NEW l \in Loops, HandleMessage(l)
       PROVE  NetTypes'
  BY <1>12 DEF HandleMessage, Empty
<1>13. ASSUME NEW l \in Loops, JudgeMessage(l)
       PROVE  NetTypes'
  BY <1>13 DEF JudgeMessage, Empty, RecordOffense, DisconnectIfBanned, Disconnecting
<1>14. ASSUME NEW l \in Loops, NEW p \in Peers, NEW bad \in BOOLEAN, Receive(l, p, bad)
       PROVE  NetTypes'
  BY <1>14 DEF Receive, Spend
<1>15. ASSUME NEW p \in Peers, DisconnectRemove(p)
       PROVE  NetTypes'
  BY <1>15 DEF DisconnectRemove
<1>16. ASSUME NEW p \in Peers, DisconnectClose(p)
       PROVE  NetTypes'
  BY <1>16 DEF DisconnectClose
<1>17. ASSUME NEW p \in Peers, Disconnected(p)
       PROVE  NetTypes'
  BY <1>17 DEF Disconnected
<1>18. ASSUME NEW p \in Peers, RemoveDisconnected(p)
       PROVE  NetTypes'
  BY <1>18 DEF RemoveDisconnected
<1>19. ASSUME NEW p \in Peers, DoHandshake(p)
       PROVE  NetTypes'
  BY <1>19 DEF DoHandshake, Reject, RecordOffense, Disconnecting
<1>20. ASSUME NEW p \in Peers, AnswerHandshake(p)
       PROVE  NetTypes'
  BY <1>20 DEF AnswerHandshake, Reject, RecordOffense, Disconnecting
<1>21. ASSUME NEW p \in Peers, Accept(p)
       PROVE  NetTypes'
  BY <1>21 DEF Accept
<1>22. ASSUME NEW p \in Peers, Secure(p)
       PROVE  NetTypes'
  <2>1. \/ attempt' = [attempt EXCEPT ![p].at = "open"]
        \/ attempt' = [attempt EXCEPT ![p] = NoAttempt]
    BY <1>22 DEF Secure, Refuse
  <2>2. attempt[p].at = "secure" /\ UNCHANGED <<conns, events, closing>>
    BY <1>22 DEF Secure
  <2>3. CASE attempt' = [attempt EXCEPT ![p].at = "open"]
    BY <2>2, <2>3 DEF TypeOK, NetTypes
  <2>4. CASE attempt' = [attempt EXCEPT ![p] = NoAttempt]
    BY <2>2, <2>4 DEF TypeOK, NetTypes, NoAttempt
  <2> QED BY <2>1, <2>3, <2>4
<1>23. ASSUME NEW p \in Peers, Open(p)
       PROVE  NetTypes'
  BY <1>23 DEF Open, Settle
<1>24. ASSUME NEW p \in Peers, Fail(p)
       PROVE  NetTypes'
  BY <1>24 DEF Fail, Refuse, Settle, Idle
<1>25. ASSUME NEW p \in Peers, Drop(p)
       PROVE  NetTypes'
  BY <1>25 DEF Drop
<1>26. ASSUME NEW p \in Peers, FoundByMDNS(p)
       PROVE  NetTypes'
  <2>1. (Dial(p) \/ UNCHANGED attempt) /\ UNCHANGED <<conns, events, closing>>
    BY <1>26 DEF FoundByMDNS, Connect
  <2> QED BY <2>1, DialTypes
<1>27. ASSUME NEW p \in Peers, FoundByDHT(p)
       PROVE  NetTypes'
  BY <1>27 DEF FoundByDHT, Dial, Expired
<1>28. ASSUME NEW p \in Peers, DialSaved(p)
       PROVE  NetTypes'
  <2>1. \/ Dial(p)
        \/ UNCHANGED attempt
    BY <1>28 DEF DialSaved
  <2>2. UNCHANGED <<conns, events, closing>>
    BY <1>28 DEF DialSaved
  <2> QED BY <2>1, <2>2, DialTypes DEF TypeOK, NetTypes
<1>29. ASSUME NEW p \in Peers, DayPasses(p)
       PROVE  NetTypes'
  BY <1>29 DEF DayPasses
<1> HIDE DEF TypeOK, NetTypes, TableTypes
<1> QED
  BY <1>1, <1>2, <1>3, <1>4, <1>5, <1>6, <1>7, <1>8, <1>9, <1>10, <1>11, <1>12, <1>13, <1>14,
     <1>15, <1>16, <1>17, <1>18, <1>19, <1>20, <1>21, <1>22, <1>23, <1>24, <1>25, <1>26, <1>27,
     <1>28, <1>29 DEF Next, StartUp, SeedLoop, Delete, ReadLoop, Disconnect, Callback

\* The table, the dialers, the read loops and the saved peers.
LEMMA TableSteps ==
  ASSUME TypeOK, Next
  PROVE  TableTypes'
<1> USE SomeSeeds
    DEF TypeOK, TableTypes, NetTypes, Dialers, Loops, dialVars
<1>1. ASSUME NEW clear \in BOOLEAN, Start(clear)
      PROVE  TableTypes'
  <2>1. saved' \in SUBSET Peers /\ toLoad' \in SUBSET Peers /\ up' \in BOOLEAN
    BY <1>1 DEF Start, PruneStale, TypeOK, TableTypes
  <2> QED BY <1>1, <2>1 DEF Start, TypeOK, TableTypes
<1>2. ASSUME NameSeeds
      PROVE  TableTypes'
  BY <1>2 DEF NameSeeds
<1>3. ASSUME Down
      PROVE  TableTypes'
  <2>1. saved' \in SUBSET Peers
    BY <1>3, SavedTypes DEF Down, TypeOK, TableTypes
  <2>2. inbox' = [k \in Loops |-> Empty] /\ dialing' = [d \in Dialers |-> Idle]
    BY <1>3 DEF Down
  <2> QED BY <1>3, <2>1, <2>2, IdleTypes DEF Down, TypeOK, TableTypes
<1>4. ASSUME Persist
      PROVE  TableTypes'
  BY <1>4 DEF Persist, SavedPeers, PruneStale
<1>5. ASSUME RetrySeeds
      PROVE  TableTypes'
  BY <1>5 DEF RetrySeeds
<1>6. ASSUME ConnectSeed
      PROVE  TableTypes'
  BY <1>6 DEF ConnectSeed, Connect, Dial, Expired, Idle
<1>7. ASSUME AddDialed("seed")
      PROVE  TableTypes'
  BY <1>7 DEF AddDialed, Idle
<1>8. ASSUME NEW s \in Seeds, VisitSeed(s)
       PROVE  TableTypes'
  BY <1>8 DEF VisitSeed, Unban, Expired
<1>9. ASSUME AddDialed("mdns")
       PROVE  TableTypes'
  BY <1>9 DEF AddDialed, Idle
<1>10. ASSUME NEW c \in Callers, NEW p \in Peers, DeleteFromMap(c, p)
       PROVE  TableTypes'
  BY <1>10 DEF DeleteFromMap
<1>11. ASSUME NEW c \in Callers, NEW p \in Peers, DeleteFromStore(c, p)
       PROVE  TableTypes'
  BY <1>11 DEF DeleteFromStore
<1>12. ASSUME NEW l \in Loops, HandleMessage(l)
       PROVE  TableTypes'
  <2>1. inbox[l].from \in Peers /\ inbox \in [Loops -> [from : Peers \cup {NoPeer},
            bad : BOOLEAN, at : {"empty", "queued", "added"}]]
    BY <1>12 DEF HandleMessage, TypeOK, TableTypes
  <2>2. inbox' = [inbox EXCEPT ![l].at = "added"] /\ peers' = peers \cup {inbox[l].from}
    BY <1>12 DEF HandleMessage
  <2>3. /\ inbox' \in [Loops -> [from : Peers \cup {NoPeer}, bad : BOOLEAN,
                                 at : {"empty", "queued", "added"}]]
        /\ \A k \in Loops : inbox'[k].at # "empty" => inbox'[k].from \in Peers
    BY <2>1, <2>2 DEF TypeOK, TableTypes
  <2> QED BY <1>12, <2>1, <2>2, <2>3 DEF HandleMessage, TypeOK, TableTypes, dialVars
<1>13. ASSUME NEW l \in Loops, JudgeMessage(l)
       PROVE  TableTypes'
  BY <1>13 DEF JudgeMessage, Empty, RecordOffense, DisconnectIfBanned, Disconnecting
<1>14. ASSUME NEW l \in Loops, NEW p \in Peers, NEW bad \in BOOLEAN, Receive(l, p, bad)
       PROVE  TableTypes'
  BY <1>14 DEF Receive, Spend
<1>15. ASSUME NEW p \in Peers, DisconnectRemove(p)
       PROVE  TableTypes'
  BY <1>15 DEF DisconnectRemove
<1>16. ASSUME NEW p \in Peers, DisconnectClose(p)
       PROVE  TableTypes'
  BY <1>16 DEF DisconnectClose
<1>17. ASSUME NEW p \in Peers, Disconnected(p)
       PROVE  TableTypes'
  BY <1>17 DEF Disconnected
<1>18. ASSUME NEW p \in Peers, RemoveDisconnected(p)
       PROVE  TableTypes'
  BY <1>18 DEF RemoveDisconnected
<1>19. ASSUME NEW p \in Peers, DoHandshake(p)
       PROVE  TableTypes'
  BY <1>19 DEF DoHandshake, Reject, RecordOffense, Disconnecting
<1>20. ASSUME NEW p \in Peers, AnswerHandshake(p)
       PROVE  TableTypes'
  BY <1>20 DEF AnswerHandshake, Reject, RecordOffense, Disconnecting
<1>21. ASSUME NEW p \in Peers, Accept(p)
       PROVE  TableTypes'
  BY <1>21 DEF Accept
<1>22. ASSUME NEW p \in Peers, Secure(p)
       PROVE  TableTypes'
  BY <1>22 DEF Secure, Refuse, Settle, Expired, Idle
<1>23. ASSUME NEW p \in Peers, Open(p)
       PROVE  TableTypes'
  BY <1>23 DEF Open, Settle
<1>24. ASSUME NEW p \in Peers, Fail(p)
       PROVE  TableTypes'
  BY <1>24 DEF Fail, Refuse, Settle, Idle
<1>25. ASSUME NEW p \in Peers, Drop(p)
       PROVE  TableTypes'
  BY <1>25 DEF Drop
<1>26. ASSUME NEW p \in Peers, FoundByMDNS(p)
       PROVE  TableTypes'
  BY <1>26 DEF FoundByMDNS, Connect, Dial, Expired, Idle
<1>27. ASSUME NEW p \in Peers, FoundByDHT(p)
       PROVE  TableTypes'
  BY <1>27 DEF FoundByDHT, Dial, Expired
<1>28. ASSUME NEW p \in Peers, DialSaved(p)
       PROVE  TableTypes'
  BY <1>28 DEF DialSaved, Dial, Expired
<1>29. ASSUME NEW p \in Peers, DayPasses(p)
       PROVE  TableTypes'
  BY <1>29 DEF DayPasses
<1> HIDE DEF TypeOK, TableTypes, NetTypes
<1> QED
  BY <1>1, <1>2, <1>3, <1>4, <1>5, <1>6, <1>7, <1>8, <1>9, <1>10, <1>11, <1>12, <1>13, <1>14,
     <1>15, <1>16, <1>17, <1>18, <1>19, <1>20, <1>21, <1>22, <1>23, <1>24, <1>25, <1>26, <1>27,
     <1>28, <1>29 DEF Next, StartUp, SeedLoop, Delete, ReadLoop, Disconnect, Callback

(* The types, for every constant (src/internal/p2p). *)
THEOREM PeersTypes == Spec => []TypeOK
<1>1. Init => TypeOK
  <2> SUFFICES ASSUME Init PROVE TypeOK
    OBVIOUS
  <2>1. BanTypes
    BY Penalties DEF Init, BanTypes, Quiet
  <2>2. NetTypes
    BY DEF Init, NetTypes, Nobody, NoAttempt
  <2>3. TableTypes
    <3>1. inbox = [l \in Loops |-> Empty] /\ dialing = [d \in Dialers |-> Idle]
      BY DEF Init
    <3> QED BY <3>1, IdleTypes DEF Init, TableTypes
  <2> QED BY <2>1, <2>2, <2>3 DEF TypeOK
<1>2. TypeOK /\ [Next]_vars => TypeOK'
  <2> SUFFICES ASSUME TypeOK, [Next]_vars PROVE TypeOK'
    OBVIOUS
  <2>1. CASE Next
    BY <2>1, BanSteps, NetSteps, TableSteps DEF TypeOK
  <2>2. CASE UNCHANGED vars
    BY <2>2 DEF vars, banVars, netVars, dialVars, TypeOK, BanTypes, NetTypes, TableTypes
  <2> QED BY <2>1, <2>2
<1> QED BY <1>1, <1>2, PTL DEF Spec

----------------------------------------------------------------------------
\* A ban nobody but the database knows keeps its pending deletion, or is gone:
\* every step either leaves the two ban maps alone and only adds deletions, or
\* is one of the six below.
BanFrame ==
  /\ UNCHANGED <<bans, banStore>>
  /\ \A c \in Callers : deleting[c] \subseteq deleting'[c]
  /\ up' => up
BanActions ==
  \/ \E p \in Peers, penalty \in Nat : RecordOffense(p, penalty) /\ UNCHANGED <<deleting, up>>
  \/ \E c \in Callers, p \in Peers : DeleteFromMap(c, p) \/ DeleteFromStore(c, p)
  \/ \E s \in Seeds : VisitSeed(s) /\ Active(s)
  \/ \E p \in Peers : DayPasses(p)
  \/ \E clear \in BOOLEAN : Start(clear)
  \/ Down

LEMMA BanSplit ==
  ASSUME TypeOK, Next
  PROVE  BanFrame \/ BanActions
<1>1. ASSUME NEW clear \in BOOLEAN, Start(clear)
      PROVE  BanFrame \/ BanActions
  BY <1>1 DEF BanActions
<1>2. ASSUME NameSeeds
      PROVE  BanFrame \/ BanActions
  BY <1>2 DEF NameSeeds, BanFrame, banVars
<1>3. ASSUME Down
      PROVE  BanFrame \/ BanActions
  BY <1>3 DEF BanActions
<1>4. ASSUME Persist
      PROVE  BanFrame \/ BanActions
  BY <1>4 DEF Persist, BanFrame, banVars
<1>5. ASSUME RetrySeeds
      PROVE  BanFrame \/ BanActions
  BY <1>5 DEF RetrySeeds, BanFrame, banVars
<1>6. ASSUME ConnectSeed
      PROVE  BanFrame \/ BanActions
  <2>0. dialing["seed"].peer \in Peers
    BY <1>6 DEF ConnectSeed, TypeOK, TableTypes, Dialers
  <2>1. Dial(dialing["seed"].peer) \/ UNCHANGED deleting
    BY <1>6 DEF ConnectSeed, Connect
  <2>2. UNCHANGED <<bans, banStore, up>>
    BY <1>6 DEF ConnectSeed, banVars
  <2> QED BY <2>0, <2>1, <2>2, DialTypes DEF BanFrame
<1>7. ASSUME AddDialed("seed")
      PROVE  BanFrame \/ BanActions
  BY <1>7 DEF AddDialed, BanFrame, banVars
<1>8. ASSUME NEW s \in Seeds, VisitSeed(s)
       PROVE  BanFrame \/ BanActions
  <2>1. CASE Active(s)
    BY <1>8, <2>1 DEF BanActions
  <2>2. CASE ~Active(s)
    <3>1. "seed" \in Callers /\ s \in Peers /\ Expired("seed", s)
      BY <1>8, <2>2, SomeSeeds DEF VisitSeed, Callers, Dialers
    <3> QED BY <1>8, <2>2, <3>1, ExpiredTypes DEF VisitSeed, BanFrame
  <2> QED BY <2>1, <2>2
<1>9. ASSUME AddDialed("mdns")
       PROVE  BanFrame \/ BanActions
  BY <1>9 DEF AddDialed, BanFrame, banVars
<1>10. ASSUME NEW c \in Callers, NEW p \in Peers, DeleteFromMap(c, p)
       PROVE  BanFrame \/ BanActions
  BY <1>10 DEF BanActions
<1>11. ASSUME NEW c \in Callers, NEW p \in Peers, DeleteFromStore(c, p)
       PROVE  BanFrame \/ BanActions
  BY <1>11 DEF BanActions
<1>12. ASSUME NEW l \in Loops, HandleMessage(l)
       PROVE  BanFrame \/ BanActions
  BY <1>12 DEF HandleMessage, BanFrame, banVars
<1>13. ASSUME NEW l \in Loops, JudgeMessage(l)
       PROVE  BanFrame \/ BanActions
  <2>1. inbox[l].from \in Peers /\ UNCHANGED <<deleting, up>>
    BY <1>13 DEF JudgeMessage, TypeOK, TableTypes
  <2>2. UNCHANGED <<bans, banStore>> \/ RecordOffense(inbox[l].from, Penalty(l))
    BY <1>13 DEF JudgeMessage, banVars
  <2> QED BY <2>1, <2>2, PenaltiesAreNat DEF BanFrame, BanActions
<1>14. ASSUME NEW l \in Loops, NEW p \in Peers, NEW bad \in BOOLEAN, Receive(l, p, bad)
       PROVE  BanFrame \/ BanActions
  BY <1>14 DEF Receive, BanFrame, banVars
<1>15. ASSUME NEW p \in Peers, DisconnectRemove(p)
       PROVE  BanFrame \/ BanActions
  BY <1>15 DEF DisconnectRemove, BanFrame, banVars
<1>16. ASSUME NEW p \in Peers, DisconnectClose(p)
       PROVE  BanFrame \/ BanActions
  BY <1>16 DEF DisconnectClose, BanFrame, banVars
<1>17. ASSUME NEW p \in Peers, Disconnected(p)
       PROVE  BanFrame \/ BanActions
  BY <1>17 DEF Disconnected, BanFrame, banVars
<1>18. ASSUME NEW p \in Peers, RemoveDisconnected(p)
       PROVE  BanFrame \/ BanActions
  BY <1>18 DEF RemoveDisconnected, BanFrame, banVars
<1>19. ASSUME NEW p \in Peers, DoHandshake(p)
       PROVE  BanFrame \/ BanActions
  <2>1. UNCHANGED <<deleting, up>>
    BY <1>19 DEF DoHandshake
  <2>2. UNCHANGED <<bans, banStore>> \/ RecordOffense(p, PenaltyHandshakeFail)
    BY <1>19 DEF DoHandshake, Reject, banVars
  <2> QED BY <2>1, <2>2, PenaltiesAreNat DEF BanFrame, BanActions
<1>20. ASSUME NEW p \in Peers, AnswerHandshake(p)
       PROVE  BanFrame \/ BanActions
  <2>1. UNCHANGED <<deleting, up>>
    BY <1>20 DEF AnswerHandshake
  <2>2. UNCHANGED <<bans, banStore>> \/ RecordOffense(p, PenaltyHandshakeFail)
    BY <1>20 DEF AnswerHandshake, Reject, banVars
  <2> QED BY <2>1, <2>2, PenaltiesAreNat DEF BanFrame, BanActions
<1>21. ASSUME NEW p \in Peers, Accept(p)
       PROVE  BanFrame \/ BanActions
  BY <1>21 DEF Accept, BanFrame, banVars
<1>22. ASSUME NEW p \in Peers, Secure(p)
       PROVE  BanFrame \/ BanActions
  <2>1. p \in Callers /\ Expired(p, p) /\ UNCHANGED <<bans, banStore, up>>
    BY <1>22 DEF Secure, Callers, banVars
  <2> QED BY <2>1, ExpiredTypes DEF BanFrame
<1>23. ASSUME NEW p \in Peers, Open(p)
       PROVE  BanFrame \/ BanActions
  BY <1>23 DEF Open, BanFrame, banVars
<1>24. ASSUME NEW p \in Peers, Fail(p)
       PROVE  BanFrame \/ BanActions
  BY <1>24 DEF Fail, BanFrame, banVars
<1>25. ASSUME NEW p \in Peers, Drop(p)
       PROVE  BanFrame \/ BanActions
  BY <1>25 DEF Drop, BanFrame, banVars
<1>26. ASSUME NEW p \in Peers, FoundByMDNS(p)
       PROVE  BanFrame \/ BanActions
  <2>1. Dial(p) \/ UNCHANGED deleting
    BY <1>26 DEF FoundByMDNS, Connect
  <2>2. UNCHANGED <<bans, banStore, up>>
    BY <1>26 DEF FoundByMDNS, banVars
  <2> QED BY <2>1, <2>2, DialTypes DEF BanFrame
<1>27. ASSUME NEW p \in Peers, FoundByDHT(p)
       PROVE  BanFrame \/ BanActions
  <2>1. Dial(p) \/ UNCHANGED deleting
    BY <1>27 DEF FoundByDHT, Connect
  <2>2. UNCHANGED <<bans, banStore, up>>
    BY <1>27 DEF FoundByDHT, banVars
  <2> QED BY <2>1, <2>2, DialTypes DEF BanFrame
<1>28. ASSUME NEW p \in Peers, DialSaved(p)
       PROVE  BanFrame \/ BanActions
  <2>1. Dial(p) \/ UNCHANGED deleting
    BY <1>28 DEF DialSaved, Connect
  <2>2. UNCHANGED <<bans, banStore, up>>
    BY <1>28 DEF DialSaved, banVars
  <2> QED BY <2>1, <2>2, DialTypes DEF BanFrame
<1>29. ASSUME NEW p \in Peers, DayPasses(p)
       PROVE  BanFrame \/ BanActions
  BY <1>29 DEF BanActions
<1> QED
  BY <1>1, <1>2, <1>3, <1>4, <1>5, <1>6, <1>7, <1>8, <1>9, <1>10, <1>11, <1>12, <1>13, <1>14,
     <1>15, <1>16, <1>17, <1>18, <1>19, <1>20, <1>21, <1>22, <1>23, <1>24, <1>25, <1>26, <1>27,
     <1>28, <1>29 DEF Next, StartUp, SeedLoop, Delete, ReadLoop, Disconnect, Callback

\* The pending deletion of a ban only the database knows survives every step
\* of the ban manager.
LEMMA BanActionsKeep ==
  ASSUME TypeOK, ForgottenIsDeleted, BanActions
  PROVE  ForgottenIsDeleted'
<1> USE DEF Active
<1>1. ASSUME NEW p \in Peers, NEW penalty \in Nat,
             RecordOffense(p, penalty), UNCHANGED <<deleting, up>>
      PROVE  ForgottenIsDeleted'
  <2>1. \/ UNCHANGED <<bans, banStore>>
        \/ bans' = [bans EXCEPT ![p] = "active"] /\ banStore' = [banStore EXCEPT ![p] = "active"]
    BY <1>1 DEF RecordOffense, banVars
  <2> QED BY <1>1, <2>1 DEF ForgottenIsDeleted, TypeOK, BanTypes
<1>2. ASSUME NEW c \in Callers, NEW p \in Peers, DeleteFromMap(c, p)
      PROVE  ForgottenIsDeleted'
  BY <1>2 DEF DeleteFromMap, ForgottenIsDeleted, TypeOK, BanTypes
<1>3. ASSUME NEW c \in Callers, NEW p \in Peers, DeleteFromStore(c, p)
      PROVE  ForgottenIsDeleted'
  BY <1>3 DEF DeleteFromStore, ForgottenIsDeleted, TypeOK, BanTypes
<1>4. ASSUME NEW s \in Seeds, VisitSeed(s), Active(s)
      PROVE  ForgottenIsDeleted'
  <2>1. "seed" \in Callers /\ s \in Peers
    BY SomeSeeds DEF Callers, Dialers
  <2>2. /\ deleting' = [deleting EXCEPT !["seed"] = @ \cup {<<"store", s>>}]
        /\ UNCHANGED <<banStore, up>>
    BY <1>4 DEF VisitSeed, Unban
  <2>3. bans' = [bans EXCEPT ![s] = "none"]
    BY <1>4 DEF VisitSeed, Unban
  <2> QED BY <2>1, <2>2, <2>3 DEF ForgottenIsDeleted, TypeOK, BanTypes
<1>5. ASSUME NEW p \in Peers, DayPasses(p)
      PROVE  ForgottenIsDeleted'
  BY <1>5 DEF DayPasses, ForgottenIsDeleted, TypeOK, BanTypes
<1>6. ASSUME NEW clear \in BOOLEAN, Start(clear)
      PROVE  ForgottenIsDeleted'
  BY <1>6 DEF Start, ForgottenIsDeleted
<1>7. ASSUME Down
      PROVE  ForgottenIsDeleted'
  BY <1>7 DEF Down, ForgottenIsDeleted
<1> QED BY <1>1, <1>2, <1>3, <1>4, <1>5, <1>6, <1>7 DEF BanActions

(* A ban the running node no longer knows but its database still holds is  *)
(* about to be deleted (banmanager.go, IsBanned and Unban).                *)
THEOREM ForgottenBans == Spec => []ForgottenIsDeleted
<1>1. Init => ForgottenIsDeleted
  BY DEF Init, ForgottenIsDeleted
<1>2. TypeOK /\ ForgottenIsDeleted /\ [Next]_vars => ForgottenIsDeleted'
  <2> SUFFICES ASSUME TypeOK, ForgottenIsDeleted, [Next]_vars PROVE ForgottenIsDeleted'
    OBVIOUS
  <2>1. CASE UNCHANGED vars
    BY <2>1 DEF vars, banVars, ForgottenIsDeleted, Active
  <2>2. CASE Next /\ BanFrame
    BY <2>2 DEF BanFrame, ForgottenIsDeleted, Active
  <2>3. CASE Next /\ BanActions
    BY <2>3, BanActionsKeep
  <2> QED BY <2>1, <2>2, <2>3, BanSplit
<1> QED BY <1>1, <1>2, PeersTypes, PTL DEF Spec

----------------------------------------------------------------------------
\* Only Open adds a connection, and only Secure, which asks the gater, brings
\* an attempt to that point.
LEMMA NoNewConnection ==
  ASSUME TypeOK, Next, NEW q \in Peers, ShutOut(q), Active(q)'
  PROVE  ShutOut(q)'
<1>1. ASSUME NEW clear \in BOOLEAN, Start(clear)
      PROVE  ShutOut(q)'
  BY <1>1 DEF Start, ShutOut, netVars
<1>2. ASSUME NameSeeds
      PROVE  ShutOut(q)'
  BY <1>2 DEF NameSeeds, ShutOut, netVars
<1>3. ASSUME Down
      PROVE  ShutOut(q)'
  BY <1>3 DEF Down, Active
<1>4. ASSUME Persist
      PROVE  ShutOut(q)'
  BY <1>4 DEF Persist, ShutOut, netVars
<1>5. ASSUME RetrySeeds
      PROVE  ShutOut(q)'
  BY <1>5 DEF RetrySeeds, ShutOut, netVars
<1>6. ASSUME ConnectSeed
      PROVE  ShutOut(q)'
  <2>0. dialing["seed"].peer \in Peers
    BY <1>6 DEF ConnectSeed, TypeOK, TableTypes, Dialers
  <2>1. Dial(dialing["seed"].peer) \/ UNCHANGED attempt
    BY <1>6 DEF ConnectSeed, Connect
  <2>2. UNCHANGED conns
    BY <1>6 DEF ConnectSeed
  <2> QED BY <2>0, <2>1, <2>2, DialTypes DEF ShutOut
<1>7. ASSUME AddDialed("seed")
      PROVE  ShutOut(q)'
  BY <1>7 DEF AddDialed, ShutOut, netVars
<1>8. ASSUME NEW s \in Seeds, VisitSeed(s)
       PROVE  ShutOut(q)'
  BY <1>8 DEF VisitSeed, ShutOut, netVars
<1>9. ASSUME AddDialed("mdns")
       PROVE  ShutOut(q)'
  BY <1>9 DEF AddDialed, ShutOut, netVars
<1>10. ASSUME NEW c \in Callers, NEW p \in Peers, DeleteFromMap(c, p)
       PROVE  ShutOut(q)'
  BY <1>10 DEF DeleteFromMap, ShutOut, netVars
<1>11. ASSUME NEW c \in Callers, NEW p \in Peers, DeleteFromStore(c, p)
       PROVE  ShutOut(q)'
  BY <1>11 DEF DeleteFromStore, ShutOut, netVars
<1>12. ASSUME NEW l \in Loops, HandleMessage(l)
       PROVE  ShutOut(q)'
  BY <1>12 DEF HandleMessage, ShutOut, netVars
<1>13. ASSUME NEW l \in Loops, JudgeMessage(l)
       PROVE  ShutOut(q)'
  BY <1>13 DEF JudgeMessage, ShutOut, netVars
<1>14. ASSUME NEW l \in Loops, NEW p \in Peers, NEW bad \in BOOLEAN, Receive(l, p, bad)
       PROVE  ShutOut(q)'
  BY <1>14 DEF Receive, ShutOut, netVars
<1>15. ASSUME NEW p \in Peers, DisconnectRemove(p)
       PROVE  ShutOut(q)'
  BY <1>15 DEF DisconnectRemove, ShutOut, netVars
<1>16. ASSUME NEW p \in Peers, DisconnectClose(p)
       PROVE  ShutOut(q)'
  BY <1>16 DEF DisconnectClose, ShutOut, Refuse, Securing, NoAttempt, TypeOK, NetTypes
<1>17. ASSUME NEW p \in Peers, Disconnected(p)
       PROVE  ShutOut(q)'
  BY <1>17 DEF Disconnected, ShutOut, netVars
<1>18. ASSUME NEW p \in Peers, RemoveDisconnected(p)
       PROVE  ShutOut(q)'
  BY <1>18 DEF RemoveDisconnected, ShutOut, netVars
<1>19. ASSUME NEW p \in Peers, DoHandshake(p)
       PROVE  ShutOut(q)'
  BY <1>19 DEF DoHandshake, ShutOut, netVars
<1>20. ASSUME NEW p \in Peers, AnswerHandshake(p)
       PROVE  ShutOut(q)'
  BY <1>20 DEF AnswerHandshake, ShutOut, netVars
<1>21. ASSUME NEW p \in Peers, Accept(p)
       PROVE  ShutOut(q)'
  BY <1>21 DEF Accept, ShutOut, Refuse, Securing, NoAttempt, TypeOK, NetTypes
<1>22. ASSUME NEW p \in Peers, Secure(p)
       PROVE  ShutOut(q)'
  <2>1. CASE p = q
    BY <1>22, <2>1 DEF Secure, InterceptSecured, Refuse, ShutOut, TypeOK, NetTypes, NoAttempt
  <2>2. CASE p # q
    BY <1>22, <2>2 DEF Secure, Refuse, ShutOut, TypeOK, NetTypes
  <2> QED BY <2>1, <2>2
<1>23. ASSUME NEW p \in Peers, Open(p)
       PROVE  ShutOut(q)'
  BY <1>23 DEF Open, ShutOut, Refuse, Securing, NoAttempt, TypeOK, NetTypes
<1>24. ASSUME NEW p \in Peers, Fail(p)
       PROVE  ShutOut(q)'
  BY <1>24 DEF Fail, ShutOut, Refuse, Securing, NoAttempt, TypeOK, NetTypes
<1>25. ASSUME NEW p \in Peers, Drop(p)
       PROVE  ShutOut(q)'
  BY <1>25 DEF Drop, ShutOut, Refuse, Securing, NoAttempt, TypeOK, NetTypes
<1>26. ASSUME NEW p \in Peers, FoundByMDNS(p)
       PROVE  ShutOut(q)'
  <2>1. Dial(p) \/ UNCHANGED attempt
    BY <1>26 DEF FoundByMDNS, Connect
  <2>2. UNCHANGED conns
    BY <1>26 DEF FoundByMDNS
  <2> QED BY <2>1, <2>2, DialTypes DEF ShutOut
<1>27. ASSUME NEW p \in Peers, FoundByDHT(p)
       PROVE  ShutOut(q)'
  <2>1. Dial(p) \/ UNCHANGED attempt
    BY <1>27 DEF FoundByDHT, Connect
  <2>2. UNCHANGED conns
    BY <1>27 DEF FoundByDHT
  <2> QED BY <2>1, <2>2, DialTypes DEF ShutOut
<1>28. ASSUME NEW p \in Peers, DialSaved(p)
       PROVE  ShutOut(q)'
  <2>1. Dial(p) \/ UNCHANGED attempt
    BY <1>28 DEF DialSaved, Connect
  <2>2. UNCHANGED conns
    BY <1>28 DEF DialSaved
  <2> QED BY <2>1, <2>2, DialTypes DEF ShutOut
<1>29. ASSUME NEW p \in Peers, DayPasses(p)
       PROVE  ShutOut(q)'
  BY <1>29 DEF DayPasses, ShutOut, netVars
<1> QED
  BY <1>1, <1>2, <1>3, <1>4, <1>5, <1>6, <1>7, <1>8, <1>9, <1>10, <1>11, <1>12, <1>13, <1>14,
     <1>15, <1>16, <1>17, <1>18, <1>19, <1>20, <1>21, <1>22, <1>23, <1>24, <1>25, <1>26, <1>27,
     <1>28, <1>29 DEF Next, StartUp, SeedLoop, Delete, ReadLoop, Disconnect, Callback

(* A banned peer that is not connected stays out while the ban holds       *)
(* (bangater.go), whoever dials.                                           *)
THEOREM BannedAreShutOut == Spec => BannedStayOut
<1>1. TypeOK /\ [Next]_vars => [\A p \in Peers : ShutOut(p) => ShutOut(p)' \/ ~Active(p)']_vars
  BY NoNewConnection DEF ShutOut, Active, vars, netVars, banVars
<1> QED BY <1>1, PeersTypes, PTL DEF Spec, BannedStayOut
=============================================================================
