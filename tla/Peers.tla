------------------------------- MODULE Peers -------------------------------
(***************************************************************************)
(* Whom one node is connected to and whom it has banned                    *)
(* (src/internal/p2p): the ban manager and its store, the gater libp2p     *)
(* asks twice about a connection, the table of peers the connection        *)
(* notifier and the message loops keep, the handshake, the dialers, the    *)
(* seed loop and the peers remembered across a restart.  All of them run   *)
(* in goroutines of their own and share the maps under short locks, so     *)
(* each locked section is a step here.  libp2p itself (connections,        *)
(* events, streams) is modelled by how this code uses it.                  *)
(***************************************************************************)
EXTENDS Integers, FiniteSets

CONSTANTS
    Peers,
    Seeds,                  \* configured seed nodes
    Strangers,              \* peers whose handshake is for another genesis
    Faulty,                 \* peers that may relay an invalid block or transaction
    BanThreshold, PenaltyInvalidBlock, PenaltyInvalidTx, PenaltyHandshakeFail,
    RetryTarget,            \* seedRetryTarget()
    MaxPeers,               \* of the configuration, 0 for no limit
    MaxPersisted,           \* maxPersistedPeers
    NoPeer,
    MaxMoves                \* bound of a run: what the world may do to the node

ASSUME SomeSeeds == Seeds \subseteq Peers /\ NoPeer \notin Peers
ASSUME Penalties ==
    /\ {PenaltyInvalidBlock, PenaltyInvalidTx, PenaltyHandshakeFail} \subseteq Nat \ {0}
    /\ BanThreshold \in Nat \ {0}
ASSUME Limits == {RetryTarget, MaxPeers, MaxPersisted} \subseteq Nat /\ RetryTarget > 0

VARIABLES
    up,          \* the node runs
    seedPeers,   \* Node.seedPeers, filled late in Start
    bans,        \* BanManager.bans: no record, an active one or an expired one
    scores,      \* BanManager.scores
    banStore,    \* the records under "ban/" in the database
    deleting,    \* deletions that callers of the ban manager have decided on
    peers,       \* Node.peers, what PeerCount counts
    conns,       \* libp2p: the directions in which a peer is connected
    attempt,     \* libp2p: the connection being set up with a peer
    events,      \* Disconnected callbacks that have not finished
    closing,     \* DisconnectPeer calls that have not finished
    handshakes,  \* doHandshake goroutines
    inbox,       \* the message each read loop has next
    seedTodo,    \* the seeds connectSeedsOnce has yet to visit
    dialing,     \* the peer each dialer is at, and how far it is
    toLoad,      \* the records loadPersistedPeers has yet to dial
    saved,       \* the records under "peer/" in the database
    used         \* how many moves the world has made

banVars  == <<bans, scores, banStore>>
netVars  == <<conns, attempt, events>>
dialVars == <<seedTodo, dialing, toLoad>>
vars == <<up, seedPeers, banVars, deleting, peers, netVars, closing,
          handshakes, inbox, dialVars, saved, used>>

Loops   == {"block", "tx"}
Dialers == {"seed", "mdns"}
Callers == Peers \cup {"seed"}   \* of IsBanned: the seed loop, and the gater about a peer
Idle    == [peer |-> NoPeer, at |-> "idle"]
Empty   == [from |-> NoPeer, bad |-> FALSE, at |-> "empty"]
NoAttempt     == [way |-> "none", at |-> "none"]
Securing(way) == [way |-> way, at |-> "secure"]
Nobody  == [p \in Peers |-> {}]
Quiet   == [c \in Callers |-> {}]
Spend == used < MaxMoves /\ used' = used + 1

BanTypes ==
    /\ bans \in [Peers -> {"none", "active", "expired"}]
    /\ banStore \in [Peers -> {"none", "active", "expired"}]
    /\ scores \in [Peers -> 0..(BanThreshold - 1)]
    /\ deleting \in [Callers -> SUBSET ({"map", "store"} \X Peers)]
NetTypes ==
    /\ conns \in [Peers -> SUBSET {"in", "out"}]
    /\ attempt \in [Peers -> [way : {"none", "in", "out"}, at : {"none", "secure", "open"}]]
    /\ \A p \in Peers : attempt[p].at # "none" => attempt[p].way # "none"
    /\ events \in [Peers -> SUBSET {"closed", "unseen"}]
    /\ closing \in [Peers -> SUBSET {"remove", "close"}]
TableTypes ==
    /\ up \in BOOLEAN
    /\ {peers, handshakes, toLoad, saved} \subseteq SUBSET Peers
    /\ {seedPeers, seedTodo} \subseteq SUBSET Seeds
    /\ inbox \in [Loops -> [from : Peers \cup {NoPeer}, bad : BOOLEAN,
                            at : {"empty", "queued", "added"}]]
    /\ dialing \in [Dialers -> [peer : Peers \cup {NoPeer},
                                at : {"idle", "connect", "wait", "add"}]]
    /\ \A l \in Loops : inbox[l].at # "empty" => inbox[l].from \in Peers
    /\ \A d \in Dialers : dialing[d].at # "idle" => dialing[d].peer \in Peers
TypeOK == BanTypes /\ NetTypes /\ TableTypes

Init ==
    /\ up = FALSE
    /\ seedPeers = {} /\ peers = {} /\ handshakes = {} /\ seedTodo = {} /\ toLoad = {}
    /\ bans = [p \in Peers |-> "none"] /\ scores = [p \in Peers |-> 0]
    /\ deleting = Quiet
    /\ conns = Nobody /\ events = Nobody /\ closing = Nobody
    /\ attempt = [p \in Peers |-> NoAttempt]
    /\ inbox = [l \in Loops |-> Empty]
    /\ dialing = [d \in Dialers |-> Idle]
    /\ banStore = bans
    /\ saved = {}
    /\ used = 0

----------------------------------------------------------------------------
(* Bans. *)

Active(p) == bans[p] = "active"

\* IsBanned has read the record of p; an expired one is deleted by the caller
\* later, from the map under the lock and then from the store without it.
Expired(c, p) ==
    deleting' = [deleting EXCEPT ![c] = IF bans[p] = "expired" THEN @ \cup {<<"map", p>>} ELSE @]

\* mutant: the score is not cleared when the ban is made

\* RecordOffense, under the ban manager's lock.
RecordOffense(p, penalty) ==
    LET score == scores[p] + penalty IN
    IF Active(p) THEN UNCHANGED banVars
    ELSE IF score < BanThreshold
    THEN scores' = [scores EXCEPT ![p] = score] /\ UNCHANGED <<bans, banStore>>
    ELSE /\ bans' = [bans EXCEPT ![p] = "active"]
         /\ scores' = [scores EXCEPT ![p] = 0]
         /\ banStore' = [banStore EXCEPT ![p] = "active"]

\* The goroutine RecordOffense starts when the offence made a ban.
Disconnecting(p) == closing' = [closing EXCEPT ![p] = @ \cup {"remove"}]
DisconnectIfBanned(p, penalty) ==
    IF Active(p) \/ scores[p] + penalty < BanThreshold THEN UNCHANGED closing
    ELSE Disconnecting(p)

\* mutants: the record stays in the store; a seed's ban is left alone
Unban_Memory(c, p) ==
    /\ bans' = [bans EXCEPT ![p] = "none"]
    /\ scores' = [scores EXCEPT ![p] = 0]
    /\ UNCHANGED deleting
Unban_Never(c, p) == UNCHANGED <<bans, scores, deleting>>

\* Unban, up to the deletion from the store, which needs no lock.
Unban(c, p) ==
    /\ bans' = [bans EXCEPT ![p] = "none"]
    /\ scores' = [scores EXCEPT ![p] = 0]
    /\ deleting' = [deleting EXCEPT ![c] = @ \cup {<<"store", p>>}]

DeleteFromMap(c, p) ==
    /\ <<"map", p>> \in deleting[c]
    /\ bans' = [bans EXCEPT ![p] = "none"]
    /\ deleting' = [deleting EXCEPT ![c] = (@ \ {<<"map", p>>}) \cup {<<"store", p>>}]
    /\ UNCHANGED <<up, seedPeers, scores, banStore, peers, netVars, closing,
                   handshakes, inbox, dialVars, saved, used>>

DeleteFromStore(c, p) ==
    /\ <<"store", p>> \in deleting[c]
    /\ banStore' = [banStore EXCEPT ![p] = "none"]
    /\ deleting' = [deleting EXCEPT ![c] = @ \ {<<"store", p>>}]
    /\ UNCHANGED <<up, seedPeers, bans, scores, peers, netVars, closing,
                   handshakes, inbox, dialVars, saved, used>>

\* A day passes for p: its ban runs out, in both places.
DayPasses(p) ==
    /\ Spend /\ "active" \in {bans[p], banStore[p]}
    /\ LET Age(r) == IF r = "active" THEN "expired" ELSE r
       IN  /\ bans' = [bans EXCEPT ![p] = Age(@)]
           /\ banStore' = [banStore EXCEPT ![p] = Age(@)]
    /\ UNCHANGED <<up, seedPeers, scores, deleting, peers, netVars, closing,
                   handshakes, inbox, dialVars, saved>>

----------------------------------------------------------------------------
(* Connections.  The gater is asked before a dial and again when the       *)
(* connection is secured; after that libp2p adds the connection.           *)

\* What becomes of the dialers waiting for the connection with p.
Settle(p, next) ==
    dialing' = [d \in Dialers |-> IF dialing[d] = [peer |-> p, at |-> "wait"]
                                  THEN next ELSE dialing[d]]
Refuse(p) ==
    /\ attempt' = [attempt EXCEPT ![p] = NoAttempt]
    /\ Settle(p, Idle)

InterceptPeerDial(p) == ~Active(p)
InterceptSecured_Anyone(p) == TRUE     \* mutant: only dials are checked
InterceptSecured(p)  == ~Active(p)

\* host.Connect to a peer that is not connected.
Dial(p) ==
    /\ attempt[p] = NoAttempt /\ deleting[p] = {} /\ conns[p] = {}
    /\ attempt' = IF InterceptPeerDial(p) THEN [attempt EXCEPT ![p] = Securing("out")]
                 ELSE attempt
    /\ Expired(p, p)

\* A dialer that looks at the outcome of its Connect.
Connect(d, p) ==
    /\ \/ /\ conns[p] # {}
          /\ dialing' = [dialing EXCEPT ![d] = [peer |-> p, at |-> "add"]]
          /\ UNCHANGED <<attempt, deleting>>
       \/ /\ Dial(p)
          /\ dialing' = [dialing EXCEPT ![d] =
                           IF InterceptPeerDial(p) THEN [peer |-> p, at |-> "wait"]
                           ELSE Idle]

\* A peer dials us; InterceptAccept lets everyone pass.
Accept(p) ==
    /\ up /\ attempt[p] = NoAttempt /\ deleting[p] = {} /\ "in" \notin conns[p]
    /\ attempt' = [attempt EXCEPT ![p] = Securing("in")]
    /\ Spend
    /\ UNCHANGED <<up, seedPeers, banVars, deleting, peers, conns, events, closing,
                   handshakes, inbox, dialVars, saved>>

\* The gater's second question, when the identity of the peer is proved.
Secure(p) ==
    /\ attempt[p].at = "secure" /\ deleting[p] = {}
    /\ IF InterceptSecured(p)
       THEN attempt' = [attempt EXCEPT ![p].at = "open"] /\ UNCHANGED dialing
       ELSE Refuse(p)
    /\ Expired(p, p)
    /\ UNCHANGED <<up, seedPeers, banVars, peers, conns, events, closing,
                   handshakes, inbox, seedTodo, toLoad, saved, used>>

\* The connection is added, and connNotifier.Connected is called.
Open(p) ==
    /\ attempt[p].at = "open" /\ deleting[p] = {}
    /\ conns' = [conns EXCEPT ![p] = @ \cup {attempt[p].way}]
    /\ peers' = peers \cup {p}
    /\ handshakes' = IF attempt[p].way = "out" THEN handshakes \cup {p} ELSE handshakes
    /\ attempt' = [attempt EXCEPT ![p] = NoAttempt]
    /\ Settle(p, [peer |-> p, at |-> "add"])
    /\ UNCHANGED <<up, seedPeers, banVars, deleting, events, closing, inbox,
                   seedTodo, toLoad, saved, used>>

\* The attempt fails or times out.
Fail(p) ==
    /\ attempt[p] # NoAttempt /\ deleting[p] = {}
    /\ Refuse(p)
    /\ UNCHANGED <<up, seedPeers, banVars, deleting, peers, conns, events, closing,
                   handshakes, inbox, seedTodo, toLoad, saved, used>>

\* The other side, or the network, ends a connection.
Drop(p) ==
    /\ \E way \in conns[p] : conns' = [conns EXCEPT ![p] = @ \ {way}]
    /\ events' = [events EXCEPT ![p] = @ \cup {"closed"}]
    /\ Spend
    /\ UNCHANGED <<up, seedPeers, banVars, deleting, peers, attempt, closing,
                   handshakes, inbox, dialVars, saved>>

\* connNotifier.Disconnected: is another connection left?  If not, the peer
\* is removed.
Disconnected(p) ==
    /\ "closed" \in events[p]
    /\ events' = [events EXCEPT ![p] = (@ \ {"closed"}) \cup
                                       (IF conns[p] = {} THEN {"unseen"} ELSE {})]
    /\ UNCHANGED <<up, seedPeers, banVars, deleting, peers, conns, attempt, closing,
                   handshakes, inbox, dialVars, saved, used>>

RemoveDisconnected(p) ==
    /\ "unseen" \in events[p]
    /\ events' = [events EXCEPT ![p] = @ \ {"unseen"}]
    /\ peers' = peers \ {p}
    /\ UNCHANGED <<up, seedPeers, banVars, deleting, conns, attempt, closing,
                   handshakes, inbox, dialVars, saved, used>>

\* DisconnectPeer: out of the table, then every connection is closed.
DisconnectRemove(p) ==
    /\ "remove" \in closing[p]
    /\ peers' = peers \ {p}
    /\ closing' = [closing EXCEPT ![p] = {"close"}]
    /\ UNCHANGED <<up, seedPeers, banVars, deleting, netVars, handshakes, inbox,
                   dialVars, saved, used>>

DisconnectClose(p) ==
    /\ "close" \in closing[p]
    /\ closing' = [closing EXCEPT ![p] = @ \ {"close"}]
    /\ conns' = [conns EXCEPT ![p] = {}]
    /\ events' = [events EXCEPT ![p] = IF conns[p] = {} THEN @ ELSE @ \cup {"closed"}]
    /\ UNCHANGED <<up, seedPeers, banVars, deleting, peers, attempt, handshakes,
                   inbox, dialVars, saved, used>>

----------------------------------------------------------------------------
(* Handshakes.                                                             *)

Exempt(p) == p \in seedPeers

\* A failed handshake: an offence unless the peer is a seed, and the peer is
\* disconnected.
Reject(p) ==
    /\ IF Exempt(p) THEN UNCHANGED banVars ELSE RecordOffense(p, PenaltyHandshakeFail)
    /\ Disconnecting(p)

\* The stream handler of a handshake the other side started.
AnswerHandshake(p) ==
    /\ conns[p] # {} /\ p \in Strangers /\ Spend
    /\ Reject(p)
    /\ UNCHANGED <<up, seedPeers, deleting, peers, netVars, handshakes, inbox,
                   dialVars, saved>>

\* doHandshake: the stream opens or not, the exchange fails or not.
DoHandshake(p) ==
    /\ p \in handshakes
    /\ handshakes' = handshakes \ {p}
    /\ \/ /\ conns[p] = {} \/ p \in Strangers      \* no stream, or an answer of another chain
          /\ Reject(p)
       \/ UNCHANGED <<banVars, closing>>
    /\ UNCHANGED <<up, seedPeers, deleting, peers, netVars, inbox, dialVars,
                   saved, used>>

----------------------------------------------------------------------------
(* Messages: handleBlockMessage and handleTxMessage, with the handlers the *)
(* node registers (node.go).                                               *)

Receive(l, p, bad) ==
    /\ inbox[l] = Empty /\ conns[p] # {} /\ (bad => p \in Faulty)
    /\ Spend
    /\ inbox' = [inbox EXCEPT ![l] = [from |-> p, bad |-> bad, at |-> "queued"]]
    /\ UNCHANGED <<up, seedPeers, banVars, deleting, peers, netVars, closing,
                   handshakes, dialVars, saved>>

HandleMessage(l) ==
    /\ inbox[l].at = "queued"
    /\ peers' = peers \cup {inbox[l].from}
    /\ inbox' = [inbox EXCEPT ![l].at = "added"]
    /\ UNCHANGED <<up, seedPeers, banVars, deleting, netVars, closing, handshakes,
                   dialVars, saved, used>>

Penalty(l) == IF l = "block" THEN PenaltyInvalidBlock ELSE PenaltyInvalidTx

JudgeMessage(l) ==
    /\ inbox[l].at = "added"
    /\ IF inbox[l].bad
       THEN /\ RecordOffense(inbox[l].from, Penalty(l))
            /\ DisconnectIfBanned(inbox[l].from, Penalty(l))
       ELSE UNCHANGED <<banVars, closing>>
    /\ inbox' = [inbox EXCEPT ![l] = Empty]
    /\ UNCHANGED <<up, seedPeers, deleting, peers, netVars, handshakes, dialVars,
                   saved, used>>

----------------------------------------------------------------------------
(* Dialers.                                                                *)

SeedLoopFree == up /\ dialing["seed"] = Idle /\ deleting["seed"] = {}

\* connectSeedsLoop: below the target, visit every seed once more.
RetrySeeds ==
    /\ SeedLoopFree /\ seedPeers # {} /\ seedTodo = {}
    /\ Cardinality(peers) < RetryTarget
    /\ seedTodo' = Seeds
    /\ UNCHANGED <<up, seedPeers, banVars, deleting, peers, netVars, closing,
                   handshakes, inbox, dialing, toLoad, saved, used>>

\* connectSeedsOnce at one seed: a ban is lifted first (Unban), then Connect.
VisitSeed(s) ==
    /\ SeedLoopFree /\ s \in seedTodo
    /\ seedTodo' = seedTodo \ {s}
    /\ dialing' = [dialing EXCEPT !["seed"] = [peer |-> s, at |-> "connect"]]
    /\ IF Active(s)
       THEN Unban("seed", s)
       ELSE /\ Expired("seed", s)
            /\ UNCHANGED <<bans, scores>>
    /\ UNCHANGED <<up, seedPeers, banStore, peers, netVars, closing, handshakes,
                   inbox, toLoad, saved, used>>

ConnectSeed ==
    /\ dialing["seed"].at = "connect" /\ deleting["seed"] = {}
    /\ Connect("seed", dialing["seed"].peer)
    /\ UNCHANGED <<up, seedPeers, banVars, peers, conns, events, closing,
                   handshakes, inbox, seedTodo, toLoad, saved, used>>

\* HandlePeerFound (mDNS): Connect and add.
FoundByMDNS(p) ==
    /\ up /\ dialing["mdns"] = Idle
    /\ Connect("mdns", p)
    /\ Spend
    /\ UNCHANGED <<up, seedPeers, banVars, peers, conns, events, closing,
                   handshakes, inbox, seedTodo, toLoad, saved>>

\* A dialer whose Connect succeeded adds the peer.
AddDialed(d) ==
    /\ dialing[d].at = "add"
    /\ peers' = peers \cup {dialing[d].peer}
    /\ dialing' = [dialing EXCEPT ![d] = Idle]
    /\ UNCHANGED <<up, seedPeers, banVars, deleting, netVars, closing, handshakes,
                   inbox, seedTodo, toLoad, saved, used>>

\* findDHTPeers: Connect unless there are MaxPeers already.
FoundByDHT(p) ==
    /\ up /\ (MaxPeers > 0 => Cardinality(peers) < MaxPeers)
    /\ Dial(p)
    /\ Spend
    /\ UNCHANGED <<up, seedPeers, banVars, peers, conns, events, closing,
                   handshakes, inbox, dialVars, saved>>

\* loadPersistedPeers at one record.
DialSaved(p) ==
    /\ p \in toLoad
    /\ toLoad' = toLoad \ {p}
    /\ \/ Dial(p)
       \/ conns[p] # {} /\ UNCHANGED <<attempt, deleting>>
    /\ UNCHANGED <<up, seedPeers, banVars, peers, conns, events, closing,
                   handshakes, inbox, seedTodo, dialing, saved, used>>

----------------------------------------------------------------------------
(* Remembered peers, start and stop.                                       *)

\* persistPeers saves the table's peers, new ones only up to the cap: what the
\* store may hold afterwards.
RoomFor == IF Cardinality(saved) < MaxPersisted THEN MaxPersisted - Cardinality(saved) ELSE 0
SavedPeers ==
    {saved \cup new : new \in {n \in SUBSET (peers \ saved) :
        \/ n = peers \ saved /\ Cardinality(n) <= RoomFor
        \/ Cardinality(n) = RoomFor}}

\* PruneStale drops records older than a day: any, for all this node knows, of
\* the peers that were not in the table when peers were last saved.
PruneStale(kept) == {kept \ old : old \in SUBSET (kept \ peers)}

\* One round of runPersistLoop.
Persist ==
    /\ up
    /\ \E kept \in SavedPeers : saved' \in PruneStale(kept)
    /\ UNCHANGED <<up, seedPeers, banVars, deleting, peers, netVars, closing,
                   handshakes, inbox, dialVars, used>>

PruneAll     == [p \in Peers |-> "none"]
PruneExpired == [p \in Peers |-> IF banStore[p] = "expired" THEN "none" ELSE banStore[p]]

\* Start up to the message loops: LoadBans takes over what PruneExpired leaves,
\* --clear-bans deletes all; PruneStale and the records to dial.
Start(clear) ==
    /\ ~up
    /\ up' = TRUE
    /\ banStore' = IF clear THEN PruneAll ELSE PruneExpired
    /\ bans' = banStore'
    /\ saved' \in PruneStale(saved)
    /\ toLoad' = saved'
    /\ UNCHANGED <<seedPeers, scores, deleting, peers, netVars, closing, handshakes,
                   inbox, seedTodo, dialing, used>>

\* The rest of Start: the seeds are named, and visited a first time.
NameSeeds ==
    /\ up /\ seedPeers # Seeds
    /\ seedPeers' = Seeds /\ seedTodo' = Seeds
    /\ UNCHANGED <<up, banVars, deleting, peers, netVars, closing, handshakes,
                   inbox, dialing, toLoad, saved, used>>

\* Stop, which saves the peers once more, or a crash.
Down ==
    /\ up /\ Spend
    /\ \/ saved' \in SavedPeers
       \/ UNCHANGED saved
    /\ up' = FALSE
    /\ seedPeers' = {} /\ peers' = {} /\ handshakes' = {} /\ seedTodo' = {} /\ toLoad' = {}
    /\ bans' = [p \in Peers |-> "none"] /\ scores' = [p \in Peers |-> 0]
    /\ deleting' = Quiet
    /\ conns' = Nobody /\ events' = Nobody /\ closing' = Nobody
    /\ attempt' = [p \in Peers |-> NoAttempt]
    /\ inbox' = [l \in Loops |-> Empty]
    /\ dialing' = [d \in Dialers |-> Idle]
    /\ UNCHANGED banStore

----------------------------------------------------------------------------
Delete(c)     == \E p \in Peers : DeleteFromMap(c, p) \/ DeleteFromStore(c, p)
Disconnect(p) == DisconnectRemove(p) \/ DisconnectClose(p)
Callback(p)   == Disconnected(p) \/ RemoveDisconnected(p)
ReadLoop(l)   == HandleMessage(l) \/ JudgeMessage(l)
SeedLoop      == RetrySeeds \/ ConnectSeed \/ AddDialed("seed") \/ \E s \in Seeds : VisitSeed(s)
StartUp       == (\E clear \in BOOLEAN : Start(clear)) \/ NameSeeds

Next ==
    \/ StartUp \/ Down
    \/ Persist \/ SeedLoop \/ AddDialed("mdns")
    \/ \E c \in Callers : Delete(c)
    \/ \E l \in Loops : ReadLoop(l) \/ \E p \in Peers, bad \in BOOLEAN : Receive(l, p, bad)
    \/ \E p \in Peers :
          \/ Disconnect(p) \/ Callback(p) \/ DoHandshake(p) \/ AnswerHandshake(p)
          \/ Accept(p) \/ Secure(p) \/ Open(p) \/ Fail(p) \/ Drop(p)
          \/ FoundByMDNS(p) \/ FoundByDHT(p) \/ DialSaved(p) \/ DayPasses(p)

(* Each goroutine that can go on does: deletions, callbacks, disconnections, *)
(* handshakes (a stream has a deadline), the read loops and the tickers.     *)
(* A stopped node is started again.  An attempt to connect ends, and a seed  *)
(* is reachable: the attempts with it do not fail every time.                *)
Fairness ==
    /\ WF_vars(StartUp) /\ WF_vars(SeedLoop) /\ WF_vars(AddDialed("mdns"))
    /\ \A c \in Callers : WF_vars(Delete(c))
    /\ \A l \in Loops : WF_vars(ReadLoop(l))
    /\ \A p \in Peers : /\ WF_vars(Disconnect(p)) /\ WF_vars(Callback(p))
                        /\ WF_vars(DoHandshake(p)) /\ WF_vars(Secure(p) \/ Open(p) \/ Fail(p))
    /\ \A s \in Seeds : SF_vars(Secure(s)) /\ SF_vars(Open(s))

Spec == Init /\ [][Next]_vars
FairSpec == Spec /\ Fairness

----------------------------------------------------------------------------
(* Properties.                                                             *)

(* A ban the database still holds and the running node no longer knows is  *)
(* one that somebody is about to delete (banmanager.go, IsBanned, Unban):  *)
(* otherwise the next start would bring back a ban that was lifted.        *)
ForgottenIsDeleted ==
    up => \A p \in Peers : banStore[p] = "active" /\ ~Active(p) =>
                             \E c \in Callers : <<"store", p>> \in deleting[c]

(* A banned peer that has no connection, and none past the gater's last    *)
(* question, gets none as long as the ban holds (bangater.go): through the *)
(* dialers, the seed loop and its own dials.                               *)
ShutOut(p) == Active(p) /\ conns[p] = {} /\ attempt[p].at # "open"
BannedStayOut == [][\A p \in Peers : ShutOut(p) => ShutOut(p)' \/ ~Active(p)']_vars

(* As long as the table is below the target, every reachable seed is       *)
(* connected again and again (node.go, connectSeedsLoop), whatever bans,   *)
(* disconnections and restarts happen.                                     *)
SeedsRetried ==
    \A s \in Seeds : []<>(conns[s] # {} \/ Cardinality(peers) >= RetryTarget)
=============================================================================
