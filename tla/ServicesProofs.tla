---------------------------- MODULE ServicesProofs ----------------------------
(***************************************************************************)
(* The parts in MCServices, for any number of clients, files, requests and *)
(* faults: uploads, browser control on the machine, the releases of the    *)
(* machine's server, the sync of agent sessions, the watch session of the  *)
(* file browser, the relay of the browser view, the control plane and the  *)
(* operations on a machine's capabilities.                                 *)
(***************************************************************************)
EXTENDS MCServices, SequenceProofs

-----------------------------------------------------------------------------
(***************************************************************************)
(* The least number of a set.                                              *)
(***************************************************************************)
\* A set of natural numbers that is not empty has a least number.
LEMMA LeastNumber ==
  ASSUME NEW S \in SUBSET Nat, S # {}
  PROVE  Min(S) \in S /\ \A n \in S : Min(S) <= n
<1>1. \E m \in S : \A n \in S : m <= n
  <2>1. SUFFICES ASSUME \A m \in S : \E n \in S : ~ (m <= n) PROVE FALSE
    OBVIOUS
  <2>2. PICK T : T = {k \in Nat : \A n \in S : k <= n}
    OBVIOUS
  <2>3. 0 \in T
    BY <2>2
  <2>4. ASSUME NEW k \in Nat, k \in T PROVE k + 1 \in T
    <3>1. k \notin S
      BY <2>1, <2>2, <2>4
    <3>. QED BY <2>2, <2>4, <3>1
  <2>5. \A n \in Nat : n \in T
    BY <2>3, <2>4, Induction
  <2>6. PICK s \in S : TRUE
    OBVIOUS
  <2>7. s + 1 \in T
    BY <2>5
  <2>. QED BY <2>2, <2>6, <2>7
<1>. QED BY <1>1 DEF Min

-----------------------------------------------------------------------------
(***************************************************************************)
(* FilesystemSession.                                                      *)
(***************************************************************************)
\* The types, each variable's by itself.
SessionTyped ==
  /\ subscription \in [Subscriptions -> {"new", "list", "close", "start", "done", "unlisted",
                                         "unwatched"}]
  /\ directory \in [Subscriptions -> Directories]
  /\ activePath \in Directories /\ currentPath \in Directories
  /\ watching \in SUBSET Subscriptions /\ ready \in SUBSET Subscriptions
  /\ watcher \in SUBSET Subscriptions
  /\ watchTimer \in BOOLEAN /\ publishing \in SUBSET Directories
  /\ socketOpen \in BOOLEAN /\ watchFaults \in 0 .. MaxWatchFaults

\* A watcher belongs to the subscription that made it, from its start to its end.
WatchersHaveOwners ==
  /\ \A s \in Subscriptions : subscription[s] = "start" => s \in watching
  /\ \A s \in ready : subscription[s] = "done" /\ s \in watching
  /\ \A s \in watcher : s \in ready
  /\ watcher = {} \/ \E s \in Subscriptions : watcher = {s}

\* Once a subscription was listed, the last one of these is the active directory's: it will
\* be watched, is watched, or was refused.
ActiveIsCovered ==
  /\ socketOpen
  /\ \E s \in Subscriptions : subscription[s] \in {"close", "start", "done", "unwatched"}
  => \E s \in Subscriptions :
       /\ directory[s] = activePath
       /\ subscription[s] \in {"close", "start", "unwatched"} \/ s \in ready

SessionInv == SessionTyped /\ WatchersHaveOwners /\ ActiveIsCovered

\* No file is browsed yet.
LEMMA SessionInitially == SessionInit => SessionInv
<1>1. SessionInit => SessionTyped
  <2>1. RootDirectory \in Directories /\ 0 \in 0 .. MaxWatchFaults
    BY SessionAssumption
  <2>2. SessionInit => /\ subscription \in [Subscriptions -> {"new", "list", "close", "start",
                                                           "done", "unlisted", "unwatched"}]
                       /\ directory \in [Subscriptions -> Directories]
    BY <2>1 DEF SessionInit
  <2>. QED BY <2>1, <2>2 DEF SessionInit, SessionTyped
<1>2. SessionInit => WatchersHaveOwners /\ ActiveIsCovered
  BY DEF SessionInit, WatchersHaveOwners, ActiveIsCovered
<1>. QED BY <1>1, <1>2 DEF SessionInv

\* The types and what the user is promised follow from the inductive invariant.
LEMMA SessionFollows == SessionInv => SessionTypeOK /\ ActiveIsWatched
<1>1. SUFFICES ASSUME SessionInv PROVE SessionTypeOK /\ ActiveIsWatched
  OBVIOUS
<1>2. Cardinality(watcher) <= 1
  <2>1. ASSUME NEW s, watcher = {s} PROVE Cardinality(watcher) = 1
    BY <2>1, FS_Singleton
  <2>2. watcher = {} => Cardinality(watcher) = 0
    BY FS_EmptySet
  <2>. QED BY <1>1, <2>1, <2>2 DEF SessionInv, WatchersHaveOwners
<1>3. SessionTypeOK
  BY <1>1, <1>2 DEF SessionInv, SessionTyped, WatchersHaveOwners, SessionTypeOK
<1>4. ActiveIsWatched
  BY <1>1 DEF SessionInv, ActiveIsCovered, ActiveIsWatched
<1>. QED BY <1>3, <1>4

\* Every step of the session keeps it: a subscription that overlaps another takes the watcher
\* of the directory from it only after it has taken the directory itself.
LEMMA SessionNextStep == SessionInv /\ [SessionNext]_sessionVars => SessionInv'
<1>1. SUFFICES ASSUME SessionInv, [SessionNext]_sessionVars PROVE SessionInv'
  OBVIOUS
<1>. USE <1>1 DEF SessionInv, SessionTyped, WatchersHaveOwners, ActiveIsCovered
<1>2. CASE UNCHANGED sessionVars
  BY <1>2 DEF sessionVars, paths, watchers
<1>3. ASSUME NEW s \in Subscriptions, Subscribe(s) PROVE SessionInv'
  BY <1>3 DEF Subscribe, At, paths, watchers
<1>4. ASSUME NEW s \in Subscriptions, Listed(s) PROVE SessionInv'
  BY <1>4 DEF Listed, CloseWatcher, At
<1>5. ASSUME NEW s \in Subscriptions, WatcherStarts(s) PROVE SessionInv'
  BY <1>5 DEF WatcherStarts, At, paths
<1>6. ASSUME NEW s \in Subscriptions, WatcherReady(s) PROVE SessionInv'
  BY <1>6 DEF WatcherReady, At, paths
<1>7. ASSUME NEW s \in Subscriptions, SubscribeFails(s) PROVE SessionInv'
  <2>1. watchFaults' \in 0 .. MaxWatchFaults
    BY <1>7, SessionAssumption DEF SubscribeFails, WatchFault
  <2>. QED BY <1>7, <2>1 DEF SubscribeFails, At, paths, watchers
<1>8. CASE DirectoryChanges
  BY <1>8 DEF DirectoryChanges, paths
<1>9. CASE PublishSnapshot
  BY <1>9 DEF PublishSnapshot, paths
<1>10. ASSUME NEW d \in Directories, Published(d) PROVE SessionInv'
  <2>1. watchFaults' \in 0 .. MaxWatchFaults
    BY <1>10, SessionAssumption DEF Published, WatchFault
  <2>. QED BY <1>10, <2>1 DEF Published, watchers
<1>11. CASE SessionCloses
  BY <1>11 DEF SessionCloses, CloseWatcher, paths
<1>. QED BY <1>2, <1>3, <1>4, <1>5, <1>6, <1>7, <1>8, <1>9, <1>10, <1>11 DEF SessionNext

\* The session by itself.
LEMMA SessionHolds == SessionSpec => []SessionInv
BY SessionInitially, SessionNextStep, PTL DEF SessionSpec

-----------------------------------------------------------------------------
(***************************************************************************)
(* BrowserViewRelay.                                                       *)
(***************************************************************************)
RelayTyped ==
  /\ relay \in RelaySessions \cup {NoSession} /\ sessionsMade \in 0 .. MaxRelaySessions
  /\ publisher \in [RelaySessions -> Publishers \cup {NoSocket}]
  /\ subscribers \in [RelaySessions -> SUBSET Viewers]
  /\ cached \in [RelaySessions -> SUBSET Cacheable]
  /\ socketState \in [Sockets -> {"none", "open", "closing"}]
  /\ attachedTo \in [Sockets -> RelaySessions \cup {NoSession}]
  /\ told \in [Viewers -> {"yes", "no", "missed"}]

\* A session that is not in the Map has nobody.
OthersAreEmpty ==
  \A s \in RelaySessions : s # relay => publisher[s] = NoSocket /\ subscribers[s] = {}

\* A viewer, also one that closes, is a subscriber of the session in the Map; a publisher
\* that closes may be one of a session that is gone.
AttachedToRelay ==
  /\ \A v \in Viewers : socketState[v] # "none" =>
       relay # NoSession /\ attachedTo[v] = relay /\ v \in subscribers[relay]
  /\ \A p \in Publishers : socketState[p] # "none" => attachedTo[p] \in RelaySessions
  /\ \A p \in Publishers : socketState[p] = "open" => relay # NoSession /\ publisher[relay] = p

ToldTheStatus ==
  \A v \in Viewers : socketState[v] = "open" =>
    told[v] \in {"missed", IF publisher[relay] = NoSocket THEN "no" ELSE "yes"}

RelayInv == RelayTyped /\ OthersAreEmpty /\ AttachedToRelay /\ ToldTheStatus

\* No session of the relay is in the Map.
LEMMA RelayInitially == RelayInit => RelayInv
<1>1. ASSUME RelayInit PROVE RelayTyped
  <2>1. 0 \in 0 .. MaxRelaySessions
    BY RelayAssumption
  <2>2. /\ publisher \in [RelaySessions -> Publishers \cup {NoSocket}]
        /\ subscribers \in [RelaySessions -> SUBSET Viewers]
        /\ cached \in [RelaySessions -> SUBSET Cacheable]
    BY <1>1 DEF RelayInit
  <2>3. /\ socketState \in [Sockets -> {"none", "open", "closing"}]
        /\ attachedTo \in [Sockets -> RelaySessions \cup {NoSession}]
        /\ told \in [Viewers -> {"yes", "no", "missed"}]
    BY <1>1 DEF RelayInit
  <2>. QED BY <1>1, <2>1, <2>2, <2>3 DEF RelayInit, RelayTyped
<1>2. RelayInit => OthersAreEmpty /\ AttachedToRelay /\ ToldTheStatus
  BY DEF RelayInit, OthersAreEmpty, AttachedToRelay, ToldTheStatus, Sockets
<1>. QED BY <1>1, <1>2 DEF RelayInv

\* The types and what the viewers are promised follow from the inductive invariant.
LEMMA RelayFollows == RelayInv => RelayTypeOK /\ OneRelay
BY DEF RelayInv, RelayTyped, RelayTypeOK, OneRelay, AttachedToRelay, ToldTheStatus

\* What the viewers of a session were told after a broadcast.
LEMMA StatusIsTold ==
  ASSUME NEW s, NEW status \in {"yes", "no"}, BroadcastStatus(s, status), RelayTyped
  PROVE  /\ told' \in [Viewers -> {"yes", "no", "missed"}]
         /\ \A v \in Viewers : v \in subscribers[s] /\ socketState[v] = "open" =>
              told'[v] \in {"missed", status}
BY DEF BroadcastStatus, RelayTyped

\* The session that a new websocket is attached to has the place in the Map.
LEMMA SessionIsCurrent ==
  ASSUME RelayTyped, OthersAreEmpty, GetOrCreate
  PROVE  /\ Current \in RelaySessions /\ relay' = Current /\ Current # NoSession
         /\ sessionsMade' \in 0 .. MaxRelaySessions
         /\ relay # NoSession => Current = relay
         /\ relay = NoSession => publisher[Current] = NoSocket /\ subscribers[Current] = {}
BY RelayAssumption DEF GetOrCreate, Current, RelayTyped, OthersAreEmpty, RelaySessions, NoSession

\* A publisher takes the place of the one there was, and the viewers are told.
LEMMA PublisherAttaches ==
  ASSUME RelayInv, NEW p \in Publishers, AttachPublisher(p)
  PROVE  RelayInv'
<1>. DEFINE s == Current
            replaced == publisher[s]
<1>1. /\ socketState[p] = "none"
      /\ GetOrCreate
      /\ socketState' = [w \in Sockets |->
            CASE w = p -> "open"
              [] w = replaced /\ socketState[w] = "open" -> "closing"
              [] OTHER -> socketState[w]]
      /\ publisher' = [publisher EXCEPT ![s] = p]
      /\ cached' = [cached EXCEPT ![s] = {}]
      /\ attachedTo' = [attachedTo EXCEPT ![p] = s]
      /\ BroadcastStatus(s, "yes")
      /\ subscribers' = subscribers
  BY DEF AttachPublisher
<1>2. /\ s \in RelaySessions /\ relay' = s /\ s # NoSession
      /\ sessionsMade' \in 0 .. MaxRelaySessions
      /\ relay # NoSession => s = relay
      /\ relay = NoSession => publisher[s] = NoSocket /\ subscribers[s] = {}
  BY <1>1, SessionIsCurrent DEF RelayInv
<1>3. /\ told' \in [Viewers -> {"yes", "no", "missed"}]
      /\ \A v \in Viewers : v \in subscribers[s] /\ socketState[v] = "open" =>
              told'[v] \in {"missed", "yes"}
  BY <1>1, StatusIsTold DEF RelayInv
<1>. HIDE DEF s
<1>4. p \in Sockets /\ p # NoSocket /\ p \notin Viewers /\ Viewers \subseteq Sockets
      /\ Publishers \subseteq Sockets
  BY RelayAssumption DEF Sockets
<1>5. /\ publisher'[s] = p
      /\ \A t \in RelaySessions : t # s => publisher'[t] = publisher[t]
      /\ attachedTo'[p] = s
      /\ \A w \in Sockets : w # p => attachedTo'[w] = attachedTo[w]
  BY <1>1, <1>2, <1>4 DEF RelayInv, RelayTyped
<1>6. /\ socketState'[p] = "open"
      /\ \A w \in Sockets : w # p =>
           /\ socketState'[w] = "none" <=> socketState[w] = "none"
           /\ socketState'[w] = "open" => socketState[w] = "open" /\ w # replaced
  BY <1>1, <1>4 DEF RelayInv, RelayTyped
<1>7. RelayTyped'
  <2>1. socketState' \in [Sockets -> {"none", "open", "closing"}]
    BY <1>1 DEF RelayInv, RelayTyped
  <2>2. publisher' \in [RelaySessions -> Publishers \cup {NoSocket}]
    BY <1>1 DEF RelayInv, RelayTyped
  <2>3. cached' \in [RelaySessions -> SUBSET Cacheable]
    BY <1>1 DEF RelayInv, RelayTyped
  <2>4. attachedTo' \in [Sockets -> RelaySessions \cup {NoSession}]
    BY <1>1, <1>2 DEF RelayInv, RelayTyped
  <2>. QED BY <1>1, <1>2, <1>3, <2>1, <2>2, <2>3, <2>4 DEF RelayInv, RelayTyped
<1>8. OthersAreEmpty'
  <2>1. ASSUME NEW t \in RelaySessions, t # s
        PROVE  publisher[t] = NoSocket /\ subscribers[t] = {}
    BY <1>2, <2>1 DEF RelayInv, OthersAreEmpty, RelaySessions, NoSession
  <2>. QED BY <1>1, <1>2, <1>5, <2>1 DEF OthersAreEmpty
<1>9. AttachedToRelay'
  <2>1. ASSUME NEW v \in Viewers, socketState'[v] # "none"
        PROVE  relay' # NoSession /\ attachedTo'[v] = relay' /\ v \in subscribers'[relay']
    BY <1>1, <1>2, <1>4, <1>5, <1>6, <2>1 DEF RelayInv, AttachedToRelay
  <2>2. ASSUME NEW q \in Publishers, socketState'[q] # "none"
        PROVE  attachedTo'[q] \in RelaySessions
    BY <1>2, <1>4, <1>5, <1>6, <2>2 DEF RelayInv, AttachedToRelay
  <2>3. ASSUME NEW q \in Publishers, socketState'[q] = "open"
        PROVE  relay' # NoSession /\ publisher'[relay'] = q
    BY <1>2, <1>4, <1>5, <1>6, <2>3 DEF RelayInv, AttachedToRelay
  <2>. QED BY <2>1, <2>2, <2>3 DEF AttachedToRelay
<1>10. ToldTheStatus'
  <2>1. ASSUME NEW v \in Viewers, socketState'[v] = "open"
        PROVE  told'[v] \in {"missed", "yes"}
    BY <1>1, <1>2, <1>3, <1>4, <1>6, <2>1 DEF RelayInv, AttachedToRelay
  <2>. QED BY <1>2, <1>4, <1>5, <2>1 DEF ToldTheStatus
<1>. QED BY <1>7, <1>8, <1>9, <1>10 DEF RelayInv

\* A viewer is a subscriber of the session in the Map, and is told of its publisher.
LEMMA SubscriberAttaches ==
  ASSUME RelayInv, NEW u \in Viewers, AttachSubscriber(u)
  PROVE  RelayInv'
<1>. DEFINE s == Current
            status == IF publisher[s] # NoSocket THEN "yes" ELSE "no"
<1>1. /\ socketState[u] = "none"
      /\ GetOrCreate
      /\ subscribers' = [subscribers EXCEPT ![s] = @ \cup {u}]
      /\ attachedTo' = [attachedTo EXCEPT ![u] = s]
      /\ told' = [told EXCEPT ![u] = status]
      /\ socketState' = [socketState EXCEPT ![u] = "open"]
      /\ publisher' = publisher /\ cached' = cached
  BY DEF AttachSubscriber
<1>2. /\ s \in RelaySessions /\ relay' = s /\ s # NoSession
      /\ sessionsMade' \in 0 .. MaxRelaySessions
      /\ relay # NoSession => s = relay
      /\ relay = NoSession => publisher[s] = NoSocket /\ subscribers[s] = {}
  BY <1>1, SessionIsCurrent DEF RelayInv
<1>. HIDE DEF s
<1>4. /\ u \in Sockets /\ u \notin Publishers
      /\ Viewers \subseteq Sockets /\ Publishers \subseteq Sockets
  BY RelayAssumption DEF Sockets
<1>5. /\ subscribers'[s] = subscribers[s] \cup {u}
      /\ \A t \in RelaySessions : t # s => subscribers'[t] = subscribers[t]
      /\ attachedTo'[u] = s
      /\ \A w \in Sockets : w # u => attachedTo'[w] = attachedTo[w]
      /\ socketState'[u] = "open"
      /\ \A w \in Sockets : w # u => socketState'[w] = socketState[w]
      /\ told'[u] = status
      /\ \A v \in Viewers : v # u => told'[v] = told[v]
  BY <1>1, <1>2, <1>4 DEF RelayInv, RelayTyped
<1>7. RelayTyped'
  <2>1. subscribers' \in [RelaySessions -> SUBSET Viewers]
    BY <1>1 DEF RelayInv, RelayTyped
  <2>2. socketState' \in [Sockets -> {"none", "open", "closing"}]
    BY <1>1 DEF RelayInv, RelayTyped
  <2>3. told' \in [Viewers -> {"yes", "no", "missed"}]
    BY <1>1 DEF RelayInv, RelayTyped
  <2>4. attachedTo' \in [Sockets -> RelaySessions \cup {NoSession}]
    BY <1>1, <1>2 DEF RelayInv, RelayTyped
  <2>. QED BY <1>1, <1>2, <2>1, <2>2, <2>3, <2>4 DEF RelayInv, RelayTyped
<1>8. OthersAreEmpty'
  <2>1. ASSUME NEW t \in RelaySessions, t # s
        PROVE  publisher[t] = NoSocket /\ subscribers[t] = {}
    BY <1>2, <2>1 DEF RelayInv, OthersAreEmpty, RelaySessions, NoSession
  <2>. QED BY <1>1, <1>2, <1>5, <2>1 DEF OthersAreEmpty
<1>9. AttachedToRelay'
  <2>1. ASSUME NEW v \in Viewers, socketState'[v] # "none"
        PROVE  relay' # NoSession /\ attachedTo'[v] = relay' /\ v \in subscribers'[relay']
    BY <1>2, <1>4, <1>5, <2>1 DEF RelayInv, AttachedToRelay
  <2>2. ASSUME NEW q \in Publishers
        PROVE  /\ socketState'[q] # "none" => attachedTo'[q] \in RelaySessions
               /\ socketState'[q] = "open" => relay' # NoSession /\ publisher'[relay'] = q
    BY <1>1, <1>2, <1>4, <1>5 DEF RelayInv, AttachedToRelay
  <2>. QED BY <2>1, <2>2 DEF AttachedToRelay
<1>10. ToldTheStatus'
  <2>1. ASSUME NEW v \in Viewers, socketState'[v] = "open"
        PROVE  told'[v] \in {"missed", IF publisher'[relay'] = NoSocket THEN "no" ELSE "yes"}
    <3>1. CASE v = u
      BY <1>1, <1>2, <1>5, <3>1
    <3>2. CASE v # u
      BY <1>1, <1>2, <1>4, <1>5, <2>1, <3>2 DEF RelayInv, AttachedToRelay, ToldTheStatus
    <3>. QED BY <3>1, <3>2
  <2>. QED BY <2>1 DEF ToldTheStatus
<1>. QED BY <1>7, <1>8, <1>9, <1>10 DEF RelayInv

\* The end of a publisher that was replaced changes nothing for the one that is there.
LEMMA PublisherCloses ==
  ASSUME RelayInv, NEW p \in Publishers, PublisherCloseEvent(p)
  PROVE  RelayInv'
<1>. DEFINE s == attachedTo[p]
<1>1. /\ socketState[p] = "closing"
      /\ socketState' = [socketState EXCEPT ![p] = "none"]
      /\ attachedTo' = [attachedTo EXCEPT ![p] = NoSession]
      /\ sessionsMade' = sessionsMade
      /\ subscribers' = subscribers
  BY DEF PublisherCloseEvent
<1>2. p \in Sockets /\ p # NoSocket /\ p \notin Viewers /\ Viewers \subseteq Sockets
      /\ Publishers \subseteq Sockets
  BY RelayAssumption DEF Sockets
<1>3. s \in RelaySessions
  BY <1>1, <1>2 DEF RelayInv, AttachedToRelay
<1>4. /\ attachedTo'[p] = NoSession /\ socketState'[p] = "none"
      /\ \A w \in Sockets : w # p =>
           attachedTo'[w] = attachedTo[w] /\ socketState'[w] = socketState[w]
  BY <1>1, <1>2 DEF RelayInv, RelayTyped
<1>5. /\ socketState' \in [Sockets -> {"none", "open", "closing"}]
      /\ attachedTo' \in [Sockets -> RelaySessions \cup {NoSession}]
  BY <1>1 DEF RelayInv, RelayTyped
<1>6. CASE publisher[s] # p
  <2>1. relay' = relay /\ publisher' = publisher /\ cached' = cached /\ told' = told
    BY <1>6 DEF PublisherCloseEvent
  <2>2. RelayTyped' /\ OthersAreEmpty'
    BY <1>1, <1>5, <2>1 DEF RelayInv, RelayTyped, OthersAreEmpty
  <2>3. AttachedToRelay' /\ ToldTheStatus'
    BY <1>1, <1>2, <1>4, <2>1 DEF RelayInv, AttachedToRelay, ToldTheStatus
  <2>. QED BY <2>2, <2>3 DEF RelayInv
<1>7. CASE publisher[s] = p
  <2>1. /\ publisher' = [publisher EXCEPT ![s] = NoSocket]
        /\ cached' = [cached EXCEPT ![s] = {}]
        /\ BroadcastStatus(s, "no")
        /\ relay' = IF publisher'[s] = NoSocket /\ subscribers'[s] = {} THEN NoSession ELSE relay
    BY <1>7 DEF PublisherCloseEvent, DeleteIfUnused
  <2>2. s = relay /\ relay # NoSession
    BY <1>2, <1>3, <1>7 DEF RelayInv, OthersAreEmpty, RelaySessions, NoSession
  <2>3. /\ told' \in [Viewers -> {"yes", "no", "missed"}]
        /\ \A v \in Viewers : v \in subscribers[s] /\ socketState[v] = "open" =>
             told'[v] \in {"missed", "no"}
    BY <2>1, StatusIsTold DEF RelayInv
  <2>. HIDE DEF s
  <2>4. /\ publisher'[s] = NoSocket
        /\ \A t \in RelaySessions : t # s => publisher'[t] = publisher[t]
    BY <1>3, <2>1 DEF RelayInv, RelayTyped
  <2>5. relay' = IF subscribers[s] = {} THEN NoSession ELSE s
    BY <1>1, <2>1, <2>2, <2>4
  <2>6. RelayTyped'
    <3>1. publisher' \in [RelaySessions -> Publishers \cup {NoSocket}]
      BY <2>1 DEF RelayInv, RelayTyped
    <3>2. cached' \in [RelaySessions -> SUBSET Cacheable]
      BY <2>1 DEF RelayInv, RelayTyped
    <3>. QED BY <1>1, <1>3, <1>5, <2>3, <2>5, <3>1, <3>2 DEF RelayInv, RelayTyped
  <2>7. OthersAreEmpty'
    BY <1>1, <2>2, <2>4, <2>5 DEF RelayInv, OthersAreEmpty
  <2>8. ASSUME NEW v \in Viewers, socketState'[v] # "none"
        PROVE  relay' # NoSession /\ attachedTo'[v] = relay' /\ v \in subscribers'[relay']
    BY <1>1, <1>2, <1>4, <2>2, <2>5, <2>8 DEF RelayInv, AttachedToRelay
  <2>9. ASSUME NEW q \in Publishers
        PROVE  /\ socketState'[q] # "none" => attachedTo'[q] \in RelaySessions
               /\ socketState'[q] # "open"
    BY <1>2, <1>4, <1>7, <2>2 DEF RelayInv, AttachedToRelay, s
  <2>10. ToldTheStatus'
    <3>1. ASSUME NEW v \in Viewers, socketState'[v] = "open"
          PROVE  told'[v] \in {"missed", "no"} /\ relay' = s
      BY <1>2, <1>4, <2>2, <2>3, <2>5, <3>1 DEF RelayInv, AttachedToRelay
    <3>. QED BY <2>4, <3>1 DEF ToldTheStatus
  <2>. QED BY <2>6, <2>7, <2>8, <2>9, <2>10 DEF RelayInv, AttachedToRelay
<1>. QED BY <1>6, <1>7

\* The last one out takes the session away.
LEMMA SubscriberCloses ==
  ASSUME RelayInv, NEW u \in Viewers, SubscriberCloseEvent(u)
  PROVE  RelayInv'
<1>. DEFINE s == attachedTo[u]
<1>1. /\ socketState[u] = "closing"
      /\ socketState' = [socketState EXCEPT ![u] = "none"]
      /\ attachedTo' = [attachedTo EXCEPT ![u] = NoSession]
      /\ subscribers' = [subscribers EXCEPT ![s] = @ \ {u}]
      /\ told' = [told EXCEPT ![u] = "no"]
      /\ publisher' = publisher /\ sessionsMade' = sessionsMade /\ cached' = cached
      /\ relay' = IF publisher[s] = NoSocket /\ subscribers'[s] = {} THEN NoSession ELSE relay
  BY DEF SubscriberCloseEvent, DeleteIfUnused
<1>2. /\ u \in Sockets /\ u \notin Publishers
      /\ Viewers \subseteq Sockets /\ Publishers \subseteq Sockets
  BY RelayAssumption DEF Sockets
<1>3. s = relay /\ relay # NoSession /\ s \in RelaySessions
  BY <1>1, <1>2 DEF RelayInv, RelayTyped, AttachedToRelay
<1>. HIDE DEF s
<1>4. /\ subscribers'[s] = subscribers[s] \ {u}
      /\ \A t \in RelaySessions : t # s => subscribers'[t] = subscribers[t]
      /\ attachedTo'[u] = NoSession /\ socketState'[u] = "none"
      /\ \A w \in Sockets : w # u =>
           attachedTo'[w] = attachedTo[w] /\ socketState'[w] = socketState[w]
      /\ \A v \in Viewers : v # u => told'[v] = told[v]
  BY <1>1, <1>2, <1>3 DEF RelayInv, RelayTyped
<1>5. RelayTyped'
  <2>1. subscribers' \in [RelaySessions -> SUBSET Viewers]
    BY <1>1 DEF RelayInv, RelayTyped
  <2>2. socketState' \in [Sockets -> {"none", "open", "closing"}]
    BY <1>1 DEF RelayInv, RelayTyped
  <2>3. told' \in [Viewers -> {"yes", "no", "missed"}]
    BY <1>1 DEF RelayInv, RelayTyped
  <2>4. attachedTo' \in [Sockets -> RelaySessions \cup {NoSession}]
    BY <1>1 DEF RelayInv, RelayTyped
  <2>. QED BY <1>1, <1>3, <2>1, <2>2, <2>3, <2>4 DEF RelayInv, RelayTyped
<1>6. OthersAreEmpty'
  BY <1>1, <1>3, <1>4 DEF RelayInv, OthersAreEmpty
<1>7. ASSUME NEW v \in Viewers, socketState'[v] # "none"
      PROVE  relay' = relay /\ attachedTo'[v] = relay /\ v \in subscribers'[relay]
  BY <1>1, <1>2, <1>3, <1>4, <1>7 DEF RelayInv, AttachedToRelay
<1>8. ASSUME NEW q \in Publishers
      PROVE  /\ socketState'[q] # "none" => attachedTo'[q] \in RelaySessions
             /\ socketState'[q] = "open" => relay' # NoSession /\ publisher'[relay'] = q
  <2>1. q # NoSocket /\ socketState'[q] = socketState[q] /\ attachedTo'[q] = attachedTo[q]
    BY <1>2, <1>4, RelayAssumption
  <2>. QED BY <1>1, <1>3, <2>1 DEF RelayInv, AttachedToRelay
<1>9. AttachedToRelay'
  BY <1>3, <1>7, <1>8 DEF AttachedToRelay
<1>10. ToldTheStatus'
  BY <1>1, <1>2, <1>4, <1>7 DEF RelayInv, ToldTheStatus
<1>. QED BY <1>5, <1>6, <1>9, <1>10 DEF RelayInv

\* Every step of the relay keeps the invariant.
LEMMA RelayNextStep == RelayInv /\ [RelayNext]_relayVars => RelayInv'
<1>1. SUFFICES ASSUME RelayInv, [RelayNext]_relayVars PROVE RelayInv'
  OBVIOUS
<1>2. CASE UNCHANGED relayVars
  BY <1>1, <1>2 DEF relayVars, RelayInv, RelayTyped, OthersAreEmpty, AttachedToRelay, ToldTheStatus
<1>3. Viewers \subseteq Sockets /\ Publishers \subseteq Sockets
  BY DEF Sockets
<1>4. ASSUME NEW w \in Sockets, socketState' = [socketState EXCEPT ![w] = "closing"],
             socketState[w] # "none", cached' \in [RelaySessions -> SUBSET Cacheable],
             UNCHANGED <<relay, sessionsMade, publisher, subscribers, attachedTo, told>>
      PROVE  RelayInv'
  <2>1. socketState' \in [Sockets -> {"none", "open", "closing"}]
    BY <1>1, <1>4 DEF RelayInv, RelayTyped
  <2>2. \A x \in Sockets : /\ socketState'[x] = "none" <=> socketState[x] = "none"
                           /\ socketState'[x] = "open" => socketState[x] = "open"
    BY <1>1, <1>4 DEF RelayInv, RelayTyped
  <2>3. RelayTyped' /\ OthersAreEmpty'
    BY <1>1, <1>4, <2>1 DEF RelayInv, RelayTyped, OthersAreEmpty
  <2>4. AttachedToRelay' /\ ToldTheStatus'
    BY <1>1, <1>3, <1>4, <2>2 DEF RelayInv, AttachedToRelay, ToldTheStatus
  <2>. QED BY <2>3, <2>4 DEF RelayInv
<1>5. ASSUME NEW p \in Publishers, PublisherMessage(p) PROVE RelayInv'
  <2>1. p \in Sockets /\ socketState[p] # "none"
    BY <1>3, <1>5 DEF PublisherMessage
  <2>2. cached' \in [RelaySessions -> SUBSET Cacheable]
    BY <1>1, <1>5 DEF PublisherMessage, RelayInv, RelayTyped, Cacheable
  <2>3. CASE socketState' = [socketState EXCEPT ![p] = "closing"]
    BY <1>4, <1>5, <2>1, <2>2, <2>3 DEF PublisherMessage
  <2>4. CASE socketState' = socketState
    BY <1>1, <1>5, <2>2, <2>4
       DEF PublisherMessage, RelayInv, RelayTyped, OthersAreEmpty, AttachedToRelay, ToldTheStatus
  <2>. QED BY <1>5, <2>3, <2>4 DEF PublisherMessage
<1>6. ASSUME NEW w \in Sockets, SocketCloses(w) PROVE RelayInv'
  <2>1. cached' \in [RelaySessions -> SUBSET Cacheable]
    BY <1>1, <1>6 DEF SocketCloses, RelayInv, RelayTyped
  <2>. QED BY <1>4, <1>6, <2>1 DEF SocketCloses
<1>. QED BY <1>1, <1>2, <1>5, <1>6, PublisherAttaches, PublisherCloses, SubscriberAttaches,
            SubscriberCloses DEF RelayNext

\* The relay by itself.
LEMMA RelayHolds == RelaySpec => []RelayInv
BY RelayInitially, RelayNextStep, PTL DEF RelaySpec

-----------------------------------------------------------------------------
(***************************************************************************)
(* AgentSessionSync.                                                       *)
(***************************************************************************)
PutRecords ==
  [id : 0 .. MaxSyncFaults, waits : BOOLEAN, file : SessionFiles, sha : Contents,
   body : 0 .. MaxContents, at : {"body", "check", "object", "thread", "version", "latest"},
   seen : 0 .. MaxContents]

SyncTyped ==
  /\ onDisk \in [SessionFiles -> Contents]
  /\ sync \in {"discover", "plan", "upload", "wait", "delay", "synced", "gave up"}
  /\ attempt \in 1 .. MaxAttempts
  /\ syncFiles \in SUBSET Uploadable /\ toUpload \in SUBSET Uploadable
  /\ puts \in SUBSET PutRecords
  /\ objects \in [Uploadable -> 0 .. MaxContents]
  /\ versions \in SUBSET Uploadable
  /\ latest \in [SessionFiles -> 0 .. MaxContents]
  /\ syncFaults \in 0 .. MaxSyncFaults

\* What is left to upload of the syncFiles, and the file under way.
UploadsAreLeft ==
  /\ toUpload \subseteq syncFiles
  /\ sync \notin {"upload", "wait"} => toUpload = {}
  /\ IF sync = "wait" THEN \E u \in toUpload : uploading = {u} ELSE uploading = {}
  /\ sync = "delay" => attempt < MaxAttempts

\* What is not left to upload has its version.
RestIsStored == sync \in {"upload", "wait", "synced"} => syncFiles \ toUpload \subseteq versions

\* The machine waits for the answer to one request, which is about the file under way.
OneWaits ==
  /\ \A p \in puts : p.waits => sync = "wait" /\ uploading = {Key(p)}
  /\ \A p, q \in puts : p.waits /\ q.waits => p = q

\* The cloud handles no more requests than broke, beside the one that is waited for.
PutsAreFew ==
  /\ IsFiniteSet(puts)
  /\ Cardinality(puts) <= IF sync = "wait" THEN syncFaults + 1 ELSE syncFaults

\* A request whose body was compared has the content it names, which is stored before its
\* version is written down.
PutIsSound(p) ==
  /\ p.at \in {"object", "thread", "version", "latest"} => p.body = p.sha
  /\ p.at \in {"thread", "version", "latest"} => objects[Key(p)] = p.sha
  /\ p.at = "latest" => Key(p) \in versions

VersionsAreStored == \A u \in versions : objects[u] = u[2]

SyncInv ==
  /\ SyncTyped /\ UploadsAreLeft /\ RestIsStored /\ OneWaits /\ PutsAreFew
  /\ \A p \in puts : PutIsSound(p)
  /\ VersionsAreStored

\* Nothing is uploaded yet.
LEMMA SyncInitially == SyncInit => SyncInv
<1>1. SUFFICES ASSUME SyncInit PROVE SyncInv
  OBVIOUS
<1>2. 1 \in Contents /\ 0 \in 0 .. MaxContents /\ 1 \in 1 .. MaxAttempts /\ 0 \in 0 .. MaxSyncFaults
  BY SyncAssumption DEF Contents
<1>3. /\ onDisk \in [SessionFiles -> Contents] /\ latest \in [SessionFiles -> 0 .. MaxContents]
      /\ objects \in [Uploadable -> 0 .. MaxContents]
  BY <1>1, <1>2 DEF SyncInit
<1>4. SyncTyped
  BY <1>1, <1>2, <1>3 DEF SyncInit, SyncTyped
<1>5. UploadsAreLeft /\ RestIsStored /\ OneWaits
  BY <1>1 DEF SyncInit, UploadsAreLeft, RestIsStored, OneWaits
<1>6. PutsAreFew
  BY <1>1, FS_EmptySet DEF SyncInit, PutsAreFew
<1>. QED BY <1>1, <1>4, <1>5, <1>6 DEF SyncInit, SyncInv, VersionsAreStored

\* The types and what a sync promises follow from the inductive invariant.
LEMMA SyncFollows == SyncInv => SyncTypeOK /\ SyncedIsStored
<1>1. SUFFICES ASSUME SyncInv PROVE SyncTypeOK /\ SyncedIsStored
  OBVIOUS
<1>2. /\ uploading \subseteq toUpload
      /\ Cardinality(uploading) = IF sync = "wait" THEN 1 ELSE 0
  <2>1. CASE sync = "wait"
    <3>1. PICK u \in toUpload : uploading = {u}
      BY <1>1, <2>1 DEF SyncInv, UploadsAreLeft
    <3>. QED BY <2>1, <3>1, FS_Singleton
  <2>2. CASE sync # "wait"
    BY <1>1, <2>2, FS_EmptySet DEF SyncInv, UploadsAreLeft
  <2>. QED BY <2>1, <2>2
<1>3. SyncTypeOK
  BY <1>1, <1>2 DEF SyncInv, SyncTyped, UploadsAreLeft, SyncTypeOK, PutRecords
<1>4. SyncedIsStored
  BY <1>1 DEF SyncInv, UploadsAreLeft, RestIsStored, VersionsAreStored, SyncedIsStored
<1>. QED BY <1>3, <1>4

\* The numbers there are.
LEMMA SyncNumbers ==
  ASSUME SyncInv
  PROVE  /\ syncFaults \in Nat /\ MaxSyncFaults \in Nat /\ syncFaults <= MaxSyncFaults
         /\ IsFiniteSet(puts) /\ Cardinality(puts) \in Nat
         /\ Cardinality(puts) <= syncFaults + 1
         /\ sync # "wait" => Cardinality(puts) <= syncFaults
<1>1. syncFaults \in 0 .. MaxSyncFaults
  BY DEF SyncInv, SyncTyped
<1>2. MaxSyncFaults \in Nat
  BY SyncAssumption
<1>3. syncFaults \in Nat /\ syncFaults <= MaxSyncFaults
  BY <1>1, <1>2
<1>4. /\ IsFiniteSet(puts)
      /\ Cardinality(puts) <= IF sync = "wait" THEN syncFaults + 1 ELSE syncFaults
  BY DEF SyncInv, PutsAreFew
<1>5. Cardinality(puts) \in Nat
  BY <1>4, FS_CardinalityType
<1>6. Cardinality(puts) <= syncFaults + 1
  BY <1>3, <1>4, <1>5
<1>. QED BY <1>2, <1>3, <1>4, <1>5, <1>6

\* The requests that go on unheard are among those there were, and no more.
LEMMA UnheardAreFewer ==
  ASSUME puts \in SUBSET PutRecords, IsFiniteSet(puts)
  PROVE  /\ Unheard \in SUBSET PutRecords
         /\ IsFiniteSet(Unheard) /\ Cardinality(Unheard) <= Cardinality(puts)
         /\ \A q \in Unheard : ~ q.waits
         /\ (\A p \in puts : PutIsSound(p)) => \A q \in Unheard : PutIsSound(q)
<1>1. PICK S : S = {p \in puts : p.at # "body"}
  OBVIOUS
<1>2. PICK f : f = [p \in S |-> [p EXCEPT !.waits = FALSE]]
  OBVIOUS
<1>3. Unheard = {f[p] : p \in S}
  BY <1>1, <1>2 DEF Unheard
<1>4. IsFiniteSet(S) /\ Cardinality(S) <= Cardinality(puts)
  BY <1>1, FS_Subset
<1>5. \A p \in S : /\ p \in PutRecords /\ f[p] \in PutRecords /\ ~ f[p].waits
                   /\ f[p].at = p.at /\ f[p].body = p.body /\ f[p].sha = p.sha
                   /\ f[p].file = p.file
  BY ZenonT(60), <1>1, <1>2 DEF PutRecords
<1>6. f \in Surjection(S, Unheard)
  BY <1>2, <1>3 DEF Surjection
<1>7. IsFiniteSet(Unheard) /\ Cardinality(Unheard) <= Cardinality(S)
  BY <1>4, <1>6, FS_Surjection
<1>8. Cardinality(Unheard) <= Cardinality(puts)
  BY <1>4, <1>7, FS_CardinalityType
<1>9. (\A p \in puts : PutIsSound(p)) => \A q \in Unheard : PutIsSound(q)
  <2>1. SUFFICES ASSUME \A p \in puts : PutIsSound(p), NEW q \in Unheard PROVE PutIsSound(q)
    OBVIOUS
  <2>2. PICK p \in S : q = f[p]
    BY <1>3
  <2>3. PutIsSound(p) /\ q.at = p.at /\ q.body = p.body /\ q.sha = p.sha /\ q.file = p.file
    BY <1>1, <1>5, <2>1, <2>2
  <2>. QED BY <2>3 DEF PutIsSound, Key
<1>. QED BY <1>3, <1>5, <1>7, <1>8, <1>9

\* There is always a number left to tell a request by.
LEMMA UnusedIsThere ==
  ASSUME puts \in SUBSET PutRecords, IsFiniteSet(puts), Cardinality(puts) <= MaxSyncFaults
  PROVE  Unused \in 0 .. MaxSyncFaults
<1>1. PICK f : f = [p \in puts |-> p.id]
  OBVIOUS
<1>2. PICK ids : ids = {p.id : p \in puts}
  OBVIOUS
<1>3. f \in Surjection(puts, ids)
  BY <1>1, <1>2 DEF Surjection
<1>4. IsFiniteSet(ids) /\ Cardinality(ids) <= Cardinality(puts)
  BY <1>3, FS_Surjection
<1>5. MaxSyncFaults \in Nat /\ 0 \in Int /\ MaxSyncFaults \in Int
  BY SyncAssumption
<1>6. Cardinality(0 .. MaxSyncFaults) = MaxSyncFaults + 1
  BY <1>5, FS_Interval
<1>7. (0 .. MaxSyncFaults) \ ids # {}
  <2>1. SUFFICES ASSUME (0 .. MaxSyncFaults) \subseteq ids PROVE FALSE
    OBVIOUS
  <2>2. Cardinality(0 .. MaxSyncFaults) <= Cardinality(ids)
    BY <1>4, <2>1, FS_Subset
  <2>3. Cardinality(ids) \in Nat /\ Cardinality(puts) \in Nat
    BY <1>4, FS_CardinalityType
  <2>. QED BY <1>4, <1>5, <1>6, <2>2, <2>3
<1>8. (0 .. MaxSyncFaults) \ ids \in SUBSET Nat
  BY <1>5
<1>9. Min((0 .. MaxSyncFaults) \ ids) \in (0 .. MaxSyncFaults) \ ids
  BY <1>7, <1>8, LeastNumber
<1>. QED BY <1>2, <1>9 DEF Unused

\* A request goes on to its next step and stays what it was about.
LEMMA PutMoves ==
  ASSUME SyncInv, NEW p \in puts, NEW q \in PutRecords, Moves(p, q),
         q.waits = p.waits, q.file = p.file, q.sha = p.sha, PutIsSound(q)',
         \A x \in puts : PutIsSound(x)',
         UNCHANGED <<sync, uploading, syncFaults>>
  PROVE  /\ puts' \in SUBSET PutRecords /\ OneWaits' /\ PutsAreFew'
         /\ \A x \in puts' : PutIsSound(x)'
<1>1. puts' = (puts \ {p}) \cup {q}
  BY DEF Moves
<1>2. puts' \in SUBSET PutRecords /\ \A x \in puts' : PutIsSound(x)'
  BY <1>1 DEF SyncInv, SyncTyped
<1>3. OneWaits'
  BY <1>1 DEF SyncInv, OneWaits, Key
<1>4. PutsAreFew'
  <2>1. /\ IsFiniteSet(puts \ {p}) /\ Cardinality(puts \ {p}) = Cardinality(puts) - 1
        /\ Cardinality(puts) \in Nat
    BY FS_RemoveElement, FS_CardinalityType DEF SyncInv, PutsAreFew
  <2>2. /\ IsFiniteSet(puts') /\ Cardinality(puts') <= Cardinality(puts \ {p}) + 1
    BY SMTT(30), <1>1, <2>1, FS_AddElement
  <2>3. Cardinality(puts') \in Nat
    BY <2>2, FS_CardinalityType
  <2>4. Cardinality(puts') <= Cardinality(puts)
    BY <2>1, <2>2, <2>3
  <2>5. /\ sync' = sync /\ syncFaults' = syncFaults /\ syncFaults \in Nat
        /\ Cardinality(puts) <= IF sync = "wait" THEN syncFaults + 1 ELSE syncFaults
    BY SyncNumbers
  <2>. QED BY <2>1, <2>2, <2>3, <2>4, <2>5 DEF PutsAreFew
<1>. QED BY <1>2, <1>3, <1>4

\* An answer that says that the content is stored.
LEMMA AnswerIsOk ==
  ASSUME SyncInv, NEW p \in puts, AnswersOk(p), Key(p) \in versions,
         UNCHANGED <<onDisk, objects, versions, syncFaults>>,
         latest' \in [SessionFiles -> 0 .. MaxContents]
  PROVE  SyncInv'
<1>1. puts' = puts \ {p} /\ attempt' = attempt /\ syncFiles' = syncFiles
  BY DEF AnswersOk, atMachine
<1>2. CASE p.waits
  <2>1. /\ sync' = "upload" /\ uploading' = {} /\ toUpload' = toUpload \ {Key(p)}
    BY <1>2 DEF AnswersOk
  <2>2. SyncTyped'
    BY <1>1, <2>1 DEF SyncInv, SyncTyped
  <2>3. UploadsAreLeft'
    BY <1>1, <2>1 DEF SyncInv, UploadsAreLeft
  <2>4. RestIsStored' /\ VersionsAreStored'
    BY <1>1, <1>2, <2>1 DEF SyncInv, RestIsStored, OneWaits, VersionsAreStored
  <2>5. OneWaits'
    BY <1>1, <1>2, <2>1 DEF SyncInv, OneWaits
  <2>6. PutsAreFew'
    <3>1. /\ IsFiniteSet(puts') /\ Cardinality(puts') = Cardinality(puts) - 1
          /\ Cardinality(puts) \in Nat
      BY <1>1, FS_RemoveElement, FS_CardinalityType DEF SyncInv, PutsAreFew
    <3>2. Cardinality(puts) <= syncFaults + 1 /\ syncFaults \in Nat
      BY SyncNumbers
    <3>. QED BY <2>1, <3>1, <3>2 DEF PutsAreFew
  <2>7. \A x \in puts' : PutIsSound(x)'
    BY <1>1 DEF SyncInv, PutIsSound, Key
  <2>. QED BY <2>2, <2>3, <2>4, <2>5, <2>6, <2>7 DEF SyncInv
<1>3. CASE ~ p.waits
  <2>1. sync' = sync /\ uploading' = uploading /\ toUpload' = toUpload
    BY <1>3 DEF AnswersOk, atMachine
  <2>2. SyncTyped'
    BY <1>1, <2>1 DEF SyncInv, SyncTyped
  <2>3. UploadsAreLeft' /\ RestIsStored' /\ VersionsAreStored' /\ OneWaits'
    BY <1>1, <2>1 DEF SyncInv, UploadsAreLeft, RestIsStored, OneWaits, VersionsAreStored, Key
  <2>4. PutsAreFew'
    <3>1. /\ IsFiniteSet(puts') /\ Cardinality(puts') = Cardinality(puts) - 1
          /\ Cardinality(puts) \in Nat
      BY <1>1, FS_RemoveElement, FS_CardinalityType DEF SyncInv, PutsAreFew
    <3>2. /\ syncFaults' = syncFaults /\ syncFaults \in Nat
          /\ Cardinality(puts) <= IF sync = "wait" THEN syncFaults + 1 ELSE syncFaults
      BY SyncNumbers
    <3>. QED BY <2>1, <3>1, <3>2 DEF PutsAreFew
  <2>5. \A x \in puts' : PutIsSound(x)'
    BY <1>1 DEF SyncInv, PutIsSound, Key
  <2>. QED BY <2>2, <2>3, <2>4, <2>5 DEF SyncInv
<1>. QED BY <1>2, <1>3

\* An attempt ends, with the requests that are left unheard.
LEMMA AttemptEnds ==
  ASSUME SyncInv, sync' \in {"discover", "delay", "gave up"}, syncFiles' = {}, toUpload' = {},
         uploading' = {}, attempt' \in 1 .. MaxAttempts, sync' = "delay" => attempt' < MaxAttempts,
         UNCHANGED <<onDisk, objects, versions, latest>>,
         syncFaults' \in 0 .. MaxSyncFaults,
         puts' \in SUBSET PutRecords, IsFiniteSet(puts'), Cardinality(puts') <= syncFaults',
         \A q \in puts' : ~ q.waits /\ PutIsSound(q)
  PROVE  SyncInv'
<1>1. SyncTyped'
  BY DEF SyncInv, SyncTyped
<1>2. UploadsAreLeft' /\ RestIsStored' /\ OneWaits'
  BY DEF UploadsAreLeft, RestIsStored, OneWaits
<1>3. PutsAreFew'
  BY DEF PutsAreFew
<1>4. (\A x \in puts' : PutIsSound(x)') /\ VersionsAreStored'
  BY DEF SyncInv, PutIsSound, Key, VersionsAreStored
<1>. QED BY <1>1, <1>2, <1>3, <1>4 DEF SyncInv

\* After an attempt that failed nothing is left to upload.
LEMMA AttemptFailed ==
  ASSUME SyncInv, AttemptFails
  PROVE  /\ sync' \in {"delay", "gave up"} /\ syncFiles' = {} /\ toUpload' = {}
         /\ uploading' = {} /\ attempt' \in 1 .. MaxAttempts
         /\ sync' = "delay" => attempt' < MaxAttempts
BY DEF AttemptFails, SyncInv, SyncTyped

\* An answer that is an error.
LEMMA AnswerIsError ==
  ASSUME SyncInv, NEW p \in puts, AnswersError(p),
         UNCHANGED <<onDisk, objects, versions, latest>>,
         syncFaults' \in 0 .. MaxSyncFaults, syncFaults <= syncFaults'
  PROVE  SyncInv'
<1>1. puts' = puts \ {p}
  BY DEF AnswersError
<1>2. /\ IsFiniteSet(puts') /\ Cardinality(puts') = Cardinality(puts) - 1
      /\ Cardinality(puts) \in Nat
  BY <1>1, FS_RemoveElement, FS_CardinalityType DEF SyncInv, PutsAreFew
<1>3. syncFaults \in Nat /\ syncFaults' \in Nat
  BY SyncNumbers
<1>4. CASE p.waits
  <2>1. /\ sync' \in {"delay", "gave up"} /\ syncFiles' = {} /\ toUpload' = {}
        /\ uploading' = {} /\ attempt' \in 1 .. MaxAttempts
        /\ sync' = "delay" => attempt' < MaxAttempts
    BY <1>4, AttemptFailed DEF AnswersError
  <2>2. puts' \in SUBSET PutRecords
    BY <1>1 DEF SyncInv, SyncTyped
  <2>3. Cardinality(puts) <= syncFaults + 1
    BY <1>3, <1>4 DEF SyncInv, OneWaits, PutsAreFew
  <2>4. Cardinality(puts') <= syncFaults'
    BY <1>2, <1>3, <2>3
  <2>5. \A q \in puts' : ~ q.waits /\ PutIsSound(q)
    BY <1>1, <1>4 DEF SyncInv, OneWaits
  <2>. QED BY <1>2, <2>1, <2>2, <2>4, <2>5, AttemptEnds
<1>5. CASE ~ p.waits
  <2>1. /\ sync' = sync /\ uploading' = uploading /\ toUpload' = toUpload /\ attempt' = attempt
        /\ syncFiles' = syncFiles
    BY <1>5 DEF AnswersError, atMachine
  <2>2. SyncTyped'
    BY <1>1, <2>1 DEF SyncInv, SyncTyped
  <2>3. UploadsAreLeft' /\ RestIsStored' /\ VersionsAreStored' /\ OneWaits'
    BY <1>1, <2>1 DEF SyncInv, UploadsAreLeft, RestIsStored, OneWaits, VersionsAreStored, Key
  <2>4. PutsAreFew'
    BY <1>2, <1>3, <2>1 DEF SyncInv, PutsAreFew
  <2>5. \A x \in puts' : PutIsSound(x)'
    BY <1>1 DEF SyncInv, PutIsSound, Key
  <2>. QED BY <2>2, <2>3, <2>4, <2>5 DEF SyncInv
<1>. QED BY <1>4, <1>5

\* A fault is counted.
LEMMA FaultCounted ==
  ASSUME SyncInv, SyncFault
  PROVE  /\ syncFaults' \in 0 .. MaxSyncFaults /\ syncFaults' = syncFaults + 1
         /\ syncFaults \in Nat
<1>1. syncFaults < MaxSyncFaults /\ syncFaults' = syncFaults + 1
  BY DEF SyncFault
<1>. QED BY <1>1, SyncNumbers

\* The steps of the machine.
LEMMA MachineSyncs ==
  ASSUME SyncInv, \/ Discover \/ NextAttempt \/ Plan \/ PlanFails \/ Put \/ AllUploaded
                  \/ PutBreaks \/ SyncRestarts \/ SyncCloudStops
  PROVE  SyncInv'
<1>0. /\ puts \in SUBSET PutRecords /\ IsFiniteSet(puts) /\ Cardinality(puts) \in Nat
      /\ Cardinality(puts) <= syncFaults + 1
      /\ sync # "wait" => Cardinality(puts) <= syncFaults
      /\ syncFaults \in Nat /\ MaxSyncFaults \in Nat /\ syncFaults <= MaxSyncFaults
  BY SyncNumbers DEF SyncInv, SyncTyped
<1>1. ASSUME sync # "wait", sync' # "wait", UNCHANGED <<onDisk, objects, versions, latest>>,
             UNCHANGED <<puts, syncFaults>>
      PROVE  /\ OneWaits' /\ PutsAreFew' /\ (\A x \in puts' : PutIsSound(x)')
             /\ VersionsAreStored'
  BY <1>1 DEF SyncInv, OneWaits, PutsAreFew, PutIsSound, Key, VersionsAreStored
<1>2. CASE Discover
  <2>1. PICK stable \in SUBSET SessionFiles :
          /\ syncFiles' = {<<f, onDisk[f]>> : f \in stable}
          /\ sync' = IF stable = {} THEN "synced" ELSE "plan"
    BY <1>2 DEF Discover
  <2>2. /\ sync = "discover"
        /\ UNCHANGED <<onDisk, attempt, toUpload, uploading, puts, objects, versions, latest,
                       syncFaults>>
    BY <1>2 DEF Discover, atCloud
  <2>3. syncFiles' \in SUBSET Uploadable
    BY ZenonT(60), <2>1 DEF SyncInv, SyncTyped, Uploadable
  <2>4. SyncTyped'
    BY <2>1, <2>2, <2>3 DEF SyncInv, SyncTyped
  <2>5. UploadsAreLeft' /\ RestIsStored'
    BY <2>1, <2>2 DEF SyncInv, UploadsAreLeft, RestIsStored
  <2>. QED BY <1>1, <2>1, <2>2, <2>4, <2>5 DEF SyncInv
<1>3. CASE NextAttempt
  <2>1. /\ sync = "delay" /\ sync' = "discover" /\ attempt' = attempt + 1
        /\ UNCHANGED <<onDisk, syncFiles, toUpload, uploading, puts, objects, versions, latest,
                       syncFaults>>
    BY <1>3 DEF NextAttempt, atCloud
  <2>2. attempt' \in 1 .. MaxAttempts
    BY <2>1, SyncAssumption DEF SyncInv, SyncTyped, UploadsAreLeft
  <2>3. SyncTyped'
    BY <2>1, <2>2 DEF SyncInv, SyncTyped
  <2>4. UploadsAreLeft' /\ RestIsStored'
    BY <2>1 DEF SyncInv, UploadsAreLeft, RestIsStored
  <2>. QED BY <1>1, <2>1, <2>3, <2>4 DEF SyncInv
<1>4. CASE Plan
  <2>1. /\ sync = "plan" /\ sync' = "upload" /\ toUpload' = syncFiles \ versions
        /\ UNCHANGED <<onDisk, attempt, syncFiles, uploading, puts, objects, versions, latest,
                       syncFaults>>
    BY <1>4 DEF Plan, atCloud
  <2>2. SyncTyped'
    BY <2>1 DEF SyncInv, SyncTyped
  <2>3. UploadsAreLeft' /\ RestIsStored'
    BY <2>1 DEF SyncInv, UploadsAreLeft, RestIsStored
  <2>. QED BY <1>1, <2>1, <2>2, <2>3 DEF SyncInv
<1>5. CASE PlanFails
  <2>1. /\ sync # "wait" /\ UNCHANGED <<onDisk, puts, objects, versions, latest>>
        /\ AttemptFails /\ SyncFault
    BY <1>5 DEF PlanFails, atCloud
  <2>2. \A q \in puts' : ~ q.waits /\ PutIsSound(q)
    BY <2>1 DEF SyncInv, OneWaits
  <2>3. Cardinality(puts') <= syncFaults'
    BY <1>0, <2>1, FaultCounted
  <2>. QED BY <1>0, <2>1, <2>2, <2>3, AttemptFailed, FaultCounted, AttemptEnds
<1>6. CASE Put
  <2>1. PICK u \in toUpload :
          /\ uploading' = {u}
          /\ puts' = puts \cup {[id |-> Unused, waits |-> TRUE, file |-> u[1],
                                 sha |-> u[2], at |-> "body", body |-> 0, seen |-> 0]}
    BY <1>6 DEF Put
  <2>2. /\ sync = "upload" /\ sync' = "wait"
        /\ UNCHANGED <<onDisk, attempt, syncFiles, toUpload, objects, versions, latest, syncFaults>>
    BY <1>6 DEF Put
  <2>3. PICK q : q = [id |-> Unused, waits |-> TRUE, file |-> u[1],
                      sha |-> u[2], at |-> "body", body |-> 0, seen |-> 0]
    OBVIOUS
  <2>4. puts' = puts \cup {q}
    BY <2>1, <2>3
  <2>5. Unused \in 0 .. MaxSyncFaults
    BY <1>0, <2>2, UnusedIsThere
  <2>6. u \in Uploadable /\ u = <<u[1], u[2]>> /\ u[1] \in SessionFiles /\ u[2] \in Contents
    <3>1. u \in Uploadable
      BY DEF SyncInv, SyncTyped
    <3>. QED BY <3>1 DEF Uploadable
  <2>7. q \in PutRecords /\ Key(q) = u /\ q.at = "body"
    BY <2>3, <2>5, <2>6, SyncAssumption DEF PutRecords, Key
  <2>8. SyncTyped'
    BY <2>2, <2>4, <2>7 DEF SyncInv, SyncTyped
  <2>9. UploadsAreLeft' /\ RestIsStored'
    BY <2>1, <2>2 DEF SyncInv, UploadsAreLeft, RestIsStored
  <2>10. OneWaits'
    BY <2>1, <2>2, <2>4, <2>7 DEF SyncInv, OneWaits, Key
  <2>11. PutsAreFew'
    <3>1. IsFiniteSet(puts') /\ Cardinality(puts') <= Cardinality(puts) + 1
      BY <1>0, <2>4, FS_AddElement
    <3>2. Cardinality(puts') \in Nat
      BY <3>1, FS_CardinalityType
    <3>. QED BY <1>0, <2>2, <3>1, <3>2 DEF PutsAreFew
  <2>12. (\A x \in puts' : PutIsSound(x)') /\ VersionsAreStored'
    BY <2>2, <2>4, <2>7 DEF SyncInv, PutIsSound, Key, VersionsAreStored
  <2>. QED BY <2>8, <2>9, <2>10, <2>11, <2>12 DEF SyncInv
<1>7. CASE AllUploaded
  <2>1. /\ sync = "upload" /\ toUpload = {} /\ sync' = "synced"
        /\ UNCHANGED <<onDisk, attempt, syncFiles, toUpload, uploading, puts, objects, versions,
                       latest, syncFaults>>
    BY <1>7 DEF AllUploaded, atCloud
  <2>2. SyncTyped'
    BY <2>1 DEF SyncInv, SyncTyped
  <2>3. UploadsAreLeft' /\ RestIsStored'
    BY <2>1 DEF SyncInv, UploadsAreLeft, RestIsStored
  <2>. QED BY <1>1, <2>1, <2>2, <2>3 DEF SyncInv
<1>8. ASSUME puts' = Unheard, SyncFault
      PROVE  /\ puts' \in SUBSET PutRecords /\ IsFiniteSet(puts')
             /\ Cardinality(puts') <= syncFaults'
             /\ \A q \in puts' : ~ q.waits /\ PutIsSound(q)
  <2>1. /\ puts' \in SUBSET PutRecords /\ IsFiniteSet(puts')
        /\ Cardinality(puts') <= Cardinality(puts)
        /\ \A q \in puts' : ~ q.waits /\ PutIsSound(q)
    BY <1>0, <1>8, UnheardAreFewer DEF SyncInv
  <2>2. Cardinality(puts') \in Nat
    BY <2>1, FS_CardinalityType
  <2>. QED BY <1>0, <1>8, <2>1, <2>2, FaultCounted
<1>9. CASE PutBreaks
  <2>1. /\ SyncFault /\ AttemptFails /\ puts' = Unheard
        /\ UNCHANGED <<onDisk, objects, versions, latest>>
    BY <1>9 DEF PutBreaks
  <2>. QED BY <1>8, <2>1, AttemptFailed, FaultCounted, AttemptEnds
<1>10. CASE SyncRestarts
  <2>1. /\ SyncFault /\ sync' = "discover" /\ attempt' = 1 /\ syncFiles' = {} /\ toUpload' = {}
        /\ uploading' = {} /\ puts' = Unheard
        /\ UNCHANGED <<onDisk, objects, versions, latest>>
    BY <1>10 DEF SyncRestarts
  <2>2. attempt' \in 1 .. MaxAttempts
    BY <2>1, SyncAssumption
  <2>. QED BY <1>8, <2>1, <2>2, FaultCounted, AttemptEnds
<1>11. CASE SyncCloudStops
  <2>1. /\ SyncFault /\ puts' = {} /\ UNCHANGED <<onDisk, objects, versions, latest>>
    BY <1>11 DEF SyncCloudStops
  <2>2. /\ IsFiniteSet(puts') /\ Cardinality(puts') = 0
    BY <2>1, FS_EmptySet
  <2>3. syncFaults' \in Nat /\ syncFaults' \in 0 .. MaxSyncFaults
    BY <2>1, FaultCounted
  <2>4. CASE sync = "wait"
    <3>1. AttemptFails
      BY <1>11, <2>4 DEF SyncCloudStops
    <3>2. /\ sync' \in {"discover", "delay", "gave up"} /\ syncFiles' = {} /\ toUpload' = {}
          /\ uploading' = {} /\ attempt' \in 1 .. MaxAttempts
          /\ sync' = "delay" => attempt' < MaxAttempts
      BY <3>1, AttemptFailed
    <3>3. /\ puts' \in SUBSET PutRecords /\ \A q \in puts' : ~ q.waits /\ PutIsSound(q)
      BY <2>1
    <3>4. Cardinality(puts') <= syncFaults'
      BY <2>2, <2>3
    <3>. QED BY <2>1, <2>2, <2>3, <3>2, <3>3, <3>4, AttemptEnds
  <2>5. CASE sync # "wait"
    <3>1. UNCHANGED <<sync, attempt, syncFiles, toUpload, uploading>>
      BY <1>11, <2>5 DEF SyncCloudStops, atMachine
    <3>2. SyncTyped'
      BY <2>1, <2>3, <3>1 DEF SyncInv, SyncTyped
    <3>3. UploadsAreLeft' /\ RestIsStored' /\ OneWaits' /\ VersionsAreStored'
      BY <2>1, <2>5, <3>1
         DEF SyncInv, UploadsAreLeft, RestIsStored, OneWaits, VersionsAreStored
    <3>4. PutsAreFew'
      BY <2>2, <2>3, <2>5, <3>1 DEF PutsAreFew
    <3>. QED BY <2>1, <3>2, <3>3, <3>4 DEF SyncInv
  <2>. QED BY <2>4, <2>5
<1>. QED BY <1>2, <1>3, <1>4, <1>5, <1>6, <1>7, <1>9, <1>10, <1>11

\* A step of a request that changes nothing for the machine.
LEMMA PutGoesOn ==
  ASSUME SyncInv, NEW p \in puts, NEW q \in PutRecords, Moves(p, q),
         q.waits = p.waits, q.file = p.file, q.sha = p.sha, PutIsSound(q)',
         \A x \in puts : PutIsSound(x)',
         UNCHANGED <<onDisk, atMachine, latest, syncFaults>>,
         objects' \in [Uploadable -> 0 .. MaxContents], versions' \in SUBSET Uploadable,
         versions \subseteq versions', VersionsAreStored'
  PROVE  SyncInv'
<1>1. UNCHANGED <<onDisk, sync, attempt, syncFiles, toUpload, uploading, latest, syncFaults>>
  BY DEF atMachine
<1>2. /\ puts' \in SUBSET PutRecords /\ OneWaits' /\ PutsAreFew'
      /\ \A x \in puts' : PutIsSound(x)'
  BY <1>1, PutMoves
<1>3. SyncTyped'
  BY <1>1, <1>2 DEF SyncInv, SyncTyped
<1>4. UploadsAreLeft' /\ RestIsStored'
  BY <1>1 DEF SyncInv, UploadsAreLeft, RestIsStored
<1>. QED BY <1>2, <1>3, <1>4 DEF SyncInv

\* The steps of the cloud.
LEMMA CloudSyncs ==
  ASSUME SyncInv, NEW p \in puts,
         \/ BodyArrives(p) \/ ChecksBody(p) \/ PutsObject(p) \/ UpsertsThread(p)
         \/ InsertsVersion(p) \/ UpdatesLatest(p) \/ PutFails(p)
  PROVE  SyncInv'
<1>1. /\ p \in PutRecords /\ p.file \in SessionFiles /\ p.sha \in Contents /\ Key(p) \in Uploadable
      /\ Key(p)[2] = p.sha /\ PutIsSound(p) /\ MaxContents \in Nat
  BY SyncAssumption DEF SyncInv, SyncTyped, PutRecords, Key, Uploadable
<1>2. ASSUME UNCHANGED <<objects, versions>>
      PROVE  (\A x \in puts : PutIsSound(x)') /\ VersionsAreStored'
             /\ objects' \in [Uploadable -> 0 .. MaxContents] /\ versions' \in SUBSET Uploadable
  BY <1>2 DEF SyncInv, SyncTyped, PutIsSound, Key, VersionsAreStored
<1>3. CASE BodyArrives(p)
  <2>1. PICK q : q = [p EXCEPT !.at = "check", !.body = onDisk[p.file]]
    OBVIOUS
  <2>2. onDisk[p.file] \in 0 .. MaxContents
    <3>1. onDisk[p.file] \in 1 .. MaxContents
      BY <1>1 DEF SyncInv, SyncTyped, Contents
    <3>. QED BY <1>1, <3>1
  <2>3. q \in PutRecords /\ q.waits = p.waits /\ q.file = p.file /\ q.sha = p.sha /\ q.at = "check"
    BY <1>1, <2>1, <2>2 DEF PutRecords
  <2>4. PutIsSound(q)'
    BY <2>3 DEF PutIsSound
  <2>5. Moves(p, q) /\ UNCHANGED <<onDisk, atMachine, objects, versions, latest, syncFaults>>
    BY <1>3, <2>1 DEF BodyArrives
  <2>. QED BY <1>2, <2>3, <2>4, <2>5, PutGoesOn
<1>4. CASE ChecksBody(p)
  <2>1. /\ p.at = "check" /\ UNCHANGED <<onDisk, objects, versions, latest, syncFaults>>
    BY <1>4 DEF ChecksBody
  <2>2. CASE p.body # p.sha
    <3>1. AnswersError(p)
      BY <1>4, <2>2 DEF ChecksBody
    <3>2. syncFaults' \in 0 .. MaxSyncFaults /\ syncFaults <= syncFaults'
      BY <2>1, SyncNumbers
    <3>. QED BY <2>1, <3>1, <3>2, AnswerIsError
  <2>3. CASE p.body = p.sha /\ Key(p) \in versions
    <3>1. AnswersOk(p)
      BY <1>4, <2>3 DEF ChecksBody
    <3>2. latest' \in [SessionFiles -> 0 .. MaxContents]
      BY <2>1 DEF SyncInv, SyncTyped
    <3>. QED BY <2>1, <2>3, <3>1, <3>2, AnswerIsOk
  <2>4. CASE p.body = p.sha /\ Key(p) \notin versions
    <3>1. PICK q : q = [p EXCEPT !.at = "object"]
      OBVIOUS
    <3>2. Moves(p, q) /\ UNCHANGED atMachine
      BY <1>4, <2>4, <3>1 DEF ChecksBody
    <3>3. /\ q \in PutRecords /\ q.waits = p.waits /\ q.file = p.file /\ q.sha = p.sha
          /\ q.at = "object" /\ q.body = p.sha
      BY <1>1, <2>4, <3>1 DEF PutRecords
    <3>4. PutIsSound(q)'
      BY <3>3 DEF PutIsSound
    <3>. QED BY <1>2, <2>1, <3>2, <3>3, <3>4, PutGoesOn
  <2>. QED BY <2>2, <2>3, <2>4
<1>5. CASE PutsObject(p)
  <2>1. PICK q : q = [p EXCEPT !.at = "thread"]
    OBVIOUS
  <2>2. /\ p.at = "object" /\ objects' = [objects EXCEPT ![Key(p)] = p.body] /\ Moves(p, q)
        /\ UNCHANGED <<onDisk, atMachine, versions, latest, syncFaults>>
    BY <1>5, <2>1 DEF PutsObject
  <2>3. p.body = p.sha /\ p.body \in 0 .. MaxContents
    BY <1>1, <2>2 DEF PutIsSound, PutRecords
  <2>4. /\ objects' \in [Uploadable -> 0 .. MaxContents]
        /\ objects'[Key(p)] = p.sha
        /\ \A u \in Uploadable : objects'[u] = objects[u] \/ objects'[u] = u[2]
    BY <1>1, <2>2, <2>3 DEF SyncInv, SyncTyped
  <2>5. /\ q \in PutRecords /\ q.waits = p.waits /\ q.file = p.file /\ q.sha = p.sha
        /\ q.at = "thread" /\ q.body = p.sha
    BY <1>1, <2>1, <2>3 DEF PutRecords
  <2>6. PutIsSound(q)'
    BY <2>4, <2>5 DEF PutIsSound, Key
  <2>7. ASSUME NEW x \in puts PROVE PutIsSound(x)'
    <3>1. PutIsSound(x) /\ Key(x) \in Uploadable /\ Key(x)[2] = x.sha
      BY DEF SyncInv, SyncTyped, PutRecords, Key, Uploadable
    <3>2. objects'[Key(x)] = objects[Key(x)] \/ objects'[Key(x)] = x.sha
      BY <2>4, <3>1
    <3>. QED BY <2>2, <3>1, <3>2 DEF PutIsSound, Key
  <2>8. VersionsAreStored' /\ versions' \in SUBSET Uploadable
    BY <2>2, <2>4 DEF SyncInv, SyncTyped, VersionsAreStored
  <2>. QED BY <2>2, <2>4, <2>5, <2>6, <2>7, <2>8, PutGoesOn
<1>6. CASE UpsertsThread(p)
  <2>1. PICK q : q = [p EXCEPT !.at = "version", !.seen = latest[p.file]]
    OBVIOUS
  <2>2. /\ p.at = "thread" /\ Moves(p, q)
        /\ UNCHANGED <<onDisk, atMachine, objects, versions, latest, syncFaults>>
    BY <1>6, <2>1 DEF UpsertsThread
  <2>3. latest[p.file] \in 0 .. MaxContents
    BY <1>1 DEF SyncInv, SyncTyped
  <2>4. /\ q \in PutRecords /\ q.waits = p.waits /\ q.file = p.file /\ q.sha = p.sha
        /\ q.at = "version" /\ q.body = p.body
    BY <1>1, <2>1, <2>3 DEF PutRecords
  <2>5. PutIsSound(q)'
    BY <1>1, <2>2, <2>4 DEF PutIsSound, Key
  <2>. QED BY <1>2, <2>2, <2>4, <2>5, PutGoesOn
<1>7. CASE InsertsVersion(p)
  <2>1. PICK q : q = [p EXCEPT !.at = "latest"]
    OBVIOUS
  <2>2. /\ p.at = "version" /\ versions' = versions \cup {Key(p)} /\ Moves(p, q)
        /\ UNCHANGED <<onDisk, atMachine, objects, latest, syncFaults>>
    BY <1>7, <2>1 DEF InsertsVersion
  <2>3. /\ q \in PutRecords /\ q.waits = p.waits /\ q.file = p.file /\ q.sha = p.sha
        /\ q.at = "latest" /\ q.body = p.body
    BY <1>1, <2>1 DEF PutRecords
  <2>4. PutIsSound(q)'
    BY <1>1, <2>2, <2>3 DEF PutIsSound, Key
  <2>5. \A x \in puts : PutIsSound(x)'
    BY <2>2 DEF SyncInv, PutIsSound, Key
  <2>6. VersionsAreStored'
    BY <1>1, <2>2 DEF SyncInv, VersionsAreStored, PutIsSound
  <2>7. objects' \in [Uploadable -> 0 .. MaxContents] /\ versions' \in SUBSET Uploadable
    BY <1>1, <2>2 DEF SyncInv, SyncTyped
  <2>. QED BY <2>2, <2>3, <2>4, <2>5, <2>6, <2>7, PutGoesOn
<1>8. CASE UpdatesLatest(p)
  <2>1. /\ p.at = "latest" /\ AnswersOk(p)
        /\ latest' = [latest EXCEPT ![p.file] = IF p.sha >= p.seen THEN p.sha ELSE @]
        /\ UNCHANGED <<onDisk, objects, versions, syncFaults>>
    BY <1>8 DEF UpdatesLatest
  <2>2. p.sha \in 0 .. MaxContents
    BY <1>1 DEF Contents
  <2>3. latest' \in [SessionFiles -> 0 .. MaxContents]
    BY <1>1, <2>1, <2>2 DEF SyncInv, SyncTyped
  <2>4. Key(p) \in versions
    BY <1>1, <2>1 DEF PutIsSound
  <2>. QED BY <2>1, <2>3, <2>4, AnswerIsOk
<1>9. CASE PutFails(p)
  <2>1. /\ SyncFault /\ AnswersError(p) /\ UNCHANGED <<onDisk, objects, versions, latest>>
    BY <1>9 DEF PutFails
  <2>2. syncFaults' \in 0 .. MaxSyncFaults /\ syncFaults <= syncFaults'
    BY <2>1, FaultCounted
  <2>. QED BY <2>1, <2>2, AnswerIsError
<1>. QED BY <1>3, <1>4, <1>5, <1>6, <1>7, <1>8, <1>9

\* Every step of the machine and of the cloud keeps the invariant.
LEMMA SyncNextStep == SyncInv /\ [SyncNext]_syncVars => SyncInv'
<1>1. SUFFICES ASSUME SyncInv, [SyncNext]_syncVars PROVE SyncInv'
  OBVIOUS
<1>2. ASSUME UNCHANGED <<atMachine, atCloud, syncFaults>>, onDisk' \in [SessionFiles -> Contents]
      PROVE  SyncInv'
  <2>1. UNCHANGED <<sync, attempt, syncFiles, toUpload, uploading, puts, objects, versions, latest,
                    syncFaults>>
    BY <1>2 DEF atMachine, atCloud
  <2>2. SyncTyped'
    BY <1>1, <1>2, <2>1 DEF SyncInv, SyncTyped
  <2>3. UploadsAreLeft' /\ RestIsStored' /\ OneWaits' /\ PutsAreFew' /\ VersionsAreStored'
    BY <1>1, <2>1 DEF SyncInv, UploadsAreLeft, RestIsStored, OneWaits, PutsAreFew, Key,
                      VersionsAreStored
  <2>4. \A x \in puts' : PutIsSound(x)'
    BY <1>1, <2>1 DEF SyncInv, PutIsSound, Key
  <2>. QED BY <2>2, <2>3, <2>4 DEF SyncInv
<1>3. CASE UNCHANGED syncVars
  BY <1>1, <1>2, <1>3 DEF syncVars, SyncInv, SyncTyped
<1>4. ASSUME NEW f \in SessionFiles, FileChanges(f) PROVE SyncInv'
  <2>1. onDisk[f] \in 1 .. MaxContents /\ MaxContents \in Nat
    BY <1>1, SyncAssumption DEF SyncInv, SyncTyped, Contents
  <2>2. onDisk[f] + 1 \in Contents
    BY <1>4, <2>1 DEF FileChanges, Contents
  <2>3. onDisk' \in [SessionFiles -> Contents]
    BY <1>1, <1>4, <2>2 DEF FileChanges, SyncInv, SyncTyped
  <2>. QED BY <1>2, <1>4, <2>3 DEF FileChanges
<1>5. ASSUME \/ Discover \/ NextAttempt \/ Plan \/ PlanFails \/ Put \/ AllUploaded
             \/ PutBreaks \/ SyncRestarts \/ SyncCloudStops
      PROVE  SyncInv'
  BY <1>1, <1>5, MachineSyncs
<1>6. ASSUME NEW p \in puts, \/ BodyArrives(p) \/ ChecksBody(p) \/ PutsObject(p)
                             \/ UpsertsThread(p) \/ InsertsVersion(p) \/ UpdatesLatest(p)
                             \/ PutFails(p)
      PROVE  SyncInv'
  BY <1>1, <1>6, CloudSyncs
<1>. QED BY <1>1, <1>3, <1>4, <1>5, <1>6 DEF SyncNext

\* The sync by itself.
LEMMA SyncHolds == SyncSpec => []SyncInv
BY SyncInitially, SyncNextStep, PTL DEF SyncSpec

-----------------------------------------------------------------------------
(***************************************************************************)
(* ControlPlane.                                                           *)
(***************************************************************************)
Statuses == {"none", "creating", "starting", "online", "sleeping", "failed", "deleted"}
Rows == [status : Statuses, known : BOOLEAN]
RequestRecords ==
  [kind : Kinds \cup {"none", "register", "heartbeat"},
   step : {"idle", "call", "activate", "write", "abandon"},
   seen : Rows, crossed : BOOLEAN]

\* The types, each variable's by itself.
ControlTyped ==
  /\ computer \in Rows
  /\ instance \in {"none", "running", "stopping", "stopped", "terminated"}
  /\ identity \in {"none", "bootstrap", "active", "revoked"}
  /\ machineToken \in {"bootstrap", "machine"}
  /\ creation \in {"idle", "identity", "provision", "save", "fail", "over"}
  /\ control \in [Callers -> RequestRecords] /\ report \in RequestRecords
  /\ doubt \in BOOLEAN /\ missed \in BOOLEAN

\* Until the creation is over, nothing can have been told to the instance, nor a row be deleted
\* that has its id.
CreationIsFirst ==
  /\ creation = "idle" <=> computer.status = "none"
  /\ creation \in {"idle", "identity", "provision"} => instance = "none"
  /\ creation # "over" =>
       /\ ~ computer.known /\ computer.status # "sleeping" /\ instance \in {"none", "running"}
       /\ computer.status = "deleted" => missed
  /\ creation = "save" \/ computer.known => instance # "none"

\* A request knows of the instance when its creation is over; and what it told the provider
\* and did not write down yet is still so, unless the opposite was told since.
RequestIsSound(r) ==
  /\ r.seen.known \/ r.seen.status = "sleeping" => creation = "over"
  /\ r.seen.known => instance # "none"
  /\ r.step = "write" /\ r.kind \in {"start", "restart", "stop"} => r.seen.known
  /\ r.step = "write" /\ r.kind \in {"start", "restart"} /\ ~ r.crossed => instance = "running"
  /\ r.step = "write" /\ r.kind = "stop" /\ ~ r.crossed =>
       instance \in {"stopping", "stopped", "terminated"}
  /\ r.step = "write" /\ r.kind \in Deletions /\ r.seen.known => instance = "terminated"

RequestsAreTrue ==
  /\ \A c \in Callers : /\ RequestIsSound(control[c])
                        /\ control[c].step # "idle" => control[c].kind \in Kinds
  /\ RequestIsSound(report) /\ (report.step # "idle" => instance # "none")
  /\ report.kind \in {"none", "register", "heartbeat", "stop"}
  /\ report.step = "activate" => report.kind = "register"

\* A row that does not sleep means an instance that runs, or that is not there yet.
AwakeIsRunning ==
  computer.status \in {"creating", "starting", "online", "failed"} =>
    doubt \/ Unwritten(Halting) \/ instance \in {"none", "running"}

\* A machine that does not exist yet has neither come online nor been started.
NoneIsNew == computer.status \in {"starting", "online"} => instance # "none"

ControlInv ==
  /\ ControlTyped /\ CreationIsFirst /\ RequestsAreTrue /\ AwakeIsRunning /\ NoneIsNew
  /\ SleepingIsStopped /\ NoneIsLost

\* There is no computer yet.
LEMMA ControlInitially == ControlInit => ControlInv
<1>1. SUFFICES ASSUME ControlInit PROVE ControlInv
  OBVIOUS
<1>2. IdleRequest \in RequestRecords /\ RequestIsSound(IdleRequest)
  BY DEF IdleRequest, RequestRecords, Rows, Statuses, RequestIsSound
<1>3. control \in [Callers -> RequestRecords] /\ \A c \in Callers : control[c] = IdleRequest
  BY <1>1, <1>2 DEF ControlInit
<1>4. ControlTyped
  BY <1>1, <1>2, <1>3 DEF ControlInit, ControlTyped, Rows, Statuses
<1>5. RequestsAreTrue
  BY <1>1, <1>2, <1>3 DEF ControlInit, RequestsAreTrue, IdleRequest
<1>6. CreationIsFirst /\ AwakeIsRunning /\ NoneIsNew /\ SleepingIsStopped /\ NoneIsLost
  BY <1>1 DEF ControlInit, CreationIsFirst, AwakeIsRunning, NoneIsNew, SleepingIsStopped,
              NoneIsLost
<1>. QED BY <1>4, <1>5, <1>6 DEF ControlInv

\* The types and what a row says of its instance follow from the inductive invariant.
LEMMA ControlFollows == ControlInv => ControlTypeOK /\ RowsTellInstances
<1>1. SUFFICES ASSUME ControlInv PROVE ControlTypeOK /\ RowsTellInstances
  OBVIOUS
<1>2. \A r \in {control[c] : c \in Callers} \cup {report} : r \in RequestRecords
  BY <1>1 DEF ControlInv, ControlTyped
<1>3. ControlTypeOK
  BY <1>1, <1>2 DEF ControlInv, ControlTyped, ControlTypeOK, Rows, Statuses, RequestRecords
<1>4. OnlineIsRunning
  BY <1>1 DEF ControlInv, AwakeIsRunning, NoneIsNew, OnlineIsRunning
<1>. QED BY <1>1, <1>3, <1>4 DEF ControlInv, RowsTellInstances

\* The steps of the creation, and of the instance by itself: no request is touched.
LEMMA CreationSteps ==
  ASSUME ControlInv,
         \/ PostComputer \/ CreateIdentity \/ ProvisionComputer \/ SaveMetadata \/ FailCreation
         \/ CreationBreaks \/ InstanceStops \/ RevokeIdentity
  PROVE  ControlInv'
<1>1. UNCHANGED <<control, report, doubt, missed, machineToken>>
  BY DEF PostComputer, CreateIdentity, ProvisionComputer, SaveMetadata, FailCreation,
         CreationBreaks, InstanceStops, RevokeIdentity
<1>2. \A kinds : Unwritten(kinds)' <=> Unwritten(kinds)
  BY <1>1 DEF Unwritten
<1>3. /\ computer \in Rows /\ computer.status \in Statuses /\ computer.known \in BOOLEAN
      /\ ControlTyped /\ CreationIsFirst
  BY DEF ControlInv, ControlTyped, Rows
<1>4. ASSUME creation = "over" => creation' = "over",
             \/ instance' = instance
             \/ creation # "over" /\ instance' # "none"
             \/ instance = "stopping" /\ instance' = "stopped"
      PROVE  RequestsAreTrue'
  <2>1. ASSUME NEW r, RequestIsSound(r) PROVE RequestIsSound(r)'
    BY <1>4, <2>1 DEF RequestIsSound
  <2>. QED BY <1>1, <1>4, <2>1 DEF ControlInv, RequestsAreTrue
<1>5. ASSUME computer' \in Rows, instance' \in {"none", "running", "stopping", "stopped"},
             identity' \in {"none", "bootstrap", "active", "revoked"},
             creation' \in {"idle", "identity", "provision", "save", "fail", "over"}
      PROVE  ControlTyped'
  BY <1>1, <1>3, <1>5 DEF ControlTyped
<1>6. CASE PostComputer
  <2>1. /\ creation = "idle" /\ creation' = "identity"
        /\ computer' = [status |-> "creating", known |-> FALSE]
        /\ instance' = instance /\ identity' = identity
    BY <1>6 DEF PostComputer
  <2>2. instance = "none"
    BY <1>3, <2>1 DEF CreationIsFirst
  <2>3. ControlTyped'
    BY <1>1, <1>3, <2>1, <2>2 DEF ControlTyped, Rows, Statuses
  <2>4. CreationIsFirst' /\ RequestsAreTrue'
    BY <1>4, <2>1, <2>2 DEF CreationIsFirst
  <2>5. AwakeIsRunning' /\ NoneIsNew' /\ SleepingIsStopped' /\ NoneIsLost'
    BY <2>1, <2>2 DEF AwakeIsRunning, NoneIsNew, SleepingIsStopped, NoneIsLost
  <2>. QED BY <2>3, <2>4, <2>5 DEF ControlInv
<1>7. CASE CreateIdentity
  <2>1. /\ creation = "identity" /\ creation' \in {"provision", "over"}
        /\ computer' = computer /\ instance' = instance
        /\ identity' \in {"none", "bootstrap"}
    BY <1>7 DEF CreateIdentity
  <2>2. ControlTyped'
    BY <1>1, <1>3, <2>1 DEF ControlTyped
  <2>3. CreationIsFirst' /\ RequestsAreTrue'
    BY <1>1, <1>3, <1>4, <2>1 DEF CreationIsFirst
  <2>4. AwakeIsRunning' /\ NoneIsNew' /\ SleepingIsStopped' /\ NoneIsLost'
    BY <1>1, <1>2, <2>1
       DEF ControlInv, AwakeIsRunning, NoneIsNew, SleepingIsStopped, NoneIsLost
  <2>. QED BY <2>2, <2>3, <2>4 DEF ControlInv
<1>8. CASE ProvisionComputer
  <2>1. /\ creation = "provision" /\ computer' = computer /\ identity' = identity
        /\ \/ instance' = "running" /\ creation' = "save"
           \/ creation' = "fail" /\ instance' \in {instance, "running"}
    BY <1>8 DEF ProvisionComputer
  <2>2. /\ computer.status # "sleeping" /\ (computer.status = "deleted" => missed)
        /\ computer.status # "none" /\ instance = "none" /\ ~ computer.known
    BY <1>3, <2>1 DEF CreationIsFirst
  <2>3. ControlTyped'
    BY <1>1, <1>3, <2>1 DEF ControlTyped
  <2>4. CreationIsFirst' /\ RequestsAreTrue'
    BY <1>1, <1>4, <2>1, <2>2 DEF CreationIsFirst
  <2>5. AwakeIsRunning' /\ NoneIsNew' /\ SleepingIsStopped' /\ NoneIsLost'
    BY <1>1, <2>1, <2>2
       DEF ControlInv, AwakeIsRunning, NoneIsNew, SleepingIsStopped, NoneIsLost
  <2>. QED BY <2>3, <2>4, <2>5 DEF ControlInv
<1>9. CASE SaveMetadata
  <2>1. /\ creation = "save" /\ creation' = "over" /\ instance' = instance
        /\ identity' = identity
        /\ computer' = IF RowExists THEN [computer EXCEPT !.known = TRUE] ELSE computer
    BY <1>9 DEF SaveMetadata
  <2>2. computer' \in Rows /\ computer'.status = computer.status
    BY <1>3, <2>1 DEF Rows
  <2>3. instance # "none" /\ computer.status # "none"
    BY <1>3, <2>1 DEF CreationIsFirst
  <2>4. ControlTyped'
    BY <1>1, <1>3, <2>1, <2>2 DEF ControlTyped
  <2>5. CreationIsFirst' /\ RequestsAreTrue'
    BY <1>4, <2>1, <2>2, <2>3 DEF CreationIsFirst
  <2>6. AwakeIsRunning' /\ NoneIsNew' /\ SleepingIsStopped' /\ NoneIsLost'
    BY <1>1, <1>2, <2>1, <2>2
       DEF ControlInv, AwakeIsRunning, NoneIsNew, SleepingIsStopped, NoneIsLost
  <2>. QED BY <2>4, <2>5, <2>6 DEF ControlInv
<1>10. CASE FailCreation
  <2>1. /\ creation = "fail" /\ creation' = "over" /\ instance' = instance
        /\ identity' = identity
        /\ computer' = IF RowExists THEN [computer EXCEPT !.status = "failed"] ELSE computer
    BY <1>10 DEF FailCreation, WriteStatus
  <2>2. /\ computer' \in Rows /\ computer'.known = computer.known
        /\ computer'.status \in {computer.status, "failed"}
        /\ computer'.status = "failed" => computer.status \notin {"none", "deleted"}
                                         \/ computer.status = "failed"
    BY <1>3, <2>1 DEF Rows, Statuses, RowExists
  <2>3. /\ computer.status # "none" /\ instance \in {"none", "running"} /\ ~ computer.known
    BY <1>3, <2>1 DEF CreationIsFirst
  <2>4. ControlTyped'
    BY <1>1, <1>3, <2>1, <2>2 DEF ControlTyped
  <2>5. CreationIsFirst' /\ RequestsAreTrue'
    BY <1>4, <2>1, <2>2, <2>3 DEF CreationIsFirst
  <2>6. AwakeIsRunning' /\ NoneIsNew' /\ SleepingIsStopped' /\ NoneIsLost'
    BY <1>1, <1>2, <2>1, <2>2, <2>3
       DEF ControlInv, AwakeIsRunning, NoneIsNew, SleepingIsStopped, NoneIsLost
  <2>. QED BY <2>4, <2>5, <2>6 DEF ControlInv
<1>11. CASE CreationBreaks
  <2>1. /\ creation \in {"identity", "provision", "save", "fail"}
        /\ \/ creation' = "over"
           \/ creation = "save" /\ creation' = "fail"
        /\ computer' = computer /\ instance' = instance /\ identity' = identity
    BY <1>11 DEF CreationBreaks
  <2>2. ControlTyped'
    BY <1>1, <1>3, <2>1 DEF ControlTyped
  <2>3. CreationIsFirst' /\ RequestsAreTrue'
    BY <1>1, <1>3, <1>4, <2>1 DEF CreationIsFirst
  <2>4. AwakeIsRunning' /\ NoneIsNew' /\ SleepingIsStopped' /\ NoneIsLost'
    BY <1>1, <1>2, <2>1
       DEF ControlInv, AwakeIsRunning, NoneIsNew, SleepingIsStopped, NoneIsLost
  <2>. QED BY <2>2, <2>3, <2>4 DEF ControlInv
<1>12. CASE InstanceStops
  <2>1. /\ instance = "stopping" /\ instance' = "stopped"
        /\ computer' = computer /\ creation' = creation /\ identity' = identity
    BY <1>12 DEF InstanceStops
  <2>2. ControlTyped'
    BY <1>1, <1>3, <2>1 DEF ControlTyped
  <2>3. CreationIsFirst' /\ RequestsAreTrue'
    BY <1>1, <1>3, <1>4, <2>1 DEF CreationIsFirst
  <2>4. AwakeIsRunning' /\ NoneIsNew' /\ SleepingIsStopped' /\ NoneIsLost'
    BY <1>1, <1>2, <2>1
       DEF ControlInv, AwakeIsRunning, NoneIsNew, SleepingIsStopped, NoneIsLost
  <2>. QED BY <2>2, <2>3, <2>4 DEF ControlInv
<1>13. CASE RevokeIdentity
  <2>1. /\ identity' = "revoked"
        /\ computer' = computer /\ creation' = creation /\ instance' = instance
    BY <1>13 DEF RevokeIdentity
  <2>2. ControlTyped'
    BY <1>1, <1>3, <2>1 DEF ControlTyped
  <2>3. CreationIsFirst' /\ RequestsAreTrue'
    BY <1>1, <1>3, <1>4, <2>1 DEF CreationIsFirst
  <2>4. AwakeIsRunning' /\ NoneIsNew' /\ SleepingIsStopped' /\ NoneIsLost'
    BY <1>1, <1>2, <2>1
       DEF ControlInv, AwakeIsRunning, NoneIsNew, SleepingIsStopped, NoneIsLost
  <2>. QED BY <2>2, <2>3, <2>4 DEF ControlInv
<1>. QED BY <1>6, <1>7, <1>8, <1>9, <1>10, <1>11, <1>12, <1>13

\* A request of the user goes on, and leaves the instance alone.
LEMMA RequestGoesOn ==
  ASSUME ControlInv, NEW c \in Callers, NEW x \in RequestRecords, RequestIsSound(x),
         x.step # "idle" => x.kind \in Kinds,
         control' = [control EXCEPT ![c] = x], UNCHANGED <<report, instance>>,
         creation' = creation \/ creation' = "over"
  PROVE  /\ control' \in [Callers -> RequestRecords] /\ RequestsAreTrue'
         /\ \A kinds : Unwritten(kinds) =>
              Unwritten(kinds)' \/ (control[c].step = "write" /\ control[c].kind \in kinds)
<1>1. control \in [Callers -> RequestRecords]
  BY DEF ControlInv, ControlTyped
<1>2. /\ control' \in [Callers -> RequestRecords] /\ control'[c] = x
      /\ \A d \in Callers : d # c => control'[d] = control[d]
  BY <1>1
<1>3. RequestsAreTrue'
  <2>1. ASSUME NEW r, RequestIsSound(r) PROVE RequestIsSound(r)'
    BY <2>1 DEF RequestIsSound
  <2>2. ASSUME NEW d \in Callers
        PROVE  /\ RequestIsSound(control[d])
               /\ control[d].step # "idle" => control[d].kind \in Kinds
    BY DEF ControlInv, RequestsAreTrue
  <2>3. ASSUME NEW d \in Callers
        PROVE  /\ RequestIsSound(control[d])'
               /\ control'[d].step # "idle" => control'[d].kind \in Kinds
    <3>1. PICK r : r = control'[d]
      OBVIOUS
    <3>2. RequestIsSound(r) /\ (r.step # "idle" => r.kind \in Kinds)
      <4>1. CASE d = c
        BY <1>2, <3>1, <4>1
      <4>2. CASE d # c
        <5>1. r = control[d]
          BY <1>2, <3>1, <4>2
        <5>2. RequestIsSound(control[d])
          BY <2>2
        <5>3. control[d].step # "idle" => control[d].kind \in Kinds
          BY <2>2
        <5>4. RequestIsSound(r)
          BY <5>1, <5>2 DEF RequestIsSound
        <5>. QED BY <5>1, <5>3, <5>4
      <4>. QED BY <4>1, <4>2
    <3>3. RequestIsSound(r)'
      BY <2>1, <3>2
    <3>. QED BY <3>1, <3>2, <3>3 DEF RequestIsSound
  <2>4. /\ RequestIsSound(report)' /\ (report'.step # "idle" => instance' # "none")
        /\ report'.kind \in {"none", "register", "heartbeat", "stop"}
        /\ report'.step = "activate" => report'.kind = "register"
    BY DEF ControlInv, RequestsAreTrue, RequestIsSound
  <2>. QED BY <2>3, <2>4 DEF RequestsAreTrue
<1>4. ASSUME NEW kinds, Unwritten(kinds)
      PROVE  Unwritten(kinds)' \/ (control[c].step = "write" /\ control[c].kind \in kinds)
  <2>1. CASE report.step = "write" /\ report.kind \in kinds
    BY <2>1 DEF Unwritten
  <2>2. ASSUME NEW d \in Callers, control[d].step = "write", control[d].kind \in kinds
        PROVE  Unwritten(kinds)' \/ (control[c].step = "write" /\ control[c].kind \in kinds)
    <3>1. CASE d = c
      BY <2>2, <3>1
    <3>2. CASE d # c
      BY <1>2, <2>2, <3>2 DEF Unwritten
    <3>. QED BY <3>1, <3>2
  <2>. QED BY <1>4, <2>1, <2>2 DEF Unwritten
<1>. QED BY <1>2, <1>3, <1>4

\* What the request c was told to do is crossed for the others.
LEMMA CrossingKeeps ==
  ASSUME NEW kind, NEW r \in RequestRecords
  PROVE  /\ Crossing(kind, r) \in RequestRecords
         /\ Crossing(kind, r).kind = r.kind /\ Crossing(kind, r).step = r.step
         /\ Crossing(kind, r).seen = r.seen
         /\ r.crossed => Crossing(kind, r).crossed
         /\ r.step = "write" /\ r.kind \in Opposite(kind) => Crossing(kind, r).crossed
BY DEF Crossing, RequestRecords

\* A request stays true when the provider is told something else, once it is crossed.
LEMMA CrossedStays ==
  ASSUME NEW kind \in Kinds, NEW r \in RequestRecords, RequestIsSound(r), Accepts(kind),
         instance' = Effect(kind), creation' = creation, creation = "over",
         instance # "none"
  PROVE  RequestIsSound(Crossing(kind, r))'
<1>1. PICK x : x = Crossing(kind, r)
  OBVIOUS
<1>2. /\ x.kind = r.kind /\ x.step = r.step /\ x.seen = r.seen /\ (r.crossed => x.crossed)
      /\ r.step = "write" /\ r.kind \in Opposite(kind) => x.crossed
  BY <1>1, CrossingKeeps
<1>3. RequestIsSound(x)'
  <2>1. CASE kind = "start"
    BY <1>2, <2>1 DEF RequestIsSound, Accepts, Effect, Opposite, Halting, Deletions
  <2>2. CASE kind = "stop"
    BY <1>2, <2>2 DEF RequestIsSound, Accepts, Effect, Opposite, Halting, Deletions
  <2>3. CASE kind = "restart"
    BY <1>2, <2>3 DEF RequestIsSound, Accepts, Effect, Opposite, Halting, Deletions
  <2>4. CASE kind \in Deletions
    BY <1>2, <2>4 DEF RequestIsSound, Accepts, Effect, Opposite, Halting, Deletions
  <2>. QED BY <2>1, <2>2, <2>3, <2>4 DEF Kinds, Halting
<1>. QED BY <1>1, <1>3 DEF RequestIsSound, Crossing

\* Who has told the provider something may write it down.
LEMMA TellerIsSound ==
  ASSUME NEW x \in RequestRecords, RequestIsSound(x), x.step = "call", x.kind \in Kinds,
         x.seen.known, Accepts(x.kind), instance' = Effect(x.kind), creation' = creation
  PROVE  /\ [x EXCEPT !.step = "write"] \in RequestRecords
         /\ RequestIsSound([x EXCEPT !.step = "write"])'
<1>1. PICK y : y = [x EXCEPT !.step = "write"]
  OBVIOUS
<1>2. /\ y \in RequestRecords /\ y.kind = x.kind /\ y.seen = x.seen /\ y.step = "write"
  BY <1>1 DEF RequestRecords
<1>3. creation = "over" /\ instance # "none"
  BY DEF RequestIsSound
<1>4. RequestIsSound(y)'
  <2>1. CASE x.kind = "start"
    BY <1>2, <1>3, <2>1 DEF RequestIsSound, Accepts, Effect, Deletions
  <2>2. CASE x.kind = "stop"
    BY <1>2, <1>3, <2>2 DEF RequestIsSound, Accepts, Effect, Deletions
  <2>3. CASE x.kind = "restart"
    BY <1>2, <1>3, <2>3 DEF RequestIsSound, Accepts, Effect, Deletions
  <2>4. CASE x.kind \in Deletions
    BY <1>2, <1>3, <2>4 DEF RequestIsSound, Accepts, Effect, Deletions
  <2>. QED BY <2>1, <2>2, <2>3, <2>4 DEF Kinds, Halting
<1>. QED BY <1>1, <1>2, <1>4 DEF RequestIsSound

\* The provider is told something that it accepts, and all requests know of it: the row is
\* as true as before.
LEMMA ProviderTold ==
  ASSUME ControlInv, NEW kind \in Kinds, creation = "over", instance # "none", Accepts(kind),
         instance' = Effect(kind), UNCHANGED <<computer, creation, doubt, missed>>,
         \A kinds : Unwritten(kinds) \/ kind \in kinds => Unwritten(kinds)'
  PROVE  /\ instance' \in {"running", "stopping", "stopped", "terminated"}
         /\ CreationIsFirst' /\ AwakeIsRunning' /\ NoneIsNew' /\ SleepingIsStopped'
         /\ NoneIsLost'
<1>1. /\ instance \in {"running", "stopping", "stopped", "terminated"}
      /\ CreationIsFirst /\ AwakeIsRunning /\ NoneIsNew /\ SleepingIsStopped /\ NoneIsLost
  BY DEF ControlInv, ControlTyped
<1>2. /\ Unwritten(Halting) => Unwritten(Halting)'
      /\ kind \in Halting => Unwritten(Halting)'
      /\ Unwritten({"start"}) => Unwritten({"start"})'
      /\ kind = "start" => Unwritten({"start"})'
  OBVIOUS
<1>3. instance' \in {"running", "stopping", "stopped", "terminated"}
  BY <1>1 DEF Effect, Kinds, Halting, Deletions
<1>4. CreationIsFirst' /\ NoneIsNew'
  BY <1>1, <1>3 DEF CreationIsFirst, NoneIsNew
<1>5. AwakeIsRunning'
  BY <1>1, <1>2 DEF AwakeIsRunning, Kinds, Halting, Deletions, Effect
<1>6. SleepingIsStopped'
  BY <1>1, <1>2 DEF SleepingIsStopped, Kinds, Halting, Deletions, Effect, Accepts
<1>7. NoneIsLost'
  BY <1>1 DEF NoneIsLost, Kinds, Halting, Deletions, Effect, Accepts
<1>. QED BY <1>3, <1>4, <1>5, <1>6, <1>7

\* start, stop and delete, as the provider accepts them.
LEMMA CallsProviderStep ==
  ASSUME ControlInv, NEW c \in Callers, CallsProvider(c)
  PROVE  ControlInv'
<1>1. PICK x \in RequestRecords : x = control[c]
  BY DEF ControlInv, ControlTyped
<1>2. PICK kind : kind = x.kind
  OBVIOUS
<1>3. PICK y : y = [x EXCEPT !.step = "write"]
  OBVIOUS
<1>4. /\ x.step = "call" /\ x.seen.known /\ Accepts(kind) /\ instance' = Effect(kind)
      /\ control' = [d \in Callers |-> IF d = c THEN y ELSE Crossing(kind, control[d])]
      /\ report' = Crossing(kind, report)
      /\ UNCHANGED <<computer, identity, machineToken, creation, doubt, missed>>
  BY <1>1, <1>2, <1>3 DEF CallsProvider
<1>5. RequestIsSound(x) /\ kind \in Kinds
  BY <1>1, <1>2, <1>4 DEF ControlInv, RequestsAreTrue
<1>6. creation = "over" /\ instance # "none"
  BY <1>4, <1>5 DEF RequestIsSound
<1>7. y \in RequestRecords /\ RequestIsSound(y)'
  BY <1>2, <1>3, <1>4, <1>5, TellerIsSound DEF RequestIsSound
<1>8. y.step = "write" /\ y.kind = kind
  BY <1>2, <1>3 DEF RequestRecords
<1>9. /\ control'[c] = y
      /\ \A d \in Callers : d # c => control'[d] = Crossing(kind, control[d])
      /\ \A d \in Callers : control[d] \in RequestRecords /\ RequestIsSound(control[d])
                            /\ (control[d].step # "idle" => control[d].kind \in Kinds)
      /\ report \in RequestRecords /\ RequestIsSound(report)
  BY <1>4 DEF ControlInv, ControlTyped, RequestsAreTrue
<1>10. ASSUME NEW d \in Callers, d # c
       PROVE  /\ control'[d] \in RequestRecords /\ RequestIsSound(control[d])'
              /\ control'[d].step = control[d].step /\ control'[d].kind = control[d].kind
  <2>1. PICK z \in RequestRecords : z = control[d]
    BY <1>9
  <2>2. PICK w : w = Crossing(kind, z)
    OBVIOUS
  <2>3. w \in RequestRecords /\ w.step = z.step /\ w.kind = z.kind
    BY <2>2, CrossingKeeps
  <2>4. RequestIsSound(w)'
    BY <1>4, <1>5, <1>6, <1>9, <2>1, <2>2, CrossedStays DEF RequestIsSound, Crossing
  <2>5. control'[d] = w
    BY <1>9, <1>10, <2>1, <2>2
  <2>. QED BY <2>1, <2>3, <2>4, <2>5 DEF RequestIsSound
<1>11. /\ report' \in RequestRecords /\ RequestIsSound(report)'
       /\ report'.step = report.step /\ report'.kind = report.kind
  <2>1. PICK z \in RequestRecords : z = report
    BY <1>9
  <2>2. PICK w : w = Crossing(kind, z)
    OBVIOUS
  <2>3. w \in RequestRecords /\ w.step = z.step /\ w.kind = z.kind
    BY <2>2, CrossingKeeps
  <2>4. RequestIsSound(w)'
    BY <1>4, <1>5, <1>6, <1>9, <2>1, <2>2, CrossedStays DEF RequestIsSound, Crossing
  <2>5. report' = w
    BY <1>4, <2>1, <2>2
  <2>. QED BY <2>1, <2>3, <2>4, <2>5 DEF RequestIsSound
<1>12. \A kinds : Unwritten(kinds) \/ kind \in kinds => Unwritten(kinds)'
  <2>1. ASSUME NEW kinds, kind \in kinds PROVE Unwritten(kinds)'
    BY <1>8, <1>9, <2>1 DEF Unwritten
  <2>2. ASSUME NEW kinds, Unwritten(kinds) PROVE Unwritten(kinds)'
    <3>1. CASE report.step = "write" /\ report.kind \in kinds
      BY <1>11, <3>1 DEF Unwritten
    <3>2. ASSUME NEW d \in Callers, control[d].step = "write", control[d].kind \in kinds
          PROVE  Unwritten(kinds)'
      <4>1. d # c
        BY <1>1, <1>4, <3>2
      <4>. QED BY <1>10, <3>2, <4>1 DEF Unwritten
    <3>. QED BY <2>2, <3>1, <3>2 DEF Unwritten
  <2>. QED BY <2>1, <2>2
<1>13. /\ instance' \in {"running", "stopping", "stopped", "terminated"}
       /\ CreationIsFirst' /\ AwakeIsRunning' /\ NoneIsNew' /\ SleepingIsStopped'
       /\ NoneIsLost'
  BY <1>4, <1>5, <1>6, <1>12, ProviderTold
<1>14. control' \in [Callers -> RequestRecords]
  BY <1>4, <1>7, <1>9, <1>10
<1>15. ControlTyped'
  BY <1>4, <1>11, <1>13, <1>14 DEF ControlInv, ControlTyped
<1>16. RequestsAreTrue'
  <2>1. \A d \in Callers : RequestIsSound(control[d])'
    BY <1>7, <1>9, <1>10 DEF RequestIsSound
  <2>2. \A d \in Callers : control'[d].step # "idle" => control'[d].kind \in Kinds
    BY <1>5, <1>8, <1>9, <1>10
  <2>3. /\ report.kind \in {"none", "register", "heartbeat", "stop"}
        /\ report.step = "activate" => report.kind = "register"
    BY DEF ControlInv, RequestsAreTrue
  <2>. QED BY <1>11, <1>13, <2>1, <2>2, <2>3 DEF RequestsAreTrue
<1>. QED BY <1>13, <1>15, <1>16 DEF ControlInv

\* The row stays, and what it may be wrong about is still known.
LEMMA RowStays ==
  ASSUME ControlInv, UNCHANGED <<computer, instance, creation, missed>>, doubt => doubt',
         Unwritten(Halting) => Unwritten(Halting)' \/ doubt',
         Unwritten({"start"}) => Unwritten({"start"})' \/ doubt'
  PROVE  CreationIsFirst' /\ AwakeIsRunning' /\ NoneIsNew' /\ SleepingIsStopped' /\ NoneIsLost'
<1>2. CreationIsFirst /\ AwakeIsRunning /\ NoneIsNew /\ SleepingIsStopped /\ NoneIsLost
  BY DEF ControlInv
<1>3. CreationIsFirst' /\ NoneIsNew' /\ NoneIsLost'
  BY <1>2 DEF CreationIsFirst, NoneIsNew, NoneIsLost
<1>4. AwakeIsRunning' /\ SleepingIsStopped'
  BY <1>2 DEF AwakeIsRunning, SleepingIsStopped
<1>. QED BY <1>3, <1>4

\* The row is written, if it is there, and says what is or is in doubt.
LEMMA RowWritten ==
  ASSUME ControlInv, NEW status \in {"starting", "online", "sleeping"}, WriteStatus(status),
         creation = "over" \/ status # "sleeping", instance # "none",
         UNCHANGED <<instance, creation, missed>>,
         RowExists /\ status = "sleeping" =>
           \/ doubt' \/ Unwritten({"start"})'
           \/ instance \in {"stopping", "stopped", "terminated"},
         RowExists /\ status # "sleeping" =>
           doubt' \/ Unwritten(Halting)' \/ instance = "running"
  PROVE  /\ computer' \in Rows
         /\ CreationIsFirst' /\ AwakeIsRunning' /\ NoneIsNew' /\ SleepingIsStopped' /\ NoneIsLost'
<1>1. computer \in Rows /\ CreationIsFirst /\ NoneIsLost
  BY DEF ControlInv, ControlTyped
<1>2. CASE RowExists
  <2>1. computer' = [computer EXCEPT !.status = status]
    BY <1>2 DEF WriteStatus
  <2>2. computer' \in Rows /\ computer'.status = status /\ computer'.known = computer.known
    BY <1>1, <2>1 DEF Rows, Statuses
  <2>3. computer.status # "none"
    BY <1>2 DEF RowExists
  <2>4. CreationIsFirst'
    BY <1>1, <2>2, <2>3 DEF CreationIsFirst
  <2>5. AwakeIsRunning' /\ NoneIsNew' /\ SleepingIsStopped' /\ NoneIsLost'
    BY <1>2, <2>2 DEF AwakeIsRunning, NoneIsNew, SleepingIsStopped, NoneIsLost
  <2>. QED BY <2>2, <2>4, <2>5
<1>3. CASE ~ RowExists
  <2>1. computer' = computer /\ computer.status \in {"none", "deleted"}
    BY <1>3 DEF WriteStatus, RowExists
  <2>2. CreationIsFirst' /\ AwakeIsRunning' /\ NoneIsNew' /\ SleepingIsStopped' /\ NoneIsLost'
    BY <1>1, <2>1
       DEF CreationIsFirst, AwakeIsRunning, NoneIsNew, SleepingIsStopped, NoneIsLost
  <2>. QED BY <1>1, <2>1, <2>2
<1>. QED BY <1>2, <1>3

\* The user's requests, but for the provider's answer.
LEMMA UserSteps ==
  ASSUME ControlInv, NEW c \in Callers,
         \/ \E kind \in Kinds : ReadComputer(c, kind)
         \/ ReadUser(c) \/ TerminatesNothing(c) \/ ProviderRefuses(c) \/ TerminationFails(c)
         \/ WriteRow(c) \/ DeleteRow(c) \/ DeleteUser(c) \/ ControlBreaks(c)
  PROVE  ControlInv'
<1>1. PICK x \in RequestRecords : x = control[c]
  BY DEF ControlInv, ControlTyped
<1>2. /\ RequestIsSound(x) /\ (x.step # "idle" => x.kind \in Kinds)
      /\ x.kind \in Kinds \cup {"none", "register", "heartbeat"}
      /\ x.step \in {"idle", "call", "activate", "write", "abandon"}
      /\ x.seen \in Rows /\ x.seen.known \in BOOLEAN /\ x.crossed \in BOOLEAN
  BY <1>1 DEF ControlInv, RequestsAreTrue, RequestRecords, Rows
<1>3. /\ ControlTyped /\ computer \in Rows
      /\ CreationIsFirst /\ AwakeIsRunning /\ NoneIsNew /\ SleepingIsStopped /\ NoneIsLost
  BY DEF ControlInv, ControlTyped
<1>4. IdleRequest \in RequestRecords /\ RequestIsSound(IdleRequest) /\ IdleRequest.step = "idle"
  BY DEF IdleRequest, RequestRecords, Rows, Statuses, RequestIsSound
<1>5. ASSUME NEW y \in RequestRecords, RequestIsSound(y), y.step # "idle" => y.kind \in Kinds,
             control' = [control EXCEPT ![c] = y],
             UNCHANGED <<computer, instance, identity, machineToken, creation, report, missed>>,
             doubt' \in BOOLEAN, doubt => doubt', x.step # "write" \/ doubt'
      PROVE  ControlInv'
  <2>1. /\ control' \in [Callers -> RequestRecords] /\ RequestsAreTrue'
        /\ \A kinds : Unwritten(kinds) =>
             Unwritten(kinds)' \/ (control[c].step = "write" /\ control[c].kind \in kinds)
    BY <1>5, RequestGoesOn
  <2>2. /\ Unwritten(Halting) => Unwritten(Halting)' \/ doubt'
        /\ Unwritten({"start"}) => Unwritten({"start"})' \/ doubt'
    BY <1>1, <1>5, <2>1
  <2>3. /\ CreationIsFirst' /\ AwakeIsRunning' /\ NoneIsNew' /\ SleepingIsStopped'
        /\ NoneIsLost'
    BY <1>5, <2>2, RowStays
  <2>4. ControlTyped'
    BY <1>3, <1>5, <2>1 DEF ControlTyped
  <2>. QED BY <2>1, <2>3, <2>4 DEF ControlInv
<1>6. ASSUME NEW kind \in Kinds, RequestArrives(c, kind) PROVE ControlInv'
  <2>1. PICK y : y = [kind |-> kind, step |-> "call", seen |-> computer, crossed |-> FALSE]
    OBVIOUS
  <2>2. /\ x.step = "idle" /\ control' = [control EXCEPT ![c] = y]
        /\ UNCHANGED <<computer, instance, identity, machineToken, creation, report, missed,
                       doubt>>
    BY <1>1, <1>6, <2>1 DEF RequestArrives
  <2>3. y \in RequestRecords /\ y.step # "idle" /\ y.kind \in Kinds
    BY <1>3, <2>1 DEF RequestRecords
  <2>4. RequestIsSound(y)
    BY <1>3, <2>1 DEF RequestIsSound, CreationIsFirst
  <2>5. doubt' \in BOOLEAN
    BY <1>3, <2>2 DEF ControlTyped
  <2>. QED BY <1>5, <2>2, <2>3, <2>4, <2>5
<1>7. CASE TerminatesNothing(c)
  <2>1. PICK y : y = [x EXCEPT !.step = "write"]
    OBVIOUS
  <2>2. /\ x.step = "call" /\ x.kind \in Deletions /\ ~ x.seen.known
        /\ control' = [control EXCEPT ![c] = y]
        /\ UNCHANGED <<computer, instance, identity, machineToken, creation, report, missed,
                       doubt>>
    BY <1>1, <1>7, <2>1 DEF TerminatesNothing
  <2>3. y \in RequestRecords /\ y.step = "write" /\ y.kind \in Deletions /\ y.seen = x.seen
    BY <2>1, <2>2 DEF RequestRecords
  <2>4. RequestIsSound(y)
    BY <1>2, <2>2, <2>3 DEF RequestIsSound, Deletions
  <2>5. doubt' \in BOOLEAN /\ y.kind \in Kinds
    BY <1>3, <2>2, <2>3 DEF ControlTyped, Kinds, Halting
  <2>. QED BY <1>5, <2>2, <2>3, <2>4, <2>5
<1>8. CASE ProviderRefuses(c)
  <2>1. /\ x.step = "call" /\ control' = [control EXCEPT ![c] = IdleRequest]
        /\ UNCHANGED <<computer, instance, identity, machineToken, creation, report, missed,
                       doubt>>
    BY <1>1, <1>8 DEF ProviderRefuses
  <2>2. doubt' \in BOOLEAN
    BY <1>3, <2>1 DEF ControlTyped
  <2>. QED BY <1>4, <1>5, <2>1, <2>2
<1>9. CASE ControlBreaks(c)
  <2>1. /\ control' = [control EXCEPT ![c] = IdleRequest]
        /\ doubt' = (doubt \/ x.step = "write")
        /\ UNCHANGED <<computer, instance, identity, machineToken, creation, report, missed>>
    BY <1>1, <1>9 DEF ControlBreaks
  <2>2. doubt' \in BOOLEAN
    BY <1>3, <2>1 DEF ControlTyped
  <2>. QED BY <1>4, <1>5, <2>1, <2>2
<1>10. CASE WriteRow(c)
  <2>1. PICK status : status = IF x.kind = "stop" THEN "sleeping" ELSE "starting"
    OBVIOUS
  <2>2. /\ x.step = "write" /\ x.kind \notin Deletions /\ WriteStatus(status)
        /\ doubt' = x.crossed
        /\ control' = [control EXCEPT ![c] = IdleRequest]
        /\ UNCHANGED <<instance, identity, machineToken, creation, report, missed>>
    BY <1>1, <1>10, <2>1 DEF WriteRow
  <2>3. x.kind \in {"start", "stop", "restart"}
    BY <1>2, <2>2 DEF Kinds, Halting, Deletions
  <2>4. /\ x.seen.known /\ creation = "over" /\ instance # "none"
        /\ x.kind = "stop" => doubt' \/ instance \in {"stopping", "stopped", "terminated"}
        /\ x.kind # "stop" => doubt' \/ instance = "running"
    BY <1>2, <2>2, <2>3 DEF RequestIsSound
  <2>5. /\ control' \in [Callers -> RequestRecords] /\ RequestsAreTrue'
    BY <1>4, <2>2, RequestGoesOn
  <2>6. /\ status \in {"starting", "online", "sleeping"}
        /\ status = "sleeping" => \/ doubt' \/ Unwritten({"start"})'
                                  \/ instance \in {"stopping", "stopped", "terminated"}
        /\ status # "sleeping" =>
             doubt' \/ Unwritten(Halting)' \/ instance = "running"
    BY <2>1, <2>4
  <2>7. /\ computer' \in Rows
        /\ CreationIsFirst' /\ AwakeIsRunning' /\ NoneIsNew' /\ SleepingIsStopped' /\ NoneIsLost'
    BY <2>2, <2>4, <2>6, RowWritten
  <2>8. ControlTyped'
    BY <1>2, <1>3, <2>2, <2>5, <2>7 DEF ControlTyped
  <2>. QED BY <2>5, <2>7, <2>8 DEF ControlInv
<1>11. CASE DeleteRow(c)
  <2>1. /\ x.step = "write" /\ x.kind = "delete"
        /\ computer' = IF RowExists THEN [computer EXCEPT !.status = "deleted"] ELSE computer
        /\ identity' = "none" /\ missed' = (missed \/ (RowExists /\ ~ x.seen.known))
        /\ control' = [control EXCEPT ![c] = IdleRequest]
        /\ UNCHANGED <<instance, machineToken, creation, report, doubt>>
    BY <1>1, <1>11 DEF DeleteRow
  <2>2. /\ computer' \in Rows /\ computer'.status \in {"none", "deleted"}
        /\ computer'.known = computer.known
        /\ computer'.status = "none" <=> computer.status = "none"
    BY <1>3, <2>1 DEF Rows, Statuses, RowExists
  <2>3. x.seen.known => creation = "over" /\ instance = "terminated"
    BY <1>2, <2>1 DEF RequestIsSound, Deletions
  <2>4. control' \in [Callers -> RequestRecords] /\ RequestsAreTrue'
    BY <1>4, <2>1, RequestGoesOn
  <2>5. CreationIsFirst' /\ NoneIsLost'
    BY <1>3, <2>1, <2>2, <2>3 DEF CreationIsFirst, NoneIsLost, RowExists
  <2>6. AwakeIsRunning' /\ NoneIsNew' /\ SleepingIsStopped'
    BY <2>2 DEF AwakeIsRunning, NoneIsNew, SleepingIsStopped
  <2>7. ControlTyped'
    BY <1>3, <2>1, <2>2, <2>4 DEF ControlTyped
  <2>. QED BY <2>4, <2>5, <2>6, <2>7 DEF ControlInv
<1>12. CASE TerminationFails(c)
  <2>1. PICK y : y = [x EXCEPT !.step = "abandon"]
    OBVIOUS
  <2>2. /\ x.step = "call" /\ x.kind = "deleteUser"
        /\ control' = [control EXCEPT ![c] = y]
        /\ UNCHANGED <<computer, instance, identity, machineToken, creation, report, missed,
                       doubt>>
    BY <1>1, <1>12, <2>1 DEF TerminationFails
  <2>3. /\ y \in RequestRecords /\ y.step = "abandon" /\ y.kind = "deleteUser"
        /\ y.seen = x.seen
    BY <2>1, <2>2 DEF RequestRecords
  <2>4. RequestIsSound(y)
    BY <1>2, <2>3 DEF RequestIsSound
  <2>5. doubt' \in BOOLEAN /\ y.kind \in Kinds
    BY <1>3, <2>2, <2>3 DEF ControlTyped, Kinds, Halting, Deletions
  <2>. QED BY <1>5, <2>2, <2>3, <2>4, <2>5
<1>13. CASE DeleteUser(c)
  <2>1. /\ x.step \in {"write", "abandon"} /\ x.kind = "deleteUser"
        /\ computer' = [computer EXCEPT !.status = "deleted"] /\ identity' = "none"
        /\ creation' = IF creation = "idle" THEN "over" ELSE creation
        /\ missed' = (missed \/ (RowExists /\ (~ x.seen.known \/ x.step = "abandon")))
        /\ control' = [control EXCEPT ![c] = IdleRequest]
        /\ UNCHANGED <<instance, machineToken, report, doubt>>
    BY <1>1, <1>13 DEF DeleteUser
  <2>2. /\ computer' \in Rows /\ computer'.status = "deleted"
        /\ computer'.known = computer.known
    BY <1>3, <2>1 DEF Rows, Statuses
  <2>3. /\ x.seen.known => creation = "over"
        /\ x.seen.known /\ x.step = "write" => instance = "terminated"
    BY <1>2, <2>1 DEF RequestIsSound, Deletions
  <2>4. /\ control' \in [Callers -> RequestRecords] /\ RequestsAreTrue'
    BY <1>4, <2>1, RequestGoesOn
  <2>5. CreationIsFirst' /\ NoneIsLost'
    BY <1>3, <2>1, <2>2, <2>3 DEF CreationIsFirst, NoneIsLost, RowExists
  <2>6. AwakeIsRunning' /\ NoneIsNew' /\ SleepingIsStopped'
    BY <2>2 DEF AwakeIsRunning, NoneIsNew, SleepingIsStopped
  <2>7. ControlTyped'
    BY <1>3, <2>1, <2>2, <2>4 DEF ControlTyped
  <2>. QED BY <2>4, <2>5, <2>6, <2>7 DEF ControlInv
<1>14. CASE ReadUser(c)
  BY <1>6, <1>14 DEF ReadUser, Kinds, Halting, Deletions
<1>15. ASSUME NEW kind \in Kinds, ReadComputer(c, kind) PROVE ControlInv'
  BY <1>6, <1>15 DEF ReadComputer
<1>. QED BY <1>7, <1>8, <1>9, <1>10, <1>11, <1>12, <1>13, <1>14, <1>15

\* The machine's request goes on, and leaves the instance alone.
LEMMA ReportGoesOn ==
  ASSUME ControlInv, NEW x \in RequestRecords, RequestIsSound(x),
         x.step # "idle" => instance # "none",
         x.kind \in {"none", "register", "heartbeat", "stop"},
         x.step = "activate" => x.kind = "register",
         report' = x, UNCHANGED <<control, creation, instance>>
  PROVE  /\ report' \in RequestRecords /\ RequestsAreTrue'
         /\ \A kinds : Unwritten(kinds) =>
              Unwritten(kinds)' \/ (report.step = "write" /\ report.kind \in kinds)
<1>1. RequestsAreTrue'
  <2>1. \A d \in Callers : RequestIsSound(control[d])'
    BY DEF ControlInv, RequestsAreTrue, RequestIsSound
  <2>2. RequestIsSound(report)'
    BY DEF RequestIsSound
  <2>. QED BY <2>1, <2>2 DEF ControlInv, RequestsAreTrue
<1>. QED BY <1>1 DEF Unwritten

\* An idle machine is stopped.
LEMMA AutoSleepTells ==
  ASSUME ControlInv, report.kind = "stop", report.step = "call", report.seen.known,
         Accepts("stop"), instance' = Effect("stop"),
         control' = [c \in Callers |-> Crossing("stop", control[c])],
         report' = [report EXCEPT !.step = "write"],
         UNCHANGED <<computer, identity, machineToken, creation, doubt, missed>>
  PROVE  ControlInv'
<1>1. PICK x \in RequestRecords : x = report
  BY DEF ControlInv, ControlTyped
<1>2. PICK y : y = [x EXCEPT !.step = "write"]
  OBVIOUS
<1>3. RequestIsSound(x) /\ x.kind = "stop" /\ x.step = "call" /\ x.seen.known
  BY <1>1 DEF ControlInv, RequestsAreTrue
<1>4. creation = "over" /\ instance # "none" /\ "stop" \in Kinds
  BY <1>3 DEF RequestIsSound, Kinds, Halting
<1>5. y \in RequestRecords /\ RequestIsSound(y)' /\ report' = y
  BY <1>1, <1>2, <1>3, <1>4, TellerIsSound DEF RequestIsSound
<1>6. y.step = "write" /\ y.kind = "stop"
  BY <1>2, <1>3 DEF RequestRecords
<1>7. /\ \A d \in Callers : control'[d] = Crossing("stop", control[d])
      /\ \A d \in Callers : control[d] \in RequestRecords /\ RequestIsSound(control[d])
                            /\ (control[d].step # "idle" => control[d].kind \in Kinds)
  BY DEF ControlInv, ControlTyped, RequestsAreTrue
<1>8. ASSUME NEW d \in Callers
      PROVE  /\ control'[d] \in RequestRecords /\ RequestIsSound(control[d])'
             /\ control'[d].step = control[d].step /\ control'[d].kind = control[d].kind
  <2>1. PICK z \in RequestRecords : z = control[d]
    BY <1>7
  <2>2. PICK w : w = Crossing("stop", z)
    OBVIOUS
  <2>3. w \in RequestRecords /\ w.step = z.step /\ w.kind = z.kind
    BY <2>2, CrossingKeeps
  <2>4. RequestIsSound(w)'
    BY <1>4, <1>7, <2>1, <2>2, CrossedStays DEF RequestIsSound, Crossing
  <2>5. control'[d] = w
    BY <1>7, <2>1, <2>2
  <2>. QED BY <2>1, <2>3, <2>4, <2>5 DEF RequestIsSound
<1>9. \A kinds : Unwritten(kinds) \/ "stop" \in kinds => Unwritten(kinds)'
  <2>1. ASSUME NEW kinds, "stop" \in kinds PROVE Unwritten(kinds)'
    BY <1>5, <1>6, <2>1 DEF Unwritten
  <2>2. ASSUME NEW kinds, Unwritten(kinds) PROVE Unwritten(kinds)'
    <3>1. PICK d \in Callers : control[d].step = "write" /\ control[d].kind \in kinds
      BY <1>1, <1>3, <2>2 DEF Unwritten
    <3>. QED BY <1>8, <3>1 DEF Unwritten
  <2>. QED BY <2>1, <2>2
<1>10. /\ instance' \in {"running", "stopping", "stopped", "terminated"}
       /\ CreationIsFirst' /\ AwakeIsRunning' /\ NoneIsNew' /\ SleepingIsStopped'
       /\ NoneIsLost'
  BY <1>4, <1>9, ProviderTold
<1>11. control' \in [Callers -> RequestRecords]
  BY <1>8
<1>12. ControlTyped'
  BY <1>5, <1>10, <1>11 DEF ControlInv, ControlTyped
<1>13. RequestsAreTrue'
  <2>1. \A d \in Callers : RequestIsSound(control[d])'
    BY <1>8
  <2>2. \A d \in Callers : control'[d].step # "idle" => control'[d].kind \in Kinds
    BY <1>7, <1>8
  <2>3. RequestIsSound(report)'
    BY <1>5 DEF RequestIsSound
  <2>. QED BY <1>5, <1>6, <1>10, <2>1, <2>2, <2>3 DEF RequestsAreTrue
<1>. QED BY <1>10, <1>12, <1>13 DEF ControlInv

\* The machine's requests.
LEMMA MachineSteps ==
  ASSUME ControlInv,
         \/ RegistrationArrives \/ ActivateIdentity \/ Registered \/ HeartbeatArrives
         \/ HeartbeatWrites \/ AutoSleepCalls \/ AutoSleepWrites \/ ReportBreaks
  PROVE  ControlInv'
<1>1. PICK x \in RequestRecords : x = report
  BY DEF ControlInv, ControlTyped
<1>2. /\ RequestIsSound(x) /\ (x.step # "idle" => instance # "none")
      /\ x.step \in {"idle", "call", "activate", "write", "abandon"}
      /\ x.kind \in {"none", "register", "heartbeat", "stop"}
      /\ x.step = "activate" => x.kind = "register"
      /\ x.seen \in Rows /\ x.seen.known \in BOOLEAN /\ x.crossed \in BOOLEAN
  BY <1>1 DEF ControlInv, RequestsAreTrue, RequestRecords, Rows
<1>3. /\ ControlTyped /\ computer \in Rows /\ computer.status \in Statuses
      /\ CreationIsFirst /\ AwakeIsRunning /\ NoneIsNew /\ SleepingIsStopped /\ NoneIsLost
  BY DEF ControlInv, ControlTyped, Rows
<1>4. IdleRequest \in RequestRecords /\ RequestIsSound(IdleRequest) /\ IdleRequest.step = "idle"
  BY DEF IdleRequest, RequestRecords, Rows, Statuses, RequestIsSound
\* The request goes on and the row stays.
<1>5. ASSUME NEW y \in RequestRecords, RequestIsSound(y), y.step # "idle" => instance # "none",
             y.kind \in {"none", "register", "heartbeat", "stop"},
             y.step = "activate" => y.kind = "register",
             report' = y, identity' \in {"none", "bootstrap", "active", "revoked"},
             UNCHANGED <<computer, instance, machineToken, creation, control, missed>>,
             doubt' \in BOOLEAN, doubt => doubt',
             x.step # "write" \/ x.kind # "stop" \/ doubt'
      PROVE  ControlInv'
  <2>1. /\ report' \in RequestRecords /\ RequestsAreTrue'
        /\ \A kinds : Unwritten(kinds) =>
             Unwritten(kinds)' \/ (report.step = "write" /\ report.kind \in kinds)
    BY <1>5, ReportGoesOn
  <2>2. /\ Unwritten(Halting) => Unwritten(Halting)' \/ doubt'
        /\ Unwritten({"start"}) => Unwritten({"start"})' \/ doubt'
    BY <1>1, <1>2, <1>5, <2>1 DEF Halting, Deletions
  <2>3. /\ CreationIsFirst' /\ AwakeIsRunning' /\ NoneIsNew' /\ SleepingIsStopped'
        /\ NoneIsLost'
    BY <1>5, <2>2, RowStays
  <2>4. ControlTyped'
    BY <1>3, <1>5, <2>1 DEF ControlTyped
  <2>. QED BY <2>1, <2>3, <2>4 DEF ControlInv
\* The request goes on and the row is written.
<1>6. ASSUME NEW y \in RequestRecords, RequestIsSound(y), y.step # "idle" => instance # "none",
             y.kind \in {"none", "register", "heartbeat", "stop"},
             y.step = "activate" => y.kind = "register",
             report' = y, NEW status \in {"starting", "online", "sleeping"}, WriteStatus(status),
             creation = "over" \/ status # "sleeping", instance # "none",
             machineToken' \in {"bootstrap", "machine"}, doubt' \in BOOLEAN,
             UNCHANGED <<instance, identity, creation, control, missed>>,
             RowExists /\ status = "sleeping" =>
               \/ doubt' \/ Unwritten({"start"})'
               \/ instance \in {"stopping", "stopped", "terminated"},
             RowExists /\ status # "sleeping" =>
               doubt' \/ Unwritten(Halting)' \/ instance = "running"
      PROVE  ControlInv'
  <2>1. report' \in RequestRecords /\ RequestsAreTrue'
    BY <1>6, ReportGoesOn
  <2>2. /\ computer' \in Rows
        /\ CreationIsFirst' /\ AwakeIsRunning' /\ NoneIsNew' /\ SleepingIsStopped' /\ NoneIsLost'
    BY <1>6, RowWritten
  <2>3. ControlTyped'
    BY <1>3, <1>6, <2>1, <2>2 DEF ControlTyped
  <2>. QED BY <2>1, <2>2, <2>3 DEF ControlInv
<1>7. ASSUME NEW y \in RequestRecords, y.seen = computer, ~ y.crossed,
             y.kind \in {"register", "heartbeat"},
             y.step = "activate" => y.kind = "register", Reports(y.kind, y.step)
      PROVE  ControlInv'
  <2>1. y = [kind |-> y.kind, step |-> y.step, seen |-> computer, crossed |-> FALSE]
    BY <1>7 DEF RequestRecords
  <2>2. /\ x.step = "idle" /\ instance \in {"running", "stopping"} /\ report' = y
        /\ UNCHANGED <<computer, instance, identity, machineToken, creation, control, missed,
                       doubt>>
    BY <1>1, <1>7, <2>1 DEF Reports
  <2>3. RequestIsSound(y)
    BY <1>3, <1>7 DEF RequestIsSound, CreationIsFirst, Deletions
  <2>4. doubt' \in BOOLEAN /\ identity' \in {"none", "bootstrap", "active", "revoked"}
    BY <1>3, <2>2 DEF ControlTyped
  <2>. QED BY <1>5, <1>7, <2>2, <2>3, <2>4
<1>8. CASE RegistrationArrives
  <2>1. PICK y : y = [kind |-> "register", step |-> "activate", seen |-> computer,
                      crossed |-> FALSE]
    OBVIOUS
  <2>2. y \in RequestRecords /\ y.kind = "register" /\ y.step = "activate" /\ y.seen = computer
        /\ ~ y.crossed
    BY <1>3, <2>1 DEF RequestRecords
  <2>. QED BY <1>7, <1>8, <2>2 DEF RegistrationArrives
<1>9. CASE HeartbeatArrives
  <2>1. PICK y : y = [kind |-> "heartbeat", step |-> "write", seen |-> computer,
                      crossed |-> FALSE]
    OBVIOUS
  <2>2. y \in RequestRecords /\ y.kind = "heartbeat" /\ y.step = "write" /\ y.seen = computer
        /\ ~ y.crossed
    BY <1>3, <2>1 DEF RequestRecords
  <2>. QED BY <1>7, <1>9, <2>2 DEF HeartbeatArrives
<1>10. CASE ActivateIdentity
  <2>1. PICK y : y = IF identity = "none" THEN IdleRequest ELSE [x EXCEPT !.step = "write"]
    OBVIOUS
  <2>2. /\ x.step = "activate" /\ identity' \in {"none", "bootstrap", "active", "revoked"}
        /\ report' = y
        /\ UNCHANGED <<computer, instance, machineToken, creation, control, missed, doubt>>
    BY <1>1, <1>3, <1>10, <2>1 DEF ActivateIdentity, ControlTyped
  <2>3. \/ y = IdleRequest
        \/ /\ y \in RequestRecords /\ y.kind = x.kind /\ y.seen = x.seen /\ y.step = "write"
    BY <2>1 DEF RequestRecords
  <2>4. /\ y \in RequestRecords /\ RequestIsSound(y) /\ y.step # "activate"
        /\ y.kind \in {"none", "register", "heartbeat", "stop"}
    <3>1. CASE y = IdleRequest
      BY <1>4, <3>1 DEF IdleRequest
    <3>2. CASE y # IdleRequest
      BY <1>2, <2>2, <2>3, <3>2 DEF RequestIsSound, Deletions
    <3>. QED BY <3>1, <3>2
  <2>5. doubt' \in BOOLEAN /\ instance # "none"
    BY <1>2, <1>3, <2>2 DEF ControlTyped
  <2>. QED BY <1>5, <2>2, <2>4, <2>5
<1>11. IdleRequest.kind = "none"
  BY DEF IdleRequest
<1>12. CASE ReportBreaks
  <2>1. /\ report' = IdleRequest
        /\ doubt' = (doubt \/ (x.kind = "stop" /\ x.step = "write"))
        /\ UNCHANGED <<computer, instance, identity, machineToken, creation, control, missed>>
    BY <1>1, <1>12 DEF ReportBreaks
  <2>2. doubt' \in BOOLEAN /\ identity' \in {"none", "bootstrap", "active", "revoked"}
    BY <1>3, <2>1 DEF ControlTyped
  <2>. QED BY <1>4, <1>5, <1>11, <2>1, <2>2
<1>13. CASE Registered
  <2>1. /\ x.kind = "register" /\ x.step = "write" /\ WriteStatus("online")
        /\ doubt' = (doubt \/ computer.status = "sleeping")
        /\ machineToken' \in {"bootstrap", "machine"} /\ report' = IdleRequest
        /\ UNCHANGED <<instance, identity, creation, control, missed>>
    BY <1>1, <1>13 DEF Registered
  <2>2. doubt' \in BOOLEAN /\ instance # "none"
    BY <1>2, <1>3, <2>1 DEF ControlTyped
  <2>3. Unwritten(Halting) => Unwritten(Halting)'
    BY <1>1, <2>1 DEF Unwritten, Halting, Deletions
  <2>4. RowExists => doubt' \/ Unwritten(Halting)' \/ instance = "running"
    BY <1>3, <2>1, <2>2, <2>3 DEF RowExists, Statuses, AwakeIsRunning
  <2>. QED BY <1>4, <1>6, <1>11, <2>1, <2>2, <2>4
<1>14. CASE HeartbeatWrites
  <2>1. PICK status : status = StatusAfter(x.seen)
    OBVIOUS
  <2>2. /\ x.kind = "heartbeat" /\ x.step = "write" /\ WriteStatus(status)
        /\ doubt' = (doubt \/ (x.seen.status = "sleeping") # (computer.status = "sleeping"))
        /\ UNCHANGED <<instance, identity, machineToken, creation, control, missed>>
    BY <1>1, <1>14, <2>1 DEF HeartbeatWrites
  <2>3. /\ status \in {"online", "sleeping"}
        /\ status = "sleeping" <=> x.seen.status = "sleeping"
    BY <2>1 DEF StatusAfter
  <2>4. PICK y : /\ report' = y
                 /\ \/ y = IdleRequest
                    \/ y = [kind |-> "stop", step |-> "call", seen |-> computer,
                            crossed |-> FALSE]
    BY <1>14 DEF HeartbeatWrites
  <2>5. /\ y \in RequestRecords /\ RequestIsSound(y) /\ y.step # "activate"
        /\ y.kind \in {"none", "stop"}
    <3>1. CASE y = IdleRequest
      BY <1>4, <1>11, <3>1
    <3>2. CASE y # IdleRequest
      <4>1. /\ y = [kind |-> "stop", step |-> "call", seen |-> computer, crossed |-> FALSE]
            /\ "stop" \in Kinds
        BY <2>4, <3>2 DEF Kinds, Halting
      <4>2. /\ y \in RequestRecords /\ y.kind = "stop" /\ y.step = "call" /\ y.seen = computer
        BY <1>3, <4>1 DEF RequestRecords
      <4>3. RequestIsSound(y)
        BY <1>3, <4>2 DEF RequestIsSound, CreationIsFirst
      <4>. QED BY <4>2, <4>3
    <3>. QED BY <3>1, <3>2
  <2>6. /\ doubt' \in BOOLEAN /\ instance # "none" /\ machineToken' \in {"bootstrap", "machine"}
        /\ creation = "over" \/ status # "sleeping"
    BY <1>2, <1>3, <2>2, <2>3 DEF ControlTyped, RequestIsSound
  <2>7. /\ Unwritten(Halting) => Unwritten(Halting)'
        /\ Unwritten({"start"}) => Unwritten({"start"})'
    BY <1>1, <2>2 DEF Unwritten, Halting, Deletions
  <2>8. RowExists /\ status = "sleeping" =>
          \/ doubt' \/ Unwritten({"start"})'
          \/ instance \in {"stopping", "stopped", "terminated"}
    BY <1>3, <2>2, <2>3, <2>7 DEF SleepingIsStopped
  <2>9. RowExists /\ status # "sleeping" =>
          doubt' \/ Unwritten(Halting)' \/ instance = "running"
    BY <1>3, <2>2, <2>3, <2>6, <2>7 DEF RowExists, Statuses, AwakeIsRunning
  <2>. QED BY <1>6, <2>2, <2>3, <2>4, <2>5, <2>6, <2>8, <2>9
<1>15. CASE AutoSleepCalls
  <2>1. /\ x.kind = "stop" /\ x.step = "call"
        /\ UNCHANGED <<computer, identity, machineToken, creation, doubt, missed>>
    BY <1>1, <1>15 DEF AutoSleepCalls
  <2>2. CASE /\ report.seen.known /\ Accepts("stop")
             /\ instance' = Effect("stop")
             /\ control' = [c \in Callers |-> Crossing("stop", control[c])]
             /\ report' = [report EXCEPT !.step = "write"]
    BY <1>1, <2>1, <2>2, AutoSleepTells
  <2>3. CASE report' = IdleRequest /\ UNCHANGED <<instance, control>>
    <3>1. doubt' \in BOOLEAN /\ identity' \in {"none", "bootstrap", "active", "revoked"}
      BY <1>3, <2>1 DEF ControlTyped
    <3>. QED BY <1>4, <1>5, <1>11, <2>1, <2>3, <3>1
  <2>. QED BY <1>15, <2>2, <2>3 DEF AutoSleepCalls
<1>16. CASE AutoSleepWrites
  <2>1. /\ x.kind = "stop" /\ x.step = "write" /\ WriteStatus("sleeping")
        /\ doubt' = x.crossed /\ report' = IdleRequest
        /\ UNCHANGED <<instance, identity, machineToken, creation, control, missed>>
    BY <1>1, <1>16 DEF AutoSleepWrites
  <2>2. /\ creation = "over" /\ instance # "none" /\ doubt' \in BOOLEAN
        /\ doubt' \/ instance \in {"stopping", "stopped", "terminated"}
        /\ machineToken' \in {"bootstrap", "machine"}
    BY <1>2, <1>3, <2>1 DEF ControlTyped, RequestIsSound
  <2>. QED BY <1>4, <1>6, <1>11, <2>1, <2>2
<1>. QED BY <1>8, <1>9, <1>10, <1>12, <1>13, <1>14, <1>15, <1>16

\* Every step of a user, of the machine, of the provider and of the control plane keeps it.
LEMMA ControlNextStep == ControlInv /\ [ControlNext]_controlVars => ControlInv'
<1>1. SUFFICES ASSUME ControlInv, [ControlNext]_controlVars PROVE ControlInv'
  OBVIOUS
<1>2. CASE UNCHANGED controlVars
  BY <1>1, <1>2
     DEF controlVars, ControlInv, ControlTyped, CreationIsFirst, RequestsAreTrue, RequestIsSound,
         AwakeIsRunning, NoneIsNew, SleepingIsStopped, NoneIsLost, Unwritten
<1>3. CASE ControlNext
  <2>1. CASE \/ PostComputer \/ CreateIdentity \/ ProvisionComputer \/ SaveMetadata
             \/ FailCreation \/ CreationBreaks \/ InstanceStops \/ RevokeIdentity
    BY <1>1, <2>1, CreationSteps
  <2>2. ASSUME NEW c \in Callers,
               \/ \E kind \in Kinds : ReadComputer(c, kind)
               \/ ReadUser(c) \/ TerminatesNothing(c) \/ CallsProvider(c)
               \/ ProviderRefuses(c) \/ TerminationFails(c) \/ WriteRow(c) \/ DeleteRow(c)
               \/ DeleteUser(c) \/ ControlBreaks(c)
        PROVE  ControlInv'
    BY <1>1, <2>2, CallsProviderStep, UserSteps
  <2>3. CASE \/ RegistrationArrives \/ ActivateIdentity \/ Registered \/ HeartbeatArrives
             \/ HeartbeatWrites \/ AutoSleepCalls \/ AutoSleepWrites \/ ReportBreaks
    BY <1>1, <2>3, MachineSteps
  <2>. QED BY <1>3, <2>1, <2>2, <2>3 DEF ControlNext
<1>. QED BY <1>1, <1>2, <1>3

\* The control plane by itself.
LEMMA ControlHolds == ControlInit /\ [][ControlNext]_controlVars => []ControlInv
BY ControlInitially, ControlNextStep, PTL

-----------------------------------------------------------------------------
(***************************************************************************)
(* MachineRelease.                                                         *)
(***************************************************************************)
ReleaseTyped ==
  /\ published \in Releases
  /\ manifest \in [version : Releases \cup {Nothing}, available : BOOLEAN]
  /\ current \in Releases \cup {Nothing, Itself}
  /\ machineVersion \in Releases \cup {Nothing, Itself}
  /\ releaseDir \in [Releases -> {"none", "whole", "damaged", "empty"}]
  /\ tempRelease \in [Releases -> {"none", "whole", "damaged", "empty"}]
  /\ migrated \in [Releases -> 0 .. Migrations]
  /\ server \in {"stopped", "failed", "starting", "up"}
  /\ step \in [Runs -> {"idle", "check", "fetch", "download", "place", "unlink", "link", "migrate",
                        "version", "restart", "restarting", "health"}]
  /\ release \in [Runs -> Releases \cup {Nothing}]
  /\ previous \in [Runs -> Releases \cup {Nothing, Itself}]
  /\ undo \in [Runs -> {"no", "migration", "release"}]
  /\ alone \in [Runs -> BOOLEAN] /\ disturbed \in BOOLEAN /\ hostFaults \in 0 .. MaxHostFaults

\* The unit starts while "latest" runs.  A run that was alone from its beginning still is, but
\* that the update waits for the one it made; so do two that have not disturbed each other.
RunsTakeTurns ==
  /\ server = "starting" <=> step["latest"] # "idle"
  /\ step["latest"] \notin {"restart", "restarting", "health"}
  /\ alone["latest"] => step["update"] = "idle"
  /\ alone["update"] => step["latest"] = "idle" \/ step["update"] = "restarting"
  /\ ~ disturbed => step["latest"] = "idle" \/ step["update"] \in {"idle", "restarting"}

\* What a run takes back, and when.
UndoIsLate ==
  /\ undo["latest"] # "release"
  /\ \A p \in Runs :
       /\ undo[p] = "migration" => step[p] \in {"unlink", "link"}
       /\ undo[p] = "release" => step[p] \in {"unlink", "link", "version", "restart", "restarting"}

\* A run that nothing disturbed finds the link as it left it.
LinkIsKept ==
  \A p \in Runs : alone[p] \/ ~ disturbed =>
    /\ step[p] = "link" => current = Nothing
    /\ step[p] = "migrate" => undo[p] = "no"
    /\ step[p] \in {"migrate", "version"} => current = Target(p)

\* Until the release is installed MACHINE_SERVER_VERSION names the one before, where the link
\* goes back to.
PreviousIsVersion ==
  ~ disturbed => \A p \in Runs :
    /\ \/ step[p] \in {"download", "place", "unlink", "link", "migrate"}
       \/ p = "latest" /\ step[p] = "fetch"
    /\ undo[p] # "release" /\ previous[p] \in Releases
    => machineVersion = previous[p]

\* The run has not touched the link, or has written down where it leads.
LinkIsWritten(p) ==
  \/ step[p] \in {"idle", "check", "fetch", "download", "place", "restart", "restarting", "health"}
  \/ step[p] = "unlink" /\ undo[p] = "no"

LinkIsVersion ==
  ~ disturbed /\ current \in Releases /\ (\A p \in Runs : LinkIsWritten(p)) =>
    machineVersion = current

ReleaseInv ==
  /\ ReleaseTyped /\ RunsTakeTurns /\ UndoIsLate /\ LinkIsKept /\ PreviousIsVersion /\ LinkIsVersion

\* The link to no release, and the one that leads to itself.
LEMMA Paths ==
  /\ Nothing \notin Releases /\ Itself \notin Releases /\ Nothing # Itself /\ 1 \in Releases
  /\ Runs = {"latest", "update"}
BY ReleaseAssumption DEF Nothing, Itself, Releases, Runs

\* The other run.
LEMMA OtherRun ==
  /\ (CHOOSE q \in Runs : q # "latest") = "update"
  /\ (CHOOSE q \in Runs : q # "update") = "latest"
<1>1. \E q \in Runs : q # "latest"
  BY DEF Runs
<1>2. \E q \in Runs : q # "update"
  BY DEF Runs
<1>. QED BY <1>1, <1>2 DEF Runs

\* A fault is counted.
LEMMA HostFaultCounted ==
  HostFault /\ hostFaults \in 0 .. MaxHostFaults => hostFaults' \in 0 .. MaxHostFaults
BY SMTT(30), ReleaseAssumption DEF HostFault

\* The types are kept by every step.
LEMMA TypesAreKept ==
  ASSUME ReleaseTyped, ReleaseNext
  PROVE  ReleaseTyped'
<1>. USE Paths DEF ReleaseTyped
<1>1. CASE ServerStarts
  BY <1>1, OtherRun DEF ServerStarts, Goes, Begins, disks, runVars
<1>2. CASE ServerCrashes
  <2>1. hostFaults' \in 0 .. MaxHostFaults
    BY <1>2, HostFaultCounted DEF ServerCrashes
  <2>. QED BY <1>2, <2>1 DEF ServerCrashes, disks, runVars, history
<1>3. CASE HeartbeatUpdates
  BY <1>3, OtherRun DEF HeartbeatUpdates, Goes, Begins, disks, runVars
<1>4. CASE HostReboots
  <2>1. hostFaults' \in 0 .. MaxHostFaults
    BY <1>4, HostFaultCounted DEF HostReboots
  <2>2. /\ release' \in [Runs -> Releases \cup {Nothing}]
        /\ previous' \in [Runs -> Releases \cup {Nothing, Itself}]
    BY <1>4 DEF HostReboots
  <2>3. disturbed' \in BOOLEAN
    BY <1>4 DEF HostReboots
  <2>. QED BY <1>4, <2>1, <2>2, <2>3 DEF HostReboots, disks
<1>5. CASE Publish
  <2>1. published' \in Releases
    BY <1>5, ReleaseAssumption DEF Publish, Releases
  <2>. QED BY <1>5, <2>1 DEF Publish, disks, runVars, history
<1>6. CASE LatestChecks
  BY <1>6 DEF LatestChecks, Ends, Goes, Resolved, disks, history
<1>7. CASE LatestFetches
  <2>1. manifest' \in [version : Releases \cup {Nothing}, available : BOOLEAN]
    <3>1. PICK b \in BOOLEAN : b = (machineVersion \notin {Nothing, published})
      OBVIOUS
    <3>2. manifest' = [version |-> published, available |-> b] \/ manifest' = manifest
      BY <1>7, <3>1 DEF LatestFetches, LatestRelease
    <3>. QED BY <3>2
  <2>2. manifest'.version \in Releases \cup {Nothing}
    BY <2>1
  <2>. QED
    BY <1>7, <2>1, <2>2 DEF LatestFetches, Ends, InstallRelease, Goes, disks, history
<1>8. CASE UpdateFetches
  <2>1. manifest' \in [version : Releases \cup {Nothing}, available : BOOLEAN]
    <3>1. PICK b \in BOOLEAN : b = (machineVersion \notin {Nothing, published})
      OBVIOUS
    <3>2. manifest' = [version |-> published, available |-> b] \/ manifest' = manifest
      BY <1>8, <3>1 DEF UpdateFetches, LatestRelease
    <3>. QED BY <3>2
  <2>2. manifest'.version \in Releases \cup {Nothing}
    BY <2>1
  <2>. QED
    BY <1>8, <2>1, <2>2 DEF UpdateFetches, Ends, InstallRelease, Goes, Resolved, disks, history
<1>9. CASE RestartMachineServer
  BY <1>9 DEF RestartMachineServer, disks, history
<1>10. CASE Restarted
  BY <1>10 DEF Restarted, Ends, RollbackRelease, Goes, runVars, history
<1>11. CASE Health
  BY <1>11 DEF Health, Ends, RollbackRelease, Goes, runVars, history
<1>12. ASSUME NEW p \in Runs, Download(p) PROVE ReleaseTyped'
  <2>1. tempRelease' \in [Releases -> {"none", "whole", "damaged", "empty"}]
    BY <1>12 DEF Download
  <2>. QED BY <1>12, <2>1 DEF Download, Goes, runVars, history
<1>13. ASSUME NEW p \in Runs, Place(p) PROVE ReleaseTyped'
  BY ZenonT(60), <1>13 DEF Place, Goes, runVars, history
<1>14. ASSUME NEW p \in Runs, Unlink(p) PROVE ReleaseTyped'
  BY <1>14 DEF Unlink, Goes, runVars, history
<1>15. ASSUME NEW p \in Runs, Link(p) PROVE ReleaseTyped'
  <2>1. CASE undo[p] = "no"
    BY <1>15, <2>1 DEF Link, Goes, Ends, Target, runVars, history
  <2>2. CASE undo[p] = "migration"
    BY <1>15, <2>2 DEF Link, Goes, Ends, Target, runVars, history
  <2>3. CASE undo[p] = "release"
    BY <1>15, <2>3 DEF Link, Goes, Ends, Target, runVars, history
  <2>. QED BY <2>1, <2>2, <2>3
<1>16. ASSUME NEW p \in Runs, Migrate(p) PROVE ReleaseTyped'
  <2>1. PICK v : v = release[p]
    OBVIOUS
  <2>2. migrated' \in [Releases -> 0 .. Migrations]
    <3>1. migrated' = [migrated EXCEPT ![v] = migrated[v] + 1] /\ migrated[v] < Migrations
      BY <1>16, <2>1 DEF Migrate
    <3>2. v \in Releases => migrated[v] + 1 \in 0 .. Migrations
      BY <3>1, ReleaseAssumption
    <3>. QED BY <3>1, <3>2
  <2>. QED BY ZenonT(60), <1>16, <2>2 DEF Migrate, runVars, history
<1>17. ASSUME NEW p \in Runs, MigrationFails(p) PROVE ReleaseTyped'
  BY <1>17 DEF MigrationFails, Goes, Ends, history
<1>18. ASSUME NEW p \in Runs, Migrated(p) PROVE ReleaseTyped'
  BY <1>18 DEF Migrated, Goes, disks, runVars, history
<1>19. ASSUME NEW p \in Runs, UpdateMachineVersion(p) PROVE ReleaseTyped'
  BY <1>19 DEF UpdateMachineVersion, Target, Goes, Ends, runVars
<1>. QED BY <1>1, <1>2, <1>3, <1>4, <1>5, <1>6, <1>7, <1>8, <1>9, <1>10, <1>11, <1>12, <1>13,
            <1>14, <1>15, <1>16, <1>17, <1>18, <1>19 DEF ReleaseNext

\* No run is alone, or undisturbed, beside another one that does not wait for it.
LEMMA TurnsAreKept ==
  ASSUME ReleaseInv, ReleaseNext, ReleaseTyped'
  PROVE  RunsTakeTurns'
<1>. USE Paths DEF ReleaseInv, ReleaseTyped
<1>1. CASE ServerStarts
  BY <1>1, OtherRun DEF RunsTakeTurns, ServerStarts, Goes, Begins, disks, runVars
<1>2. CASE ServerCrashes
  BY <1>2 DEF RunsTakeTurns, ServerCrashes, HostFault, disks, runVars, history
<1>3. CASE HeartbeatUpdates
  BY <1>3, OtherRun DEF RunsTakeTurns, HeartbeatUpdates, Goes, Begins, disks, runVars
<1>4. CASE HostReboots
  BY <1>4 DEF RunsTakeTurns, HostReboots, HostFault, disks
<1>5. CASE Publish
  BY <1>5 DEF RunsTakeTurns, Publish, disks, runVars, history
<1>6. CASE LatestChecks
  BY <1>6 DEF RunsTakeTurns, LatestChecks, Ends, Goes, disks, history
<1>7. CASE LatestFetches
  BY <1>7
     DEF RunsTakeTurns, LatestFetches, LatestRelease, Ends, InstallRelease, Goes, disks, history
<1>8. CASE UpdateFetches
  BY <1>8
     DEF RunsTakeTurns, UpdateFetches, LatestRelease, Ends, InstallRelease, Goes, disks, history
<1>9. CASE RestartMachineServer
  BY <1>9 DEF RunsTakeTurns, RestartMachineServer, disks, history
<1>10. CASE Restarted
  BY <1>10 DEF RunsTakeTurns, Restarted, Ends, RollbackRelease, Goes, runVars, history
<1>11. CASE Health
  BY <1>11 DEF RunsTakeTurns, Health, Ends, RollbackRelease, Goes, runVars, history
<1>12. ASSUME NEW p \in Runs, Download(p) PROVE RunsTakeTurns'
  BY <1>12 DEF RunsTakeTurns, Download, Goes, runVars, history
<1>13. ASSUME NEW p \in Runs, Place(p) PROVE RunsTakeTurns'
  BY <1>13 DEF RunsTakeTurns, Place, Goes, runVars, history
<1>14. ASSUME NEW p \in Runs, Unlink(p) PROVE RunsTakeTurns'
  BY <1>14 DEF RunsTakeTurns, Unlink, Goes, runVars, history
<1>15. ASSUME NEW p \in Runs, Link(p) PROVE RunsTakeTurns'
  <2>1. CASE undo[p] = "no"
    BY <1>15, <2>1 DEF RunsTakeTurns, Link, Goes, Ends, Target, runVars, history
  <2>2. CASE undo[p] = "migration"
    BY <1>15, <2>2 DEF RunsTakeTurns, Link, Goes, Ends, Target, runVars, history
  <2>3. CASE undo[p] = "release"
    BY <1>15, <2>3 DEF RunsTakeTurns, Link, Goes, Ends, Target, runVars, history
  <2>. QED BY <2>1, <2>2, <2>3
<1>16. ASSUME NEW p \in Runs, Migrate(p) PROVE RunsTakeTurns'
  BY <1>16 DEF RunsTakeTurns, Migrate, runVars, history
<1>17. ASSUME NEW p \in Runs, MigrationFails(p) PROVE RunsTakeTurns'
  BY <1>17 DEF RunsTakeTurns, MigrationFails, Goes, Ends, history
<1>18. ASSUME NEW p \in Runs, Migrated(p) PROVE RunsTakeTurns'
  BY <1>18 DEF RunsTakeTurns, Migrated, Goes, disks, runVars, history
<1>19. ASSUME NEW p \in Runs, UpdateMachineVersion(p) PROVE RunsTakeTurns'
  BY <1>19 DEF RunsTakeTurns, UpdateMachineVersion, Target, Goes, Ends, runVars
<1>. QED BY <1>1, <1>2, <1>3, <1>4, <1>5, <1>6, <1>7, <1>8, <1>9, <1>10, <1>11, <1>12, <1>13,
            <1>14, <1>15, <1>16, <1>17, <1>18, <1>19 DEF ReleaseNext

\* A run takes back its link, and an update what it installed.
LEMMA UndoIsKept ==
  ASSUME ReleaseInv, ReleaseNext, ReleaseTyped'
  PROVE  UndoIsLate'
<1>. USE Paths DEF ReleaseInv, ReleaseTyped
<1>1. CASE ServerStarts
  BY <1>1, OtherRun DEF UndoIsLate, RunsTakeTurns, ServerStarts, Goes, Begins, disks, runVars
<1>2. CASE ServerCrashes
  BY <1>2 DEF UndoIsLate, RunsTakeTurns, ServerCrashes, HostFault, disks, runVars, history
<1>3. CASE HeartbeatUpdates
  BY <1>3, OtherRun DEF UndoIsLate, RunsTakeTurns, HeartbeatUpdates, Goes, Begins, disks, runVars
<1>4. CASE HostReboots
  BY <1>4 DEF UndoIsLate, RunsTakeTurns, HostReboots, HostFault, disks
<1>5. CASE Publish
  BY <1>5 DEF UndoIsLate, RunsTakeTurns, Publish, disks, runVars, history
<1>6. CASE LatestChecks
  BY <1>6 DEF UndoIsLate, RunsTakeTurns, LatestChecks, Ends, Goes, disks, history
<1>7. CASE LatestFetches
  BY <1>7
     DEF UndoIsLate, RunsTakeTurns, LatestFetches, LatestRelease, Ends, InstallRelease, Goes,
         disks, history
<1>8. CASE UpdateFetches
  BY <1>8
     DEF UndoIsLate, RunsTakeTurns, UpdateFetches, LatestRelease, Ends, InstallRelease, Goes,
         disks, history
<1>9. CASE RestartMachineServer
  BY <1>9 DEF UndoIsLate, RunsTakeTurns, RestartMachineServer, disks, history
<1>10. CASE Restarted
  BY <1>10 DEF UndoIsLate, RunsTakeTurns, Restarted, Ends, RollbackRelease, Goes, runVars, history
<1>11. CASE Health
  BY <1>11 DEF UndoIsLate, RunsTakeTurns, Health, Ends, RollbackRelease, Goes, runVars, history
<1>12. ASSUME NEW p \in Runs, Download(p) PROVE UndoIsLate'
  BY <1>12 DEF UndoIsLate, RunsTakeTurns, Download, Goes, runVars, history
<1>13. ASSUME NEW p \in Runs, Place(p) PROVE UndoIsLate'
  BY <1>13 DEF UndoIsLate, RunsTakeTurns, Place, Goes, runVars, history
<1>14. ASSUME NEW p \in Runs, Unlink(p) PROVE UndoIsLate'
  BY <1>14 DEF UndoIsLate, RunsTakeTurns, Unlink, Goes, runVars, history
<1>15. ASSUME NEW p \in Runs, Link(p) PROVE UndoIsLate'
  <2>1. CASE undo[p] = "no"
    BY <1>15, <2>1 DEF UndoIsLate, RunsTakeTurns, Link, Goes, Ends, Target, runVars, history
  <2>2. CASE undo[p] = "migration"
    BY <1>15, <2>2 DEF UndoIsLate, RunsTakeTurns, Link, Goes, Ends, Target, runVars, history
  <2>3. CASE undo[p] = "release"
    BY <1>15, <2>3 DEF UndoIsLate, RunsTakeTurns, Link, Goes, Ends, Target, runVars, history
  <2>. QED BY <2>1, <2>2, <2>3
<1>16. ASSUME NEW p \in Runs, Migrate(p) PROVE UndoIsLate'
  BY <1>16 DEF UndoIsLate, RunsTakeTurns, Migrate, runVars, history
<1>17. ASSUME NEW p \in Runs, MigrationFails(p) PROVE UndoIsLate'
  BY <1>17 DEF UndoIsLate, RunsTakeTurns, MigrationFails, Goes, Ends, history
<1>18. ASSUME NEW p \in Runs, Migrated(p) PROVE UndoIsLate'
  BY <1>18 DEF UndoIsLate, RunsTakeTurns, Migrated, Goes, disks, runVars, history
<1>19. ASSUME NEW p \in Runs, UpdateMachineVersion(p) PROVE UndoIsLate'
  BY <1>19 DEF UndoIsLate, RunsTakeTurns, UpdateMachineVersion, Target, Goes, Ends, runVars
<1>. QED BY <1>1, <1>2, <1>3, <1>4, <1>5, <1>6, <1>7, <1>8, <1>9, <1>10, <1>11, <1>12, <1>13,
            <1>14, <1>15, <1>16, <1>17, <1>18, <1>19 DEF ReleaseNext

\* A run that is undisturbed finds its link.
LEMMA LinkStays ==
  ASSUME ReleaseInv, ReleaseNext, ReleaseTyped'
  PROVE  LinkIsKept'
<1>. USE Paths DEF ReleaseInv, ReleaseTyped
<1>1. CASE ServerStarts
  BY <1>1, OtherRun
     DEF LinkIsKept, RunsTakeTurns, UndoIsLate, Target, ServerStarts, Goes, Begins, disks, runVars
<1>2. CASE ServerCrashes
  BY <1>2
     DEF LinkIsKept, RunsTakeTurns, UndoIsLate, Target, ServerCrashes, HostFault, disks, runVars,
         history
<1>3. CASE HeartbeatUpdates
  BY <1>3, OtherRun
     DEF LinkIsKept, RunsTakeTurns, UndoIsLate, Target, HeartbeatUpdates, Goes, Begins, disks,
         runVars
<1>4. CASE HostReboots
  BY <1>4 DEF LinkIsKept, RunsTakeTurns, UndoIsLate, Target, HostReboots, HostFault, disks
<1>5. CASE Publish
  BY <1>5 DEF LinkIsKept, RunsTakeTurns, UndoIsLate, Target, Publish, disks, runVars, history
<1>6. CASE LatestChecks
  BY <1>6
     DEF LinkIsKept, RunsTakeTurns, UndoIsLate, Target, LatestChecks, Ends, Goes, disks, history
<1>7. CASE LatestFetches
  BY <1>7
     DEF LinkIsKept, RunsTakeTurns, UndoIsLate, Target, LatestFetches, LatestRelease, Ends,
         InstallRelease, Goes, disks, history
<1>8. CASE UpdateFetches
  BY <1>8
     DEF LinkIsKept, RunsTakeTurns, UndoIsLate, Target, UpdateFetches, LatestRelease, Ends,
         InstallRelease, Goes, disks, history
<1>9. CASE RestartMachineServer
  BY <1>9 DEF LinkIsKept, RunsTakeTurns, UndoIsLate, Target, RestartMachineServer, disks, history
<1>10. CASE Restarted
  BY <1>10
     DEF LinkIsKept, RunsTakeTurns, UndoIsLate, Target, Restarted, Ends, RollbackRelease, Goes,
         runVars, history
<1>11. CASE Health
  BY <1>11
     DEF LinkIsKept, RunsTakeTurns, UndoIsLate, Target, Health, Ends, RollbackRelease, Goes,
         runVars, history
<1>12. ASSUME NEW p \in Runs, Download(p) PROVE LinkIsKept'
  BY <1>12 DEF LinkIsKept, RunsTakeTurns, UndoIsLate, Target, Download, Goes, runVars, history
<1>13. ASSUME NEW p \in Runs, Place(p) PROVE LinkIsKept'
  BY <1>13 DEF LinkIsKept, RunsTakeTurns, UndoIsLate, Target, Place, Goes, runVars, history
<1>14. ASSUME NEW p \in Runs, Unlink(p) PROVE LinkIsKept'
  BY <1>14 DEF LinkIsKept, RunsTakeTurns, UndoIsLate, Target, Unlink, Goes, runVars, history
<1>15. ASSUME NEW p \in Runs, Link(p) PROVE LinkIsKept'
  <2>1. CASE undo[p] = "no"
    BY <1>15, <2>1
       DEF LinkIsKept, RunsTakeTurns, UndoIsLate, Target, Link, Goes, Ends, runVars, history
  <2>2. CASE undo[p] = "migration"
    BY <1>15, <2>2
       DEF LinkIsKept, RunsTakeTurns, UndoIsLate, Target, Link, Goes, Ends, runVars, history
  <2>3. CASE undo[p] = "release"
    BY <1>15, <2>3
       DEF LinkIsKept, RunsTakeTurns, UndoIsLate, Target, Link, Goes, Ends, runVars, history
  <2>. QED BY <2>1, <2>2, <2>3
<1>16. ASSUME NEW p \in Runs, Migrate(p) PROVE LinkIsKept'
  BY <1>16 DEF LinkIsKept, RunsTakeTurns, UndoIsLate, Target, Migrate, runVars, history
<1>17. ASSUME NEW p \in Runs, MigrationFails(p) PROVE LinkIsKept'
  BY <1>17 DEF LinkIsKept, RunsTakeTurns, UndoIsLate, Target, MigrationFails, Goes, Ends, history
<1>18. ASSUME NEW p \in Runs, Migrated(p) PROVE LinkIsKept'
  BY <1>18
     DEF LinkIsKept, RunsTakeTurns, UndoIsLate, Target, Migrated, Goes, disks, runVars, history
<1>19. ASSUME NEW p \in Runs, UpdateMachineVersion(p) PROVE LinkIsKept'
  BY <1>19
     DEF LinkIsKept, RunsTakeTurns, UndoIsLate, Target, UpdateMachineVersion, Goes, Ends, runVars
<1>. QED BY <1>1, <1>2, <1>3, <1>4, <1>5, <1>6, <1>7, <1>8, <1>9, <1>10, <1>11, <1>12, <1>13,
            <1>14, <1>15, <1>16, <1>17, <1>18, <1>19 DEF ReleaseNext

\* What a run goes back to is what MACHINE_SERVER_VERSION names.
LEMMA PreviousStays ==
  ASSUME ReleaseInv, ReleaseNext, ReleaseTyped'
  PROVE  PreviousIsVersion'
<1>. USE Paths DEF ReleaseInv, ReleaseTyped
<1>1. CASE ServerStarts
  BY <1>1, OtherRun
     DEF PreviousIsVersion, RunsTakeTurns, UndoIsLate, LinkIsVersion, LinkIsWritten, ServerStarts,
         Goes, Begins, disks, runVars
<1>2. CASE ServerCrashes
  BY <1>2
     DEF PreviousIsVersion, RunsTakeTurns, UndoIsLate, LinkIsVersion, LinkIsWritten,
         ServerCrashes, HostFault, disks, runVars, history
<1>3. CASE HeartbeatUpdates
  BY <1>3, OtherRun
     DEF PreviousIsVersion, RunsTakeTurns, UndoIsLate, LinkIsVersion, LinkIsWritten,
         HeartbeatUpdates, Goes, Begins, disks, runVars
<1>4. CASE HostReboots
  BY <1>4
     DEF PreviousIsVersion, RunsTakeTurns, UndoIsLate, LinkIsVersion, LinkIsWritten, HostReboots,
         HostFault, disks
<1>5. CASE Publish
  BY <1>5
     DEF PreviousIsVersion, RunsTakeTurns, UndoIsLate, LinkIsVersion, LinkIsWritten, Publish,
         disks, runVars, history
<1>6. CASE LatestChecks
  BY <1>6
     DEF PreviousIsVersion, RunsTakeTurns, UndoIsLate, LinkIsVersion, LinkIsWritten, LatestChecks,
         Ends, Goes, Resolved, disks, history
<1>7. CASE LatestFetches
  BY <1>7
     DEF PreviousIsVersion, RunsTakeTurns, UndoIsLate, LinkIsVersion, LinkIsWritten,
         LatestFetches, LatestRelease, Ends, InstallRelease, Goes, disks, history
<1>8. CASE UpdateFetches
  BY <1>8
     DEF PreviousIsVersion, RunsTakeTurns, UndoIsLate, LinkIsVersion, LinkIsWritten,
         UpdateFetches, LatestRelease, Ends, InstallRelease, Goes, Resolved, disks, history
<1>9. CASE RestartMachineServer
  BY <1>9
     DEF PreviousIsVersion, RunsTakeTurns, UndoIsLate, LinkIsVersion, LinkIsWritten,
         RestartMachineServer, disks, history
<1>10. CASE Restarted
  BY <1>10
     DEF PreviousIsVersion, RunsTakeTurns, UndoIsLate, LinkIsVersion, LinkIsWritten, Restarted,
         Ends, RollbackRelease, Goes, runVars, history
<1>11. CASE Health
  BY <1>11
     DEF PreviousIsVersion, RunsTakeTurns, UndoIsLate, LinkIsVersion, LinkIsWritten, Health, Ends,
         RollbackRelease, Goes, runVars, history
<1>12. ASSUME NEW p \in Runs, Download(p) PROVE PreviousIsVersion'
  BY <1>12
     DEF PreviousIsVersion, RunsTakeTurns, UndoIsLate, LinkIsVersion, LinkIsWritten, Download,
         Goes, runVars, history
<1>13. ASSUME NEW p \in Runs, Place(p) PROVE PreviousIsVersion'
  BY <1>13
     DEF PreviousIsVersion, RunsTakeTurns, UndoIsLate, LinkIsVersion, LinkIsWritten, Place, Goes,
         runVars, history
<1>14. ASSUME NEW p \in Runs, Unlink(p) PROVE PreviousIsVersion'
  BY <1>14
     DEF PreviousIsVersion, RunsTakeTurns, UndoIsLate, LinkIsVersion, LinkIsWritten, Unlink, Goes,
         runVars, history
<1>15. ASSUME NEW p \in Runs, Link(p) PROVE PreviousIsVersion'
  <2>1. CASE undo[p] = "no"
    BY <1>15, <2>1
       DEF PreviousIsVersion, RunsTakeTurns, UndoIsLate, LinkIsVersion, LinkIsWritten, Link, Goes,
           Ends, Target, runVars, history
  <2>2. CASE undo[p] = "migration"
    BY <1>15, <2>2
       DEF PreviousIsVersion, RunsTakeTurns, UndoIsLate, LinkIsVersion, LinkIsWritten, Link, Goes,
           Ends, Target, runVars, history
  <2>3. CASE undo[p] = "release"
    BY <1>15, <2>3
       DEF PreviousIsVersion, RunsTakeTurns, UndoIsLate, LinkIsVersion, LinkIsWritten, Link, Goes,
           Ends, Target, runVars, history
  <2>. QED BY <2>1, <2>2, <2>3
<1>16. ASSUME NEW p \in Runs, Migrate(p) PROVE PreviousIsVersion'
  BY <1>16
     DEF PreviousIsVersion, RunsTakeTurns, UndoIsLate, LinkIsVersion, LinkIsWritten, Migrate,
         runVars, history
<1>17. ASSUME NEW p \in Runs, MigrationFails(p) PROVE PreviousIsVersion'
  BY <1>17
     DEF PreviousIsVersion, RunsTakeTurns, UndoIsLate, LinkIsVersion, LinkIsWritten,
         MigrationFails, Goes, Ends, history
<1>18. ASSUME NEW p \in Runs, Migrated(p) PROVE PreviousIsVersion'
  BY <1>18
     DEF PreviousIsVersion, RunsTakeTurns, UndoIsLate, LinkIsVersion, LinkIsWritten, Migrated,
         Goes, disks, runVars, history
<1>19. ASSUME NEW p \in Runs, UpdateMachineVersion(p) PROVE PreviousIsVersion'
  BY <1>19
     DEF PreviousIsVersion, RunsTakeTurns, UndoIsLate, LinkIsVersion, LinkIsWritten,
         UpdateMachineVersion, Target, Goes, Ends, runVars
<1>. QED BY <1>1, <1>2, <1>3, <1>4, <1>5, <1>6, <1>7, <1>8, <1>9, <1>10, <1>11, <1>12, <1>13,
            <1>14, <1>15, <1>16, <1>17, <1>18, <1>19 DEF ReleaseNext

\* A run that touched the link ends with the version written, or with the link put back.
LEMMA VersionFollows ==
  ASSUME ReleaseInv, ReleaseNext, ReleaseTyped'
  PROVE  LinkIsVersion'
<1>. USE Paths DEF ReleaseInv, ReleaseTyped
<1>1. CASE ServerStarts
  BY <1>1, OtherRun
     DEF LinkIsVersion, PreviousIsVersion, RunsTakeTurns, UndoIsLate, LinkIsKept, Target,
         LinkIsWritten, ServerStarts, Goes, Begins, disks, runVars
<1>2. CASE ServerCrashes
  BY <1>2
     DEF LinkIsVersion, PreviousIsVersion, RunsTakeTurns, UndoIsLate, LinkIsKept, Target,
         LinkIsWritten, ServerCrashes, HostFault, disks, runVars, history
<1>3. CASE HeartbeatUpdates
  BY <1>3, OtherRun
     DEF LinkIsVersion, PreviousIsVersion, RunsTakeTurns, UndoIsLate, LinkIsKept, Target,
         LinkIsWritten, HeartbeatUpdates, Goes, Begins, disks, runVars
<1>4. CASE HostReboots
  BY ZenonT(60), <1>4
     DEF LinkIsVersion, PreviousIsVersion, RunsTakeTurns, UndoIsLate, LinkIsKept, Target,
         LinkIsWritten, HostReboots, HostFault, disks
<1>5. CASE Publish
  BY <1>5
     DEF LinkIsVersion, PreviousIsVersion, RunsTakeTurns, UndoIsLate, LinkIsKept, Target,
         LinkIsWritten, Publish, disks, runVars, history
<1>6. CASE LatestChecks
  BY <1>6
     DEF LinkIsVersion, PreviousIsVersion, RunsTakeTurns, UndoIsLate, LinkIsKept, Target,
         LinkIsWritten, LatestChecks, Ends, Goes, disks, history
<1>7. CASE LatestFetches
  BY <1>7
     DEF LinkIsVersion, PreviousIsVersion, RunsTakeTurns, UndoIsLate, LinkIsKept, Target,
         LinkIsWritten, LatestFetches, LatestRelease, Ends, InstallRelease, Goes, disks, history
<1>8. CASE UpdateFetches
  BY <1>8
     DEF LinkIsVersion, PreviousIsVersion, RunsTakeTurns, UndoIsLate, LinkIsKept, Target,
         LinkIsWritten, UpdateFetches, LatestRelease, Ends, InstallRelease, Goes, disks, history
<1>9. CASE RestartMachineServer
  BY <1>9
     DEF LinkIsVersion, PreviousIsVersion, RunsTakeTurns, UndoIsLate, LinkIsKept, Target,
         LinkIsWritten, RestartMachineServer, disks, history
<1>10. CASE Restarted
  BY <1>10
     DEF LinkIsVersion, PreviousIsVersion, RunsTakeTurns, UndoIsLate, LinkIsKept, Target,
         LinkIsWritten, Restarted, Ends, RollbackRelease, Goes, runVars, history
<1>11. CASE Health
  BY <1>11
     DEF LinkIsVersion, PreviousIsVersion, RunsTakeTurns, UndoIsLate, LinkIsKept, Target,
         LinkIsWritten, Health, Ends, RollbackRelease, Goes, runVars, history
<1>12. ASSUME NEW p \in Runs, Download(p) PROVE LinkIsVersion'
  BY <1>12
     DEF LinkIsVersion, PreviousIsVersion, RunsTakeTurns, UndoIsLate, LinkIsKept, Target,
         LinkIsWritten, Download, Goes, runVars, history
<1>13. ASSUME NEW p \in Runs, Place(p) PROVE LinkIsVersion'
  BY <1>13
     DEF LinkIsVersion, PreviousIsVersion, RunsTakeTurns, UndoIsLate, LinkIsKept, Target,
         LinkIsWritten, Place, Goes, runVars, history
<1>14. ASSUME NEW p \in Runs, Unlink(p) PROVE LinkIsVersion'
  BY <1>14
     DEF LinkIsVersion, PreviousIsVersion, RunsTakeTurns, UndoIsLate, LinkIsKept, Target,
         LinkIsWritten, Unlink, Goes, runVars, history
<1>15. ASSUME NEW p \in Runs, Link(p) PROVE LinkIsVersion'
  <2>1. CASE undo[p] = "no"
    BY <1>15, <2>1
       DEF LinkIsVersion, PreviousIsVersion, RunsTakeTurns, UndoIsLate, LinkIsKept, Target,
           LinkIsWritten, Link, Goes, Ends, runVars, history
  <2>2. CASE undo[p] = "migration"
    BY <1>15, <2>2
       DEF LinkIsVersion, PreviousIsVersion, RunsTakeTurns, UndoIsLate, LinkIsKept, Target,
           LinkIsWritten, Link, Goes, Ends, runVars, history
  <2>3. CASE undo[p] = "release"
    BY <1>15, <2>3
       DEF LinkIsVersion, PreviousIsVersion, RunsTakeTurns, UndoIsLate, LinkIsKept, Target,
           LinkIsWritten, Link, Goes, Ends, runVars, history
  <2>. QED BY <2>1, <2>2, <2>3
<1>16. ASSUME NEW p \in Runs, Migrate(p) PROVE LinkIsVersion'
  BY <1>16
     DEF LinkIsVersion, PreviousIsVersion, RunsTakeTurns, UndoIsLate, LinkIsKept, Target,
         LinkIsWritten, Migrate, runVars, history
<1>17. ASSUME NEW p \in Runs, MigrationFails(p) PROVE LinkIsVersion'
  BY <1>17
     DEF LinkIsVersion, PreviousIsVersion, RunsTakeTurns, UndoIsLate, LinkIsKept, Target,
         LinkIsWritten, MigrationFails, Goes, Ends, history
<1>18. ASSUME NEW p \in Runs, Migrated(p) PROVE LinkIsVersion'
  BY <1>18
     DEF LinkIsVersion, PreviousIsVersion, RunsTakeTurns, UndoIsLate, LinkIsKept, Target,
         LinkIsWritten, Migrated, Goes, disks, runVars, history
<1>19. ASSUME NEW p \in Runs, UpdateMachineVersion(p) PROVE LinkIsVersion'
  BY <1>19
     DEF LinkIsVersion, PreviousIsVersion, RunsTakeTurns, UndoIsLate, LinkIsKept, Target,
         LinkIsWritten, UpdateMachineVersion, Goes, Ends, runVars
<1>. QED BY <1>1, <1>2, <1>3, <1>4, <1>5, <1>6, <1>7, <1>8, <1>9, <1>10, <1>11, <1>12, <1>13,
            <1>14, <1>15, <1>16, <1>17, <1>18, <1>19 DEF ReleaseNext

\* Nothing is installed yet.
LEMMA ReleaseInitially == ReleaseInit => ReleaseInv
<1>1. SUFFICES ASSUME ReleaseInit PROVE ReleaseInv
  OBVIOUS
<1>. USE Paths
<1>2. 0 \in 0 .. Migrations /\ 0 \in 0 .. MaxHostFaults
  BY ReleaseAssumption
<1>3. /\ releaseDir \in [Releases -> {"none", "whole", "damaged", "empty"}]
      /\ tempRelease \in [Releases -> {"none", "whole", "damaged", "empty"}]
      /\ migrated \in [Releases -> 0 .. Migrations]
  BY <1>1, <1>2 DEF ReleaseInit
<1>4. /\ step \in [Runs -> {"idle"}] /\ alone \in [Runs -> {FALSE}] /\ undo \in [Runs -> {"no"}]
      /\ release \in [Runs -> {Nothing}] /\ previous \in [Runs -> {Nothing}]
  BY <1>1 DEF ReleaseInit
<1>5. ReleaseTyped
  BY <1>1, <1>2, <1>3, <1>4 DEF ReleaseInit, ReleaseTyped
<1>6. RunsTakeTurns /\ UndoIsLate /\ LinkIsKept /\ PreviousIsVersion /\ LinkIsVersion
  BY <1>1, <1>4 DEF ReleaseInit, RunsTakeTurns, UndoIsLate, LinkIsKept, PreviousIsVersion,
              LinkIsVersion
<1>. QED BY <1>5, <1>6 DEF ReleaseInv

\* The types and the version that is promised follow from the inductive invariant.
LEMMA ReleaseFollows == ReleaseInv => ReleaseTypeOK /\ VersionIsCurrent
BY DEF ReleaseInv, ReleaseTyped, ReleaseTypeOK, LinkIsVersion, LinkIsWritten, VersionIsCurrent

\* Every step of the runs, of systemd and of the host keeps it.
LEMMA ReleaseNextStep == ReleaseInv /\ [ReleaseNext]_releaseVars => ReleaseInv'
<1>1. SUFFICES ASSUME ReleaseInv, [ReleaseNext]_releaseVars PROVE ReleaseInv'
  OBVIOUS
<1>2. CASE UNCHANGED releaseVars
  BY <1>1, <1>2
     DEF releaseVars, disks, runVars, history, ReleaseInv, ReleaseTyped, RunsTakeTurns, UndoIsLate,
         LinkIsKept, Target, PreviousIsVersion, LinkIsVersion, LinkIsWritten
<1>3. CASE ReleaseNext
  <2>1. ReleaseTyped'
    BY <1>1, <1>3, TypesAreKept DEF ReleaseInv
  <2>. QED BY <1>1, <1>3, <2>1, TurnsAreKept, UndoIsKept, LinkStays,
              PreviousStays, VersionFollows DEF ReleaseInv
<1>. QED BY <1>1, <1>2, <1>3

\* The releases by themselves.
LEMMA ReleaseHolds == ReleaseSpec => []ReleaseInv
BY ReleaseInitially, ReleaseNextStep, PTL DEF ReleaseSpec

-----------------------------------------------------------------------------
(***************************************************************************)
(* Browser control on the machine: clients, the requests they work on, and *)
(* the files that outputs are written to.                                  *)
(***************************************************************************)
\* The types, each variable's by itself.
BrowserTyped ==
  /\ connection \in [Clients -> {"none", "open", "ready", "closing"}]
  /\ seen \in Seq(Clients)
  /\ request \in [Requests -> {"new", "retrying", "pending", "ok", "error"}]
  /\ owner \in [Requests -> Clients \cup {NoClient}]
  /\ tries \in [Requests -> 0 .. Retries]
  /\ executor \in [Requests -> {"none", "working", "waiting", "failed"}]
  /\ acked \in [Requests -> 0 .. Chunks]
  /\ handler \in [Requests -> {"idle", "open", "write", "close", "rename"}]
  /\ file \in [Requests -> BOOLEAN] /\ outputDone \in [Requests -> BOOLEAN]
  /\ bytesWritten \in [Requests -> 0 .. Chunks]
  /\ temp \in [Requests -> 0 .. Absent] /\ target \in [Requests -> 0 .. Absent]
  /\ cleanup \in [Requests -> {"none", "closing", "removing", "done"}]
  /\ fileFaults \in 0 .. MaxFileFaults

\* An attached client was seen.
ClientsAreSeen == \A c \in Clients : connection[c] # "none" => Contains(seen, c)

\* A request that is pending has a client that is attached; one that a client works on is
\* pending, and the client's websocket is open.
Attended == \A r \in Requests :
  /\ request[r] = "pending" => owner[r] \in Clients /\ connection[owner[r]] # "none"
  /\ executor[r] # "none" => request[r] = "pending" /\ connection[owner[r]] \in {"open", "ready"}
  /\ request[r] \in {"new", "retrying"} => handler[r] = "idle"

\* A client waits while the chunk it sent is handled, and only then; the handler goes on without
\* it.  What was acknowledged is written, and the last chunk is where it belongs before that.
ChunksAreCounted == \A r \in Requests :
  /\ executor[r] = "waiting" => handler[r] # "idle"
  /\ handler[r] # "idle" => executor[r] \in {"waiting", "none"}
  /\ handler[r] \in {"open", "write"} => bytesWritten[r] < Chunks
  /\ handler[r] \in {"open", "write"} /\ executor[r] = "waiting" => acked[r] = bytesWritten[r]
  /\ handler[r] \in {"close", "rename"} => bytesWritten[r] = Chunks /\ temp[r] \in {Chunks, Absent}
  /\ handler[r] \in {"close", "rename"} /\ executor[r] = "waiting" => acked[r] < Chunks
  /\ acked[r] = Chunks => target[r] = Chunks

BrowserInv == BrowserTyped /\ ClientsAreSeen /\ Attended /\ ChunksAreCounted /\ OkMeansWritten

\* The numbers of chunks.
LEMMA ChunkNumbers ==
  /\ Chunks \in Nat /\ Chunks # 0 /\ Retries \in Nat /\ MaxFileFaults \in Nat
  /\ Absent = Chunks + 1 /\ Absent \in 0 .. Absent /\ 0 \in 0 .. Absent /\ Absent # Chunks
  /\ 0 \in 0 .. Chunks
BY ChunkAssumption DEF Absent

\* Without a client the others are left.
LEMMA OthersAreSeen ==
  ASSUME BrowserTyped, NEW c \in Clients
  PROVE  /\ Others(c) \in Seq(Clients)
         /\ \A x \in Clients : Contains(Others(c), x) <=> Contains(seen, x) /\ x # c
<1>1. seen \in Seq(Clients)
  BY DEF BrowserTyped
<1>2. PICK o : o = Filter(seen, Clients \ {c})
  OBVIOUS
<1>3. /\ o \in Seq(Clients)
      /\ \A x : Contains(o, x) <=> Contains(seen, x) /\ x \in Clients \ {c}
  BY <1>1, <1>2, FilterElements
<1>. QED BY <1>2, <1>3 DEF Others

\* Who was heard of is the last one seen.
LEMMA TouchedIsSeen ==
  ASSUME BrowserTyped, NEW c \in Clients
  PROVE  /\ Touched(c) \in Seq(Clients)
         /\ \A x \in Clients : Contains(seen, x) \/ x = c => Contains(Touched(c), x)
<1>1. PICK o : o = Others(c)
  OBVIOUS
<1>2. /\ o \in Seq(Clients)
      /\ \A x \in Clients : Contains(o, x) <=> Contains(seen, x) /\ x # c
  BY <1>1, OthersAreSeen
<1>3. /\ Append(o, c) \in Seq(Clients)
      /\ \A x : Contains(Append(o, c), x) <=> Contains(o, x) \/ x = c
  BY <1>2, AppendElements
<1>. QED BY <1>1, <1>2, <1>3 DEF Touched

\* Among clients that were seen there is one that was seen last.
LEMMA SelectedIsReady ==
  ASSUME BrowserTyped, ClientsAreSeen, Ready # {}
  PROVE  Selected \in Clients /\ connection[Selected] = "ready"
<1>1. Len(seen) \in Nat /\ DOMAIN seen = 1 .. Len(seen)
  BY LenProperties DEF BrowserTyped
<1>2. PICK at : at = [c \in Ready |-> CHOOSE i \in DOMAIN seen : seen[i] = c]
  OBVIOUS
<1>3. \A c \in Ready : at[c] \in 1 .. Len(seen)
  BY <1>1, <1>2 DEF Ready, ClientsAreSeen, Contains
<1>4. \A c \in Ready : at[c] \in Nat /\ Len(seen) - at[c] \in Nat
  BY <1>1, <1>3
<1>5. PICK S : S = {Len(seen) - at[c] : c \in Ready}
  OBVIOUS
<1>6. S \in SUBSET Nat /\ S # {}
  BY <1>4, <1>5
<1>7. PICK c \in Ready : \A n \in S : Len(seen) - at[c] <= n
  <2>1. PICK m \in S : \A n \in S : m <= n
    BY <1>6, LeastNumber
  <2>. QED BY <1>5, <2>1
<1>8. ASSUME NEW d \in Ready PROVE at[d] <= at[c]
  <2>1. Len(seen) - at[c] <= Len(seen) - at[d]
    BY <1>5, <1>7
  <2>. QED BY <1>1, <1>4, <2>1
<1>9. Selected \in Ready
  BY <1>2, <1>8 DEF Selected
<1>. QED BY <1>9 DEF Ready

\* What execute() does once it has looked for a client.
LEMMA Dispatched ==
  ASSUME BrowserTyped, ClientsAreSeen, NEW r \in Requests, Dispatch(r)
  PROVE  \/ /\ request' \in {[request EXCEPT ![r] = "error"], [request EXCEPT ![r] = "retrying"]}
            /\ tries' \in [Requests -> 0 .. Retries] /\ UNCHANGED <<owner, executor>>
         \/ \E c \in Clients :
              /\ connection[c] = "ready" /\ UNCHANGED tries
              /\ request' = [request EXCEPT ![r] = "pending"]
              /\ owner' = [owner EXCEPT ![r] = c]
              /\ executor' = [executor EXCEPT ![r] = "working"]
<1>1. CASE Ready = {}
  <2>1. tries \in [Requests -> 0 .. Retries] /\ tries[r] \in 0 .. Retries /\ Retries \in Nat
    BY ChunkNumbers DEF BrowserTyped
  <2>2. CASE tries[r] = Retries
    BY <1>1, <2>1, <2>2 DEF Dispatch
  <2>3. CASE tries[r] # Retries
    <3>1. tries[r] + 1 \in 0 .. Retries
      BY <2>1, <2>3
    <3>2. tries' = [tries EXCEPT ![r] = tries[r] + 1]
      BY <1>1, <2>3 DEF Dispatch
    <3>. QED BY <1>1, <2>1, <2>3, <3>1, <3>2 DEF Dispatch
  <2>. QED BY <2>2, <2>3
<1>2. CASE Ready # {}
  <2>1. PICK c : c = Selected
    OBVIOUS
  <2>2. c \in Clients /\ connection[c] = "ready"
    BY <1>2, <2>1, SelectedIsReady
  <2>. QED BY <1>2, <2>1, <2>2 DEF Dispatch
<1>. QED BY <1>1, <1>2

\* The types of what complete() changes.
LEMMA Completed ==
  ASSUME BrowserTyped, NEW rs, NEW answer \in {"ok", "error"}, Complete(rs, answer)
  PROVE  /\ request' \in [Requests -> {"new", "retrying", "pending", "ok", "error"}]
         /\ cleanup' \in [Requests -> {"none", "closing", "removing", "done"}]
         /\ executor' \in [Requests -> {"none", "working", "waiting", "failed"}]
<1>1. request' \in [Requests -> {"new", "retrying", "pending", "ok", "error"}]
  BY DEF BrowserTyped, Complete
<1>2. cleanup' \in [Requests -> {"none", "closing", "removing", "done"}]
  BY DEF BrowserTyped, Complete
<1>3. executor' \in [Requests -> {"none", "working", "waiting", "failed"}]
  BY DEF BrowserTyped, Complete
<1>. QED BY <1>1, <1>2, <1>3

\* Every step keeps the types.
LEMMA BrowserStepsTyped ==
  ASSUME BrowserInv, BrowserNext
  PROVE  BrowserTyped'
<1>. USE ChunkNumbers DEF BrowserInv, BrowserTyped
<1>1. ASSUME NEW c \in Clients, AttachClient(c) PROVE BrowserTyped'
  BY <1>1 DEF AttachClient, requestVars, executorVars, outputVars
<1>2. ASSUME NEW c \in Clients, Hello(c) PROVE BrowserTyped'
  <2>1. seen' \in Seq(Clients)
    BY <1>2, TouchedIsSeen DEF Hello
  <2>. QED BY <1>2, <2>1 DEF Hello, requestVars, executorVars, outputVars
<1>3. ASSUME NEW c \in Clients, ClientLeaves(c) PROVE BrowserTyped'
  BY <1>3 DEF ClientLeaves, requestVars, outputVars
<1>4. ASSUME NEW c \in Clients, DetachClient(c) PROVE BrowserTyped'
  <2>1. seen' \in Seq(Clients)
    BY <1>4, OthersAreSeen DEF DetachClient
  <2>. QED BY <1>4, <2>1, Completed DEF DetachClient, outputVars
<1>5. ASSUME NEW r \in Requests, Execute(r) PROVE BrowserTyped'
  <2>1. Dispatch(r) /\ UNCHANGED <<clientVars, acked, outputVars, cleanup, fileFaults>>
    BY <1>5 DEF Execute
  <2>2. CASE /\ request' \in {[request EXCEPT ![r] = "error"], [request EXCEPT ![r] = "retrying"]}
             /\ tries' \in [Requests -> 0 .. Retries] /\ UNCHANGED <<owner, executor>>
    BY <1>5, <2>1, <2>2, ZenonT(60) DEF Execute, clientVars, outputVars
  <2>3. ASSUME NEW c \in Clients, connection[c] = "ready", UNCHANGED tries,
               request' = [request EXCEPT ![r] = "pending"], owner' = [owner EXCEPT ![r] = c],
               executor' = [executor EXCEPT ![r] = "working"]
        PROVE  BrowserTyped'
    BY <1>5, <2>1, <2>3 DEF Execute, clientVars, outputVars
  <2>. QED BY <2>1, <2>2, <2>3, Dispatched
<1>6. ASSUME NEW r \in Requests, Retry(r) PROVE BrowserTyped'
  <2>1. Dispatch(r) /\ UNCHANGED <<clientVars, acked, outputVars, cleanup, fileFaults>>
    BY <1>6 DEF Retry
  <2>2. CASE /\ request' \in {[request EXCEPT ![r] = "error"], [request EXCEPT ![r] = "retrying"]}
             /\ tries' \in [Requests -> 0 .. Retries] /\ UNCHANGED <<owner, executor>>
    BY <1>6, <2>1, <2>2, ZenonT(60) DEF Retry, clientVars, outputVars
  <2>3. ASSUME NEW c \in Clients, connection[c] = "ready", UNCHANGED tries,
               request' = [request EXCEPT ![r] = "pending"], owner' = [owner EXCEPT ![r] = c],
               executor' = [executor EXCEPT ![r] = "working"]
        PROVE  BrowserTyped'
    BY <1>6, <2>1, <2>3 DEF Retry, clientVars, outputVars
  <2>. QED BY <2>1, <2>2, <2>3, Dispatched
<1>7. ASSUME NEW r \in Requests, Abort(r) PROVE BrowserTyped'
  BY <1>7, Completed DEF Abort, clientVars, outputVars
<1>8. ASSUME NEW r \in Requests, Timeout(r) PROVE BrowserTyped'
  BY <1>8, Completed DEF Timeout, clientVars, outputVars
<1>9. ASSUME NEW r \in Requests, ExecutorAnswers(r) PROVE BrowserTyped'
  <2>1. owner[r] \in Clients
    BY <1>9 DEF ExecutorAnswers, Attended
  <2>2. seen' \in Seq(Clients)
    BY <1>9, <2>1, TouchedIsSeen DEF ExecutorAnswers
  <2>. QED BY <1>9, <2>2, Completed DEF ExecutorAnswers, outputVars
<1>10. ASSUME NEW r \in Requests, OutputWrite(r) PROVE BrowserTyped'
  <2>1. owner[r] \in Clients
    BY <1>10 DEF OutputWrite, Attended
  <2>2. seen' \in Seq(Clients)
    BY <1>10, <2>1, TouchedIsSeen DEF OutputWrite
  <2>. QED BY <1>10, <2>2, ZenonT(60) DEF OutputWrite, requestVars
<1>11. ASSUME NEW r \in Requests, HandlerOpens(r) PROVE BrowserTyped'
  BY <1>11 DEF HandlerOpens, clientVars, requestVars, executorVars
<1>12. ASSUME NEW r \in Requests, HandlerWrites(r) PROVE BrowserTyped'
  <2>1. bytesWritten[r] + 1 \in 0 .. Chunks
    BY <1>12 DEF HandlerWrites, Written, ChunksAreCounted
  <2>2. /\ bytesWritten' \in [Requests -> 0 .. Chunks]
        /\ temp' \in [Requests -> 0 .. Absent]
    BY <1>12, <2>1 DEF HandlerWrites, Written
  <2>3. acked' \in [Requests -> 0 .. Chunks]
    <3>1. PICK n : n = acked[r]
      OBVIOUS
    <3>2. executor[r] = "waiting" => n + 1 \in 0 .. Chunks
      BY <1>12, <3>1 DEF HandlerWrites, Written, ChunksAreCounted
    <3>. QED BY <1>12, <3>1, <3>2 DEF HandlerWrites, Acknowledge, executorVars
  <2>4. executor' \in [Requests -> {"none", "working", "waiting", "failed"}]
    <3>1. executor' = executor \/ executor' = [executor EXCEPT ![r] = "working"]
      BY <1>12 DEF HandlerWrites, Acknowledge, executorVars
    <3>. QED BY <3>1
  <2>. QED BY <1>12, <2>2, <2>3, <2>4 DEF HandlerWrites, Written, clientVars, requestVars
<1>13. ASSUME NEW r \in Requests, HandlerCloses(r) PROVE BrowserTyped'
  BY <1>13 DEF HandlerCloses, clientVars, requestVars, executorVars
<1>14. ASSUME NEW r \in Requests, HandlerRenames(r) PROVE BrowserTyped'
  <2>1. acked' \in [Requests -> 0 .. Chunks]
    <3>1. PICK n : n = acked[r]
      OBVIOUS
    <3>2. executor[r] = "waiting" => n + 1 \in 0 .. Chunks
      BY <1>14, <3>1 DEF HandlerRenames, ChunksAreCounted
    <3>. QED BY <1>14, <3>1, <3>2 DEF HandlerRenames, Acknowledge, executorVars
  <2>2. executor' \in [Requests -> {"none", "working", "waiting", "failed"}]
    <3>1. executor' = executor \/ executor' = [executor EXCEPT ![r] = "working"]
      BY <1>14 DEF HandlerRenames, Acknowledge, executorVars
    <3>. QED BY <3>1
  <2>. QED BY <1>14, <2>1, <2>2 DEF HandlerRenames, clientVars, requestVars
<1>15. ASSUME NEW r \in Requests, HandlerFails(r) PROVE BrowserTyped'
  <2>1. fileFaults' \in 0 .. MaxFileFaults
    BY <1>15 DEF HandlerFails
  <2>. QED BY <1>15, <2>1 DEF HandlerFails, clientVars, requestVars
<1>16. ASSUME NEW r \in Requests, CleanupCloses(r) PROVE BrowserTyped'
  BY <1>16 DEF CleanupCloses, clientVars, requestVars, executorVars
<1>17. ASSUME NEW r \in Requests, CleanupRemoves(r) PROVE BrowserTyped'
  BY <1>17 DEF CleanupRemoves, clientVars, requestVars, executorVars
<1>. QED BY <1>1, <1>2, <1>3, <1>4, <1>5, <1>6, <1>7, <1>8, <1>9, <1>10, <1>11, <1>12, <1>13,
            <1>14, <1>15, <1>16, <1>17 DEF BrowserNext

\* Attached clients stay among those that were seen.
LEMMA ClientsSeenKept ==
  ASSUME BrowserInv, BrowserNext, BrowserTyped'
  PROVE  ClientsAreSeen'
<1>. USE ChunkNumbers DEF BrowserInv, BrowserTyped
<1>1. ASSUME NEW c \in Clients, AttachClient(c) PROVE ClientsAreSeen'
  <2>1. seen' = Append(seen, c) /\ connection' = [connection EXCEPT ![c] = "open"]
    BY <1>1 DEF AttachClient
  <2>2. \A x : Contains(seen', x) <=> Contains(seen, x) \/ x = c
    BY <2>1, AppendElements
  <2>. QED BY <2>1, <2>2 DEF ClientsAreSeen
<1>2. ASSUME NEW c \in Clients, Hello(c) PROVE ClientsAreSeen'
  <2>1. seen' = Touched(c) /\ connection' = [connection EXCEPT ![c] = "ready"]
    BY <1>2 DEF Hello
  <2>2. \A x \in Clients : Contains(seen, x) \/ x = c => Contains(seen', x)
    BY <2>1, TouchedIsSeen
  <2>. QED BY <2>1, <2>2 DEF ClientsAreSeen
<1>3. ASSUME NEW c \in Clients, ClientLeaves(c) PROVE ClientsAreSeen'
  BY <1>3 DEF ClientsAreSeen, Attended, ClientLeaves, requestVars, outputVars
<1>4. ASSUME NEW c \in Clients, DetachClient(c) PROVE ClientsAreSeen'
  <2>1. seen' = Others(c) /\ connection' = [connection EXCEPT ![c] = "none"]
    BY <1>4 DEF DetachClient
  <2>2. \A x \in Clients : Contains(seen', x) <=> Contains(seen, x) /\ x # c
    BY <2>1, OthersAreSeen
  <2>. QED BY <2>1, <2>2 DEF ClientsAreSeen
<1>5. ASSUME NEW r \in Requests, Execute(r) PROVE ClientsAreSeen'
  BY <1>5 DEF Execute, ClientsAreSeen, clientVars
<1>6. ASSUME NEW r \in Requests, Retry(r) PROVE ClientsAreSeen'
  BY <1>6 DEF Retry, ClientsAreSeen, clientVars
<1>7. ASSUME NEW r \in Requests, Abort(r) PROVE ClientsAreSeen'
  BY <1>7 DEF ClientsAreSeen, Attended, Abort, Complete, clientVars, outputVars
<1>8. ASSUME NEW r \in Requests, Timeout(r) PROVE ClientsAreSeen'
  BY <1>8 DEF ClientsAreSeen, Attended, Timeout, Complete, clientVars, outputVars
<1>9. ASSUME NEW r \in Requests, ExecutorAnswers(r) PROVE ClientsAreSeen'
  <2>1. seen' = Touched(owner[r]) /\ connection' = connection /\ owner[r] \in Clients
    BY <1>9 DEF ExecutorAnswers, Attended
  <2>2. \A x \in Clients : Contains(seen, x) => Contains(seen', x)
    BY <2>1, TouchedIsSeen
  <2>. QED BY <2>1, <2>2 DEF ClientsAreSeen
<1>10. ASSUME NEW r \in Requests, OutputWrite(r) PROVE ClientsAreSeen'
  <2>1. seen' = Touched(owner[r]) /\ connection' = connection /\ owner[r] \in Clients
    BY <1>10 DEF OutputWrite, Attended
  <2>2. \A x \in Clients : Contains(seen, x) => Contains(seen', x)
    BY <2>1, TouchedIsSeen
  <2>. QED BY <2>1, <2>2 DEF ClientsAreSeen
<1>11. ASSUME NEW r \in Requests, HandlerOpens(r) PROVE ClientsAreSeen'
  BY <1>11 DEF ClientsAreSeen, Attended, HandlerOpens, clientVars, requestVars, executorVars
<1>12. ASSUME NEW r \in Requests, HandlerWrites(r) PROVE ClientsAreSeen'
  BY <1>12
     DEF ClientsAreSeen, Attended, HandlerWrites, Written, Acknowledge, clientVars, requestVars,
         executorVars
<1>13. ASSUME NEW r \in Requests, HandlerCloses(r) PROVE ClientsAreSeen'
  BY <1>13 DEF ClientsAreSeen, Attended, HandlerCloses, clientVars, requestVars, executorVars
<1>14. ASSUME NEW r \in Requests, HandlerRenames(r) PROVE ClientsAreSeen'
  BY <1>14
     DEF ClientsAreSeen, Attended, HandlerRenames, Acknowledge, clientVars, requestVars,
         executorVars
<1>15. ASSUME NEW r \in Requests, HandlerFails(r) PROVE ClientsAreSeen'
  BY <1>15 DEF ClientsAreSeen, Attended, HandlerFails, clientVars, requestVars
<1>16. ASSUME NEW r \in Requests, CleanupCloses(r) PROVE ClientsAreSeen'
  BY <1>16 DEF ClientsAreSeen, Attended, CleanupCloses, clientVars, requestVars, executorVars
<1>17. ASSUME NEW r \in Requests, CleanupRemoves(r) PROVE ClientsAreSeen'
  BY <1>17 DEF ClientsAreSeen, Attended, CleanupRemoves, clientVars, requestVars, executorVars
<1>. QED BY <1>1, <1>2, <1>3, <1>4, <1>5, <1>6, <1>7, <1>8, <1>9, <1>10, <1>11, <1>12, <1>13,
            <1>14, <1>15, <1>16, <1>17 DEF BrowserNext

\* What is pending keeps a client that is attached.
LEMMA AttendedKept ==
  ASSUME BrowserInv, BrowserNext, BrowserTyped'
  PROVE  Attended'
<1>. USE ChunkNumbers DEF BrowserInv, BrowserTyped
<1>1. ASSUME NEW c \in Clients, AttachClient(c) PROVE Attended'
  BY <1>1 DEF Attended, AttachClient, requestVars, executorVars, outputVars
<1>2. ASSUME NEW c \in Clients, Hello(c) PROVE Attended'
  BY <1>2 DEF Attended, Hello, Touched, Others, requestVars, executorVars, outputVars
<1>3. ASSUME NEW c \in Clients, ClientLeaves(c) PROVE Attended'
  BY <1>3 DEF Attended, ClientLeaves, requestVars, outputVars
<1>4. ASSUME NEW c \in Clients, DetachClient(c) PROVE Attended'
  BY <1>4 DEF Attended, DetachClient, Complete, Others, outputVars
<1>5. ASSUME NEW r \in Requests, Execute(r) PROVE Attended'
  <2>1. Dispatch(r) /\ UNCHANGED <<clientVars, acked, outputVars, cleanup, fileFaults>>
    BY <1>5 DEF Execute
  <2>2. CASE /\ request' \in {[request EXCEPT ![r] = "error"], [request EXCEPT ![r] = "retrying"]}
             /\ tries' \in [Requests -> 0 .. Retries] /\ UNCHANGED <<owner, executor>>
    BY <1>5, <2>1, <2>2 DEF Attended, Execute, clientVars, outputVars
  <2>3. ASSUME NEW c \in Clients, connection[c] = "ready", UNCHANGED tries,
               request' = [request EXCEPT ![r] = "pending"], owner' = [owner EXCEPT ![r] = c],
               executor' = [executor EXCEPT ![r] = "working"]
        PROVE  Attended'
    BY <1>5, <2>1, <2>3 DEF Attended, Execute, clientVars, outputVars
  <2>. QED BY <2>1, <2>2, <2>3, Dispatched
<1>6. ASSUME NEW r \in Requests, Retry(r) PROVE Attended'
  <2>1. Dispatch(r) /\ UNCHANGED <<clientVars, acked, outputVars, cleanup, fileFaults>>
    BY <1>6 DEF Retry
  <2>2. CASE /\ request' \in {[request EXCEPT ![r] = "error"], [request EXCEPT ![r] = "retrying"]}
             /\ tries' \in [Requests -> 0 .. Retries] /\ UNCHANGED <<owner, executor>>
    BY <1>6, <2>1, <2>2 DEF Attended, Retry, clientVars, outputVars
  <2>3. ASSUME NEW c \in Clients, connection[c] = "ready", UNCHANGED tries,
               request' = [request EXCEPT ![r] = "pending"], owner' = [owner EXCEPT ![r] = c],
               executor' = [executor EXCEPT ![r] = "working"]
        PROVE  Attended'
    BY <1>6, <2>1, <2>3 DEF Attended, Retry, clientVars, outputVars
  <2>. QED BY <2>1, <2>2, <2>3, Dispatched
<1>7. ASSUME NEW r \in Requests, Abort(r) PROVE Attended'
  BY <1>7 DEF Attended, Abort, Complete, clientVars, outputVars
<1>8. ASSUME NEW r \in Requests, Timeout(r) PROVE Attended'
  BY <1>8 DEF Attended, Timeout, Complete, clientVars, outputVars
<1>9. ASSUME NEW r \in Requests, ExecutorAnswers(r) PROVE Attended'
  BY <1>9, SMTT(30) DEF Attended, ExecutorAnswers, Complete, Touched, Others, outputVars
<1>10. ASSUME NEW r \in Requests, OutputWrite(r) PROVE Attended'
  BY <1>10, SMTT(30) DEF Attended, OutputWrite, Touched, Others, requestVars
<1>11. ASSUME NEW r \in Requests, HandlerOpens(r) PROVE Attended'
  BY <1>11 DEF Attended, HandlerOpens, clientVars, requestVars, executorVars
<1>12. ASSUME NEW r \in Requests, HandlerWrites(r) PROVE Attended'
  <2>1. /\ connection' = connection /\ request' = request /\ owner' = owner
        /\ handler[r] = "write"
    BY <1>12 DEF HandlerWrites, Written, clientVars, requestVars
  <2>2. request[r] \notin {"new", "retrying"}
    BY <2>1 DEF Attended
  <2>3. \A q \in Requests \ {r} : handler'[q] = handler[q]
    BY <1>12 DEF HandlerWrites, Written
  <2>4. \A q \in Requests : executor'[q] # "none" => executor[q] # "none"
    <3>1. executor \in [Requests -> {"none", "working", "waiting", "failed"}]
      OBVIOUS
    <3>2. \/ executor' = executor
          \/ executor[r] = "waiting" /\ executor' = [executor EXCEPT ![r] = "working"]
      BY <1>12 DEF HandlerWrites, Acknowledge, executorVars
    <3>. HIDE DEF BrowserInv, BrowserTyped
    <3>. QED BY <3>1, <3>2
  <2>. HIDE DEF BrowserInv, BrowserTyped
  <2>5. Attended
    BY DEF BrowserInv
  <2>. QED BY <2>1, <2>2, <2>3, <2>4, <2>5 DEF Attended
<1>13. ASSUME NEW r \in Requests, HandlerCloses(r) PROVE Attended'
  BY <1>13 DEF Attended, HandlerCloses, clientVars, requestVars, executorVars
<1>14. ASSUME NEW r \in Requests, HandlerRenames(r) PROVE Attended'
  BY <1>14 DEF Attended, HandlerRenames, Acknowledge, clientVars, requestVars, executorVars
<1>15. ASSUME NEW r \in Requests, HandlerFails(r) PROVE Attended'
  BY <1>15 DEF Attended, HandlerFails, clientVars, requestVars
<1>16. ASSUME NEW r \in Requests, CleanupCloses(r) PROVE Attended'
  BY <1>16 DEF Attended, CleanupCloses, clientVars, requestVars, executorVars
<1>17. ASSUME NEW r \in Requests, CleanupRemoves(r) PROVE Attended'
  BY <1>17 DEF Attended, CleanupRemoves, clientVars, requestVars, executorVars
<1>. QED BY <1>1, <1>2, <1>3, <1>4, <1>5, <1>6, <1>7, <1>8, <1>9, <1>10, <1>11, <1>12, <1>13,
            <1>14, <1>15, <1>16, <1>17 DEF BrowserNext

\* The chunks of an output stay counted.
LEMMA ChunksAreCountedKept ==
  ASSUME BrowserInv, BrowserNext, BrowserTyped'
  PROVE  ChunksAreCounted'
<1>. USE ChunkNumbers DEF BrowserInv, BrowserTyped
<1>1. ASSUME NEW c \in Clients, AttachClient(c) PROVE ChunksAreCounted'
  BY <1>1 DEF ChunksAreCounted, Attended, AttachClient, requestVars, executorVars, outputVars
<1>2. ASSUME NEW c \in Clients, Hello(c) PROVE ChunksAreCounted'
  BY <1>2
     DEF ChunksAreCounted, Attended, Hello, Touched, Others, requestVars, executorVars, outputVars
<1>3. ASSUME NEW c \in Clients, ClientLeaves(c) PROVE ChunksAreCounted'
  BY <1>3 DEF ChunksAreCounted, Attended, ClientLeaves, requestVars, outputVars
<1>4. ASSUME NEW c \in Clients, DetachClient(c) PROVE ChunksAreCounted'
  BY <1>4 DEF ChunksAreCounted, Attended, DetachClient, Complete, Others, outputVars
<1>5. ASSUME NEW r \in Requests, Execute(r) PROVE ChunksAreCounted'
  BY <1>5 DEF ChunksAreCounted, Attended, Execute, Dispatch, clientVars, outputVars
<1>6. ASSUME NEW r \in Requests, Retry(r) PROVE ChunksAreCounted'
  BY <1>6 DEF ChunksAreCounted, Attended, Retry, Dispatch, clientVars, outputVars
<1>7. ASSUME NEW r \in Requests, Abort(r) PROVE ChunksAreCounted'
  BY <1>7 DEF ChunksAreCounted, Attended, Abort, Complete, clientVars, outputVars
<1>8. ASSUME NEW r \in Requests, Timeout(r) PROVE ChunksAreCounted'
  BY <1>8 DEF ChunksAreCounted, Attended, Timeout, Complete, clientVars, outputVars
<1>9. ASSUME NEW r \in Requests, ExecutorAnswers(r) PROVE ChunksAreCounted'
  BY <1>9 DEF ChunksAreCounted, Attended, ExecutorAnswers, Complete, Touched, Others, outputVars
<1>10. ASSUME NEW r \in Requests, OutputWrite(r) PROVE ChunksAreCounted'
  BY <1>10, SMTT(30) DEF ChunksAreCounted, Attended, OutputWrite, Touched, Others, requestVars
<1>11. ASSUME NEW r \in Requests, HandlerOpens(r) PROVE ChunksAreCounted'
  BY <1>11 DEF ChunksAreCounted, Attended, HandlerOpens, clientVars, requestVars, executorVars
<1>12. ASSUME NEW r \in Requests, HandlerWrites(r) PROVE ChunksAreCounted'
  <2>1. /\ target' = target /\ handler[r] = "write" /\ bytesWritten[r] < Chunks
        /\ handler'[r] = IF bytesWritten[r] + 1 = Chunks THEN "close" ELSE "idle"
        /\ temp'[r] = IF temp[r] = Absent THEN Absent ELSE bytesWritten[r] + 1
        /\ bytesWritten'[r] = bytesWritten[r] + 1
    BY <1>12 DEF HandlerWrites, Written, requestVars, ChunksAreCounted
  <2>2. \A q \in Requests \ {r} : /\ handler'[q] = handler[q] /\ temp'[q] = temp[q]
                                  /\ bytesWritten'[q] = bytesWritten[q]
    BY <1>12 DEF HandlerWrites, Written
  <2>3. /\ executor[r] \in {"waiting", "none"}
        /\ executor[r] = "waiting" => request[r] = "pending" /\ acked[r] = bytesWritten[r]
        /\ acked[r] = Chunks => target[r] = Chunks
    BY <2>1 DEF Attended, ChunksAreCounted
  <2>4. \A q \in Requests \ {r} : executor'[q] = executor[q] /\ acked'[q] = acked[q]
    <3>1. /\ executor \in [Requests -> {"none", "working", "waiting", "failed"}]
          /\ acked \in [Requests -> 0 .. Chunks]
      OBVIOUS
    <3>2. \/ executor' = executor /\ acked' = acked
          \/ /\ executor' = [executor EXCEPT ![r] = "working"]
             /\ acked' = [acked EXCEPT ![r] = acked[r] + 1]
      BY <1>12 DEF HandlerWrites, Acknowledge, executorVars
    <3>. HIDE DEF BrowserInv, BrowserTyped
    <3>. QED BY <3>1, <3>2
  <2>5. CASE bytesWritten[r] + 1 = Chunks
    <3>1. executor'[r] = executor[r] /\ acked'[r] = acked[r]
      BY <1>12, <2>5 DEF HandlerWrites, executorVars
    <3>2. /\ handler'[r] = "close" /\ bytesWritten'[r] = Chunks /\ temp'[r] \in {Chunks, Absent}
          /\ acked[r] = Chunks => target'[r] = Chunks
          /\ executor[r] = "waiting" => acked[r] < Chunks
      BY <2>1, <2>3, <2>5
    <3>. HIDE DEF BrowserInv, BrowserTyped
    <3>3. ChunksAreCounted
      BY DEF BrowserInv
    <3>. QED BY <2>1, <2>2, <2>3, <2>4, <3>1, <3>2, <3>3 DEF ChunksAreCounted
  <2>6. CASE bytesWritten[r] + 1 # Chunks
    <3>1. CASE executor[r] = "waiting"
      <4>1. executor'[r] = "working" /\ acked'[r] = bytesWritten[r] + 1
        BY <1>12, <2>3, <2>6, <3>1 DEF HandlerWrites, Acknowledge
      <4>2. handler'[r] = "idle" /\ executor'[r] # "waiting" /\ acked'[r] # Chunks
        BY <2>1, <2>6, <4>1
      <4>. HIDE DEF BrowserInv, BrowserTyped
      <4>3. ChunksAreCounted
        BY DEF BrowserInv
      <4>. QED BY <2>1, <2>2, <2>4, <4>2, <4>3 DEF ChunksAreCounted
    <3>2. CASE executor[r] # "waiting"
      <4>1. executor'[r] = executor[r] /\ acked'[r] = acked[r]
        BY <1>12, <2>6, <3>2 DEF HandlerWrites, Acknowledge, executorVars
      <4>2. handler'[r] = "idle" /\ executor'[r] # "waiting"
        BY <2>1, <2>6, <3>2, <4>1
      <4>. HIDE DEF BrowserInv, BrowserTyped
      <4>3. ChunksAreCounted
        BY DEF BrowserInv
      <4>. QED BY <2>1, <2>2, <2>3, <2>4, <4>1, <4>2, <4>3 DEF ChunksAreCounted
    <3>. QED BY <3>1, <3>2
  <2>. QED BY <2>5, <2>6
<1>13. ASSUME NEW r \in Requests, HandlerCloses(r) PROVE ChunksAreCounted'
  BY <1>13 DEF ChunksAreCounted, Attended, HandlerCloses, clientVars, requestVars, executorVars
<1>14. ASSUME NEW r \in Requests, HandlerRenames(r) PROVE ChunksAreCounted'
  BY <1>14
     DEF ChunksAreCounted, Attended, HandlerRenames, Acknowledge, clientVars, requestVars,
         executorVars
<1>15. ASSUME NEW r \in Requests, HandlerFails(r) PROVE ChunksAreCounted'
  BY <1>15 DEF ChunksAreCounted, Attended, HandlerFails, clientVars, requestVars
<1>16. ASSUME NEW r \in Requests, CleanupCloses(r) PROVE ChunksAreCounted'
  BY <1>16 DEF ChunksAreCounted, Attended, CleanupCloses, clientVars, requestVars, executorVars
<1>17. ASSUME NEW r \in Requests, CleanupRemoves(r) PROVE ChunksAreCounted'
  BY <1>17 DEF ChunksAreCounted, Attended, CleanupRemoves, clientVars, requestVars, executorVars
<1>. QED BY <1>1, <1>2, <1>3, <1>4, <1>5, <1>6, <1>7, <1>8, <1>9, <1>10, <1>11, <1>12, <1>13,
            <1>14, <1>15, <1>16, <1>17 DEF BrowserNext

\* A request that is answered well has its output in place.
LEMMA OkMeansWrittenKept ==
  ASSUME BrowserInv, BrowserNext, BrowserTyped'
  PROVE  OkMeansWritten'
<1>. USE ChunkNumbers DEF BrowserInv, BrowserTyped
<1>1. ASSUME NEW c \in Clients, AttachClient(c) PROVE OkMeansWritten'
  BY <1>1
     DEF OkMeansWritten, ChunksAreCounted, AttachClient, requestVars, executorVars, outputVars
<1>2. ASSUME NEW c \in Clients, Hello(c) PROVE OkMeansWritten'
  BY <1>2
     DEF OkMeansWritten, ChunksAreCounted, Hello, Touched, Others, requestVars, executorVars,
         outputVars
<1>3. ASSUME NEW c \in Clients, ClientLeaves(c) PROVE OkMeansWritten'
  BY <1>3 DEF OkMeansWritten, ChunksAreCounted, ClientLeaves, requestVars, outputVars
<1>4. ASSUME NEW c \in Clients, DetachClient(c) PROVE OkMeansWritten'
  BY <1>4 DEF OkMeansWritten, ChunksAreCounted, DetachClient, Complete, Others, outputVars
<1>5. ASSUME NEW r \in Requests, Execute(r) PROVE OkMeansWritten'
  <2>1. Dispatch(r) /\ UNCHANGED <<clientVars, acked, outputVars, cleanup, fileFaults>>
    BY <1>5 DEF Execute
  <2>2. CASE /\ request' \in {[request EXCEPT ![r] = "error"], [request EXCEPT ![r] = "retrying"]}
             /\ tries' \in [Requests -> 0 .. Retries] /\ UNCHANGED <<owner, executor>>
    BY <1>5, <2>1, <2>2 DEF OkMeansWritten, ChunksAreCounted, Execute, clientVars, outputVars
  <2>3. ASSUME NEW c \in Clients, connection[c] = "ready", UNCHANGED tries,
               request' = [request EXCEPT ![r] = "pending"], owner' = [owner EXCEPT ![r] = c],
               executor' = [executor EXCEPT ![r] = "working"]
        PROVE  OkMeansWritten'
    BY <1>5, <2>1, <2>3 DEF OkMeansWritten, ChunksAreCounted, Execute, clientVars, outputVars
  <2>. QED BY <2>1, <2>2, <2>3, Dispatched
<1>6. ASSUME NEW r \in Requests, Retry(r) PROVE OkMeansWritten'
  <2>1. Dispatch(r) /\ UNCHANGED <<clientVars, acked, outputVars, cleanup, fileFaults>>
    BY <1>6 DEF Retry
  <2>2. CASE /\ request' \in {[request EXCEPT ![r] = "error"], [request EXCEPT ![r] = "retrying"]}
             /\ tries' \in [Requests -> 0 .. Retries] /\ UNCHANGED <<owner, executor>>
    BY <1>6, <2>1, <2>2, SMTT(30)
       DEF OkMeansWritten, ChunksAreCounted, Retry, clientVars, outputVars
  <2>3. ASSUME NEW c \in Clients, connection[c] = "ready", UNCHANGED tries,
               request' = [request EXCEPT ![r] = "pending"], owner' = [owner EXCEPT ![r] = c],
               executor' = [executor EXCEPT ![r] = "working"]
        PROVE  OkMeansWritten'
    BY <1>6, <2>1, <2>3 DEF OkMeansWritten, ChunksAreCounted, Retry, clientVars, outputVars
  <2>. QED BY <2>1, <2>2, <2>3, Dispatched
<1>7. ASSUME NEW r \in Requests, Abort(r) PROVE OkMeansWritten'
  BY <1>7 DEF OkMeansWritten, ChunksAreCounted, Abort, Complete, clientVars, outputVars
<1>8. ASSUME NEW r \in Requests, Timeout(r) PROVE OkMeansWritten'
  BY <1>8 DEF OkMeansWritten, ChunksAreCounted, Timeout, Complete, clientVars, outputVars
<1>9. ASSUME NEW r \in Requests, ExecutorAnswers(r) PROVE OkMeansWritten'
  BY <1>9, SMTT(30)
     DEF OkMeansWritten, ChunksAreCounted, ExecutorAnswers, Complete, Touched, Others, outputVars
<1>10. ASSUME NEW r \in Requests, OutputWrite(r) PROVE OkMeansWritten'
  BY <1>10 DEF OkMeansWritten, ChunksAreCounted, OutputWrite, Touched, Others, requestVars
<1>11. ASSUME NEW r \in Requests, HandlerOpens(r) PROVE OkMeansWritten'
  BY <1>11
     DEF OkMeansWritten, ChunksAreCounted, HandlerOpens, clientVars, requestVars, executorVars
<1>12. ASSUME NEW r \in Requests, HandlerWrites(r) PROVE OkMeansWritten'
  BY <1>12
     DEF OkMeansWritten, ChunksAreCounted, HandlerWrites, Written, Acknowledge, clientVars,
         requestVars, executorVars
<1>13. ASSUME NEW r \in Requests, HandlerCloses(r) PROVE OkMeansWritten'
  BY <1>13
     DEF OkMeansWritten, ChunksAreCounted, HandlerCloses, clientVars, requestVars, executorVars
<1>14. ASSUME NEW r \in Requests, HandlerRenames(r) PROVE OkMeansWritten'
  BY <1>14
     DEF OkMeansWritten, ChunksAreCounted, HandlerRenames, Acknowledge, clientVars, requestVars,
         executorVars
<1>15. ASSUME NEW r \in Requests, HandlerFails(r) PROVE OkMeansWritten'
  BY <1>15 DEF OkMeansWritten, ChunksAreCounted, HandlerFails, clientVars, requestVars
<1>16. ASSUME NEW r \in Requests, CleanupCloses(r) PROVE OkMeansWritten'
  BY <1>16
     DEF OkMeansWritten, ChunksAreCounted, CleanupCloses, clientVars, requestVars, executorVars
<1>17. ASSUME NEW r \in Requests, CleanupRemoves(r) PROVE OkMeansWritten'
  BY <1>17
     DEF OkMeansWritten, ChunksAreCounted, CleanupRemoves, clientVars, requestVars, executorVars
<1>. QED BY <1>1, <1>2, <1>3, <1>4, <1>5, <1>6, <1>7, <1>8, <1>9, <1>10, <1>11, <1>12, <1>13,
            <1>14, <1>15, <1>16, <1>17 DEF BrowserNext

\* Nothing is attached or asked at the start.
LEMMA BrowserInitially == BrowserInit => BrowserInv
<1>1. SUFFICES ASSUME BrowserInit PROVE BrowserInv
  OBVIOUS
<1>. USE ChunkNumbers
<1>2. /\ request \in [Requests -> {"new"}] /\ owner \in [Requests -> {NoClient}]
      /\ tries \in [Requests -> {0}] /\ executor \in [Requests -> {"none"}]
      /\ acked \in [Requests -> {0}] /\ handler \in [Requests -> {"idle"}]
  BY <1>1 DEF BrowserInit
<1>3. /\ file \in [Requests -> {FALSE}] /\ outputDone \in [Requests -> {FALSE}]
      /\ bytesWritten \in [Requests -> {0}] /\ cleanup \in [Requests -> {"none"}]
      /\ temp \in [Requests -> {Absent}] /\ target \in [Requests -> {Absent}]
  BY <1>1 DEF BrowserInit
<1>4. /\ connection \in [Clients -> {"none"}] /\ seen \in Seq(Clients) /\ fileFaults = 0
  BY <1>1, EmptySeq DEF BrowserInit
<1>5. 0 \in 0 .. Retries /\ 0 \in 0 .. MaxFileFaults
  BY ChunkNumbers
<1>6. BrowserTyped
  <2>1. /\ request \in [Requests -> {"new", "retrying", "pending", "ok", "error"}]
        /\ owner \in [Requests -> Clients \cup {NoClient}]
        /\ tries \in [Requests -> 0 .. Retries] /\ acked \in [Requests -> 0 .. Chunks]
    BY <1>2, <1>5
  <2>2. /\ executor \in [Requests -> {"none", "working", "waiting", "failed"}]
        /\ handler \in [Requests -> {"idle", "open", "write", "close", "rename"}]
        /\ cleanup \in [Requests -> {"none", "closing", "removing", "done"}]
        /\ connection \in [Clients -> {"none", "open", "ready", "closing"}]
    BY <1>2, <1>3, <1>4
  <2>3. /\ file \in [Requests -> BOOLEAN] /\ outputDone \in [Requests -> BOOLEAN]
        /\ bytesWritten \in [Requests -> 0 .. Chunks]
        /\ temp \in [Requests -> 0 .. Absent] /\ target \in [Requests -> 0 .. Absent]
    BY <1>3
  <2>. QED BY <1>4, <1>5, <2>1, <2>2, <2>3 DEF BrowserTyped
<1>7. ClientsAreSeen /\ Attended
  BY <1>2, <1>4 DEF ClientsAreSeen, Attended
<1>8. ChunksAreCounted /\ OkMeansWritten
  BY <1>2, <1>3 DEF ChunksAreCounted, OkMeansWritten
<1>. QED BY <1>6, <1>7, <1>8 DEF BrowserInv

\* The invariant says what the run checks.
LEMMA BrowserFollows == BrowserInv => BrowserTypeOK /\ RequestsAreSound
BY DEF BrowserInv, BrowserTyped, BrowserTypeOK, Attended, RequestsAreSound, PendingHasClient

\* The invariant is inductive.
LEMMA BrowserNextStep == BrowserInv /\ [BrowserNext]_browserVars => BrowserInv'
<1>1. SUFFICES ASSUME BrowserInv, [BrowserNext]_browserVars PROVE BrowserInv'
  OBVIOUS
<1>2. CASE UNCHANGED browserVars
  BY <1>1, <1>2
     DEF browserVars, clientVars, requestVars, executorVars, outputVars, BrowserInv, BrowserTyped,
         ClientsAreSeen, Attended, ChunksAreCounted, OkMeansWritten
<1>3. CASE BrowserNext
  <2>1. BrowserTyped'
    BY <1>1, <1>3, BrowserStepsTyped
  <2>. QED BY <1>1, <1>3, <2>1, ClientsSeenKept, AttendedKept, ChunksAreCountedKept,
              OkMeansWrittenKept
           DEF BrowserInv
<1>. QED BY <1>1, <1>2, <1>3

-----------------------------------------------------------------------------
(***************************************************************************)
(* Operations on the capabilities of a machine, their records and          *)
(* terminals.                                                              *)
(***************************************************************************)
OperationSeqs == Seq(Operations)

\* The types, each variable's by itself.
OperationsTyped ==
  /\ records \in OperationSeqs /\ Distinct(records)
  /\ opStatus \in [Operations -> {"none", "running", "waiting_for_input", "completed", "failed",
                                  "cancelled"}]
  /\ opWork \in [Operations -> {"none", "installing", "alive", "killed", "finishing", "succeeded",
                                "failed"}]
  /\ opCommand \in [Operations -> BOOLEAN] /\ opKnown \in SUBSET Operations

RecordsAreBegun == \A o \in Operations : Contains(records, o) => opStatus[o] # "none"

\* Nobody can cancel what the answer has not told.
InstallingRuns == \A o \in Operations : opWork[o] = "installing" =>
  /\ opStatus[o] \in {"running", "cancelled"}
  /\ o \notin opKnown => opStatus[o] = "running"

OperationsInv == OperationsTyped /\ RecordsAreBegun /\ InstallingRuns /\ OperationsAreHeld

\* Records that are dropped.
LEMMA WithoutElements ==
  ASSUME NEW rs \in OperationSeqs, NEW gone
  PROVE  /\ Without(rs, gone) \in OperationSeqs
         /\ Distinct(rs) => Distinct(Without(rs, gone))
         /\ \A x \in Operations : Contains(Without(rs, gone), x) <=> Contains(rs, x) /\ x \notin gone
<1>1. PICK w : w = Filter(rs, Operations \ gone)
  OBVIOUS
<1>2. /\ w \in Seq(Operations)
      /\ Distinct(rs) => Distinct(w)
      /\ \A x : Contains(w, x) <=> Contains(rs, x) /\ x \in Operations \ gone
  BY <1>1, FilterElements DEF OperationSeqs
<1>. QED BY <1>1, <1>2 DEF Without, OperationSeqs

\* A record that is touched is the last one.
LEMMA TouchElements ==
  ASSUME NEW rs \in OperationSeqs, NEW o \in Operations
  PROVE  /\ Touch(rs, o) \in OperationSeqs
         /\ Distinct(rs) => Distinct(Touch(rs, o))
         /\ \A x \in Operations : Contains(Touch(rs, o), x) <=> Contains(rs, x)
<1>1. CASE Contains(rs, o)
  <2>1. PICK w : w = Without(rs, {o})
    OBVIOUS
  <2>2. /\ w \in Seq(Operations)
        /\ Distinct(rs) => Distinct(w)
        /\ \A x \in Operations : Contains(w, x) <=> Contains(rs, x) /\ x # o
    BY <2>1, WithoutElements DEF OperationSeqs
  <2>3. /\ Append(w, o) \in Seq(Operations)
        /\ \A x : Contains(Append(w, o), x) <=> Contains(w, x) \/ x = o
        /\ Distinct(w) /\ ~ Contains(w, o) => Distinct(Append(w, o))
    <3>1. w \in Seq(Operations)
      BY <2>2
    <3>. QED BY <3>1, AppendElements
  <2>4. Touch(rs, o) = Append(w, o)
    BY <1>1, <2>1 DEF Touch
  <2>. QED BY <1>1, <2>2, <2>3, <2>4 DEF OperationSeqs
<1>2. CASE ~ Contains(rs, o)
  BY <1>2 DEF Touch
<1>. QED BY <1>1, <1>2

\* What can be removed is not active.
LEMMA RemovableElements ==
  ASSUME NEW rs \in OperationSeqs, NEW status
  PROVE  \A j \in DOMAIN Removable(rs, status) : ~ IsActive(status, Removable(rs, status)[j])
<1>1. PICK T : T = {o \in Operations : ~ IsActive(status, o)}
  OBVIOUS
<1>2. PICK w : w = Filter(rs, T)
  OBVIOUS
<1>3. /\ w \in Seq(Operations) /\ \A x : Contains(w, x) <=> Contains(rs, x) /\ x \in T
  BY <1>2, FilterElements DEF OperationSeqs
<1>4. DOMAIN w = 1 .. Len(w)
  BY <1>3, LenProperties
<1>5. ASSUME NEW j \in DOMAIN w PROVE ~ IsActive(status, w[j])
  <2>1. Contains(w, w[j])
    BY <1>4, <1>5 DEF Contains
  <2>. QED BY <1>1, <1>3, <2>1
<1>. QED BY <1>1, <1>2, <1>5 DEF Removable

\* The limit on records evicts nothing that is active.
LEMMA EnforceElements ==
  ASSUME NEW rs \in OperationSeqs, NEW status
  PROVE  /\ Enforce(rs, status) \in OperationSeqs
         /\ Distinct(rs) => Distinct(Enforce(rs, status))
         /\ \A x \in Operations : Contains(Enforce(rs, status), x) => Contains(rs, x)
         /\ \A x \in Operations : Contains(rs, x) /\ IsActive(status, x) =>
              Contains(Enforce(rs, status), x)
<1>1. PICK removable : removable = Removable(rs, status)
  OBVIOUS
<1>2. PICK gone :
        gone = {removable[i] : i \in {j \in DOMAIN removable : j <= Len(rs) - MaxRecords}}
  OBVIOUS
<1>3. \A x \in gone : ~ IsActive(status, x)
  BY <1>1, <1>2, RemovableElements
<1>4. Enforce(rs, status) = Without(rs, gone)
  BY <1>1, <1>2 DEF Enforce
<1>. QED BY <1>3, <1>4, WithoutElements

\* Expiry evicts nothing that is active.
LEMMA PrunedElements ==
  ASSUME OperationsTyped, NEW rs \in Pruned(records)
  PROVE  /\ rs \in OperationSeqs /\ Distinct(rs)
         /\ \A x \in Operations : Contains(rs, x) => Contains(records, x)
         /\ \A x \in Operations : Contains(records, x) /\ IsActive(opStatus, x) => Contains(rs, x)
<1>1. PICK removable : removable = Removable(records, opStatus)
  OBVIOUS
<1>2. PICK n \in 0 .. Len(removable) :
        rs = Enforce(Without(records, {removable[i] : i \in 1 .. n}), opStatus)
  BY <1>1 DEF Pruned
<1>3. PICK gone : gone = {removable[i] : i \in 1 .. n}
  OBVIOUS
<1>4. removable \in Seq(Operations)
  BY <1>1, FilterElements DEF OperationsTyped, OperationSeqs, Removable
<1>5. \A x \in gone : ~ IsActive(opStatus, x)
  <2>1. \A i \in 1 .. n : i \in DOMAIN removable
    BY <1>2, <1>4, LenProperties
  <2>2. \A j \in DOMAIN removable : ~ IsActive(opStatus, removable[j])
    BY <1>1, RemovableElements DEF OperationsTyped
  <2>. QED BY <1>3, <2>1, <2>2
<1>6. records \in OperationSeqs /\ Distinct(records)
  BY DEF OperationsTyped
<1>0. PICK w : w = Without(records, gone)
  OBVIOUS
<1>7. /\ w \in OperationSeqs /\ Distinct(w)
      /\ \A x \in Operations : Contains(w, x) <=> Contains(records, x) /\ x \notin gone
  BY <1>0, <1>6, WithoutElements
<1>8. rs = Enforce(w, opStatus)
  BY <1>0, <1>2, <1>3
<1>9. /\ rs \in OperationSeqs
      /\ Distinct(w) => Distinct(rs)
      /\ \A x \in Operations : Contains(rs, x) => Contains(w, x)
      /\ \A x \in Operations : Contains(w, x) /\ IsActive(opStatus, x) => Contains(rs, x)
  BY <1>7, <1>8, EnforceElements
<1>10. \A x \in Operations : Contains(rs, x) => Contains(records, x)
  BY <1>7, <1>9
<1>11. \A x \in Operations : Contains(records, x) /\ IsActive(opStatus, x) => Contains(rs, x)
  BY <1>5, <1>7, <1>9
<1>. QED BY <1>7, <1>9, <1>10, <1>11

\* An operation that is begun has a record, whatever goes for it.
LEMMA BegunElements ==
  ASSUME OperationsTyped, RecordsAreBegun, NEW o \in Operations, opStatus[o] = "none",
         NEW rs \in Pruned(records), NEW all, all = Append(rs, o)
  PROVE  /\ all \in OperationSeqs /\ Distinct(all) /\ Contains(all, o)
         /\ \A x \in Operations : Contains(all, x) => Contains(records, x) \/ x = o
         /\ \A x \in Operations : Contains(records, x) /\ IsActive(opStatus, x) => Contains(all, x)
<1>1. /\ rs \in OperationSeqs /\ Distinct(rs)
      /\ \A x \in Operations : Contains(rs, x) => Contains(records, x)
      /\ \A x \in Operations : Contains(records, x) /\ IsActive(opStatus, x) => Contains(rs, x)
  BY PrunedElements
<1>2. ~ Contains(rs, o)
  BY <1>1 DEF RecordsAreBegun
<1>3. rs \in Seq(Operations)
  BY <1>1 DEF OperationSeqs
<1>4. /\ all \in Seq(Operations)
      /\ \A x : Contains(all, x) <=> Contains(rs, x) \/ x = o
      /\ Distinct(rs) /\ ~ Contains(rs, o) => Distinct(all)
  BY <1>3, AppendElements
<1>. QED BY <1>1, <1>2, <1>4 DEF OperationSeqs

OpStatuses == {"none", "running", "waiting_for_input", "completed", "failed", "cancelled"}
OpWorks == {"none", "installing", "alive", "killed", "finishing", "succeeded", "failed"}

\* The records there are afterwards: none new but o's, and those that are active.
RecordsKept(o) ==
  /\ records' \in OperationSeqs /\ Distinct(records')
  /\ \A x \in Operations : Contains(records', x) => Contains(records, x) \/ x = o
  /\ \A x \in Operations \ {o} :
       Contains(records, x) /\ IsActive(opStatus, x) => Contains(records', x)
  /\ IsActive(opStatus', o) => Contains(records', o)

\* Nothing changes but what o has.
OthersRest(o) ==
  /\ opStatus' = opStatus \/ \E s \in OpStatuses : opStatus' = [opStatus EXCEPT ![o] = s]
  /\ opWork' = opWork \/ \E w \in OpWorks : opWork' = [opWork EXCEPT ![o] = w]
  /\ opCommand' = opCommand \/ \E b \in BOOLEAN : opCommand' = [opCommand EXCEPT ![o] = b]
  /\ opKnown' = opKnown \/ opKnown' = opKnown \cup {o}

\* What o has afterwards.
HeldAfter(o) ==
  /\ Contains(records', o) => opStatus'[o] # "none"
  /\ opWork'[o] = "alive" => opCommand'[o] /\ opStatus'[o] = "waiting_for_input"
  /\ opStatus'[o] = "waiting_for_input" <=>
       opWork'[o] \in {"alive", "killed", "finishing"} /\ opStatus'[o] # "cancelled"
  /\ opWork'[o] \in {"succeeded", "failed"} =>
       opStatus'[o] = IF opWork'[o] = "succeeded" THEN "completed" ELSE "failed"
  /\ opWork'[o] = "installing" =>
       /\ opStatus'[o] \in {"running", "cancelled"}
       /\ o \notin opKnown' => opStatus'[o] = "running"

\* A step of one operation that leaves this leaves the invariant.
LEMMA OneOperation ==
  ASSUME OperationsInv, NEW o \in Operations, RecordsKept(o), OthersRest(o), HeldAfter(o)
  PROVE  OperationsInv'
<1>1. OperationsTyped /\ RecordsAreBegun
  BY DEF OperationsInv
<1>2. /\ opStatus' \in [Operations -> OpStatuses]
      /\ \A x \in Operations \ {o} : opStatus'[x] = opStatus[x]
  BY <1>1 DEF OperationsTyped, OthersRest, OpStatuses
<1>3. /\ opWork' \in [Operations -> OpWorks]
      /\ \A x \in Operations \ {o} : opWork'[x] = opWork[x]
  BY <1>1 DEF OperationsTyped, OthersRest, OpWorks
<1>4. /\ opCommand' \in [Operations -> BOOLEAN]
      /\ \A x \in Operations \ {o} : opCommand'[x] = opCommand[x]
  BY <1>1 DEF OperationsTyped, OthersRest
<1>5. /\ opKnown' \in SUBSET Operations
      /\ \A x \in Operations \ {o} : x \in opKnown' <=> x \in opKnown
  BY <1>1 DEF OperationsTyped, OthersRest
<1>6. OperationsTyped'
  BY <1>2, <1>3, <1>4, <1>5 DEF OperationsTyped, RecordsKept, OpStatuses, OpWorks
<1>7. RecordsAreBegun'
  BY <1>1, <1>2 DEF RecordsAreBegun, RecordsKept, HeldAfter
<1>8. InstallingRuns'
  BY <1>2, <1>3, <1>5 DEF OperationsInv, InstallingRuns, HeldAfter
<1>9. OperationsAreHeld'
  <2>1. ASSUME NEW x \in Operations \ {o}
        PROVE  /\ opWork'[x] = "alive" =>
                    /\ Contains(records', x) /\ opCommand'[x]
                    /\ opStatus'[x] = "waiting_for_input"
               /\ IsActive(opStatus', x) => Contains(records', x)
               /\ opStatus'[x] = "waiting_for_input" <=>
                    opWork'[x] \in {"alive", "killed", "finishing"} /\ opStatus'[x] # "cancelled"
               /\ opWork'[x] \in {"succeeded", "failed"} =>
                    opStatus'[x] = IF opWork'[x] = "succeeded" THEN "completed" ELSE "failed"
    <3>1. opStatus'[x] = opStatus[x] /\ opWork'[x] = opWork[x] /\ opCommand'[x] = opCommand[x]
      BY <1>2, <1>3, <1>4
    <3>2. IsActive(opStatus', x) => Contains(records', x)
      BY <3>1 DEF OperationsInv, OperationsAreHeld, IsActive, RecordsKept
    <3>. QED BY <3>1, <3>2 DEF OperationsInv, OperationsAreHeld, IsActive
  <2>2. /\ opWork'[o] = "alive" =>
             /\ Contains(records', o) /\ opCommand'[o]
             /\ opStatus'[o] = "waiting_for_input"
        /\ IsActive(opStatus', o) => Contains(records', o)
        /\ opStatus'[o] = "waiting_for_input" <=>
             opWork'[o] \in {"alive", "killed", "finishing"} /\ opStatus'[o] # "cancelled"
        /\ opWork'[o] \in {"succeeded", "failed"} =>
             opStatus'[o] = IF opWork'[o] = "succeeded" THEN "completed" ELSE "failed"
    BY DEF IsActive, HeldAfter, RecordsKept
  <2>3. \A x \in Operations : x = o \/ x \in Operations \ {o}
    OBVIOUS
  <2>. QED BY <2>1, <2>2, <2>3 DEF OperationsAreHeld, IsActive
<1>. QED BY <1>6, <1>7, <1>8, <1>9 DEF OperationsInv

\* The records after o's was touched: none is lost.
LEMMA TouchKeeps ==
  ASSUME OperationsTyped, NEW o \in Operations, records' = Touch(records, o),
         IsActive(opStatus', o) => Contains(records, o)
  PROVE  RecordsKept(o)
<1>1. records \in OperationSeqs /\ Distinct(records)
  BY DEF OperationsTyped
<1>. QED BY <1>1, TouchElements DEF RecordsKept

\* The same, when the limit on records is enforced after o's was touched.
LEMMA TouchEnforceKeeps ==
  ASSUME OperationsTyped, NEW o \in Operations, records' = Enforce(Touch(records, o), opStatus'),
         \A x \in Operations \ {o} : IsActive(opStatus, x) => IsActive(opStatus', x),
         IsActive(opStatus', o) => Contains(records, o)
  PROVE  RecordsKept(o)
<1>1. records \in OperationSeqs /\ Distinct(records)
  BY DEF OperationsTyped
<1>2. PICK w : w = Touch(records, o)
  OBVIOUS
<1>3. /\ w \in OperationSeqs /\ Distinct(w)
      /\ \A x \in Operations : Contains(w, x) <=> Contains(records, x)
  BY <1>1, <1>2, TouchElements
<1>4. PICK status : status = opStatus'
  OBVIOUS
<1>5. /\ Enforce(w, status) \in OperationSeqs
      /\ Distinct(w) => Distinct(Enforce(w, status))
      /\ \A x \in Operations : Contains(Enforce(w, status), x) => Contains(w, x)
      /\ \A x \in Operations : Contains(w, x) /\ IsActive(status, x) =>
           Contains(Enforce(w, status), x)
  BY <1>3, EnforceElements
<1>. QED BY <1>2, <1>3, <1>4, <1>5 DEF RecordsKept

\* The operation's own records after an expiry, with o's touched or not.
LEMMA PrunedKeeps ==
  ASSUME OperationsTyped, NEW o \in Operations, NEW rs \in Pruned(records),
         records' = rs \/ records' = Touch(rs, o),
         IsActive(opStatus', o) => Contains(rs, o)
  PROVE  RecordsKept(o)
<1>1. /\ rs \in OperationSeqs /\ Distinct(rs)
      /\ \A x \in Operations : Contains(rs, x) => Contains(records, x)
      /\ \A x \in Operations : Contains(records, x) /\ IsActive(opStatus, x) => Contains(rs, x)
  BY PrunedElements
<1>2. /\ Touch(rs, o) \in OperationSeqs
      /\ Distinct(rs) => Distinct(Touch(rs, o))
      /\ \A x \in Operations : Contains(Touch(rs, o), x) <=> Contains(rs, x)
  BY <1>1, TouchElements
<1>. QED BY <1>1, <1>2 DEF RecordsKept

\* The records with that of an operation that begins.
LEMMA BegunKeeps ==
  ASSUME OperationsTyped, RecordsAreBegun, NEW o \in Operations, opStatus[o] = "none",
         NEW rs \in Pruned(records),
         \A x \in Operations \ {o} : IsActive(opStatus, x) => IsActive(opStatus', x),
         IsActive(opStatus', o),
         \/ records' = Append(rs, o)
         \/ records' = Enforce(Append(rs, o), opStatus')
  PROVE  RecordsKept(o)
<1>1. PICK all : all = Append(rs, o)
  OBVIOUS
<1>2. /\ all \in OperationSeqs /\ Distinct(all) /\ Contains(all, o)
      /\ \A x \in Operations : Contains(all, x) => Contains(records, x) \/ x = o
      /\ \A x \in Operations : Contains(records, x) /\ IsActive(opStatus, x) => Contains(all, x)
  BY <1>1, BegunElements
<1>3. PICK status : status = opStatus'
  OBVIOUS
<1>4. /\ Enforce(all, status) \in OperationSeqs
      /\ Distinct(all) => Distinct(Enforce(all, status))
      /\ \A x \in Operations : Contains(Enforce(all, status), x) => Contains(all, x)
      /\ \A x \in Operations : Contains(all, x) /\ IsActive(status, x) =>
           Contains(Enforce(all, status), x)
  BY <1>2, EnforceElements
<1>5. CASE records' = Append(rs, o)
  BY <1>1, <1>2, <1>5 DEF RecordsKept
<1>6. CASE records' = Enforce(Append(rs, o), opStatus')
  BY <1>1, <1>2, <1>3, <1>4, <1>6 DEF RecordsKept
<1>. QED BY <1>5, <1>6

\* The steps that begin an operation, and those of what it does.
LEMMA OperationSteps ==
  ASSUME OperationsInv, NEW o \in Operations,
         \/ StartInstall(o) \/ StartConnect(o) \/ ConnectWaits(o) \/ WorkSettles(o)
         \/ ProcessExits(o) \/ ProcessTimesOut(o) \/ ProgressArrives(o)
         \/ GetOperation(o) \/ CancelOperation(o)
  PROVE  OperationsInv'
<1>1. OperationsTyped /\ records \in OperationSeqs /\ Distinct(records) /\ RecordsAreBegun
  BY DEF OperationsInv, OperationsTyped
<1>2. /\ opStatus \in [Operations -> OpStatuses] /\ opWork \in [Operations -> OpWorks]
      /\ opCommand \in [Operations -> BOOLEAN]
  BY <1>1 DEF OperationsTyped, OpStatuses, OpWorks
\* What o has before the step.
<1>3. /\ opWork[o] = "alive" => opCommand[o] /\ opStatus[o] = "waiting_for_input"
      /\ IsActive(opStatus, o) => Contains(records, o)
      /\ opStatus[o] = "waiting_for_input" <=>
           opWork[o] \in {"alive", "killed", "finishing"} /\ opStatus[o] # "cancelled"
      /\ opWork[o] \in {"succeeded", "failed"} =>
           opStatus[o] = IF opWork[o] = "succeeded" THEN "completed" ELSE "failed"
      /\ opWork[o] = "installing" =>
           /\ opStatus[o] \in {"running", "cancelled"}
           /\ o \notin opKnown => opStatus[o] = "running"
      /\ Contains(records, o) => opStatus[o] # "none"
  BY DEF OperationsInv, OperationsAreHeld, InstallingRuns, RecordsAreBegun, IsActive
<1>4. CASE StartInstall(o) \/ StartConnect(o)
  <2>1. /\ opStatus[o] = "none"
        /\ opStatus' = [opStatus EXCEPT ![o] = "running"]
        /\ opWork' = [opWork EXCEPT ![o] = "installing"] /\ opCommand' = opCommand
        /\ opKnown' = opKnown \/ opKnown' = opKnown \cup {o}
    BY <1>4 DEF StartInstall, StartConnect
  <2>2. PICK rs \in Pruned(records) : \/ records' = Append(rs, o)
                                      \/ records' = Enforce(Append(rs, o), opStatus')
    BY <1>4 DEF StartInstall, StartConnect
  <2>3. opStatus'[o] = "running" /\ opWork'[o] = "installing"
    BY <1>2, <2>1
  <2>4. \A x \in Operations \ {o} : IsActive(opStatus, x) => IsActive(opStatus', x)
    BY <1>2, <2>1 DEF IsActive
  <2>5. IsActive(opStatus', o)
    BY <2>3 DEF IsActive
  <2>6. RecordsKept(o)
    BY <1>1, <2>1, <2>2, <2>4, <2>5, BegunKeeps
  <2>7. OthersRest(o)
    BY <2>1 DEF OthersRest, OpStatuses, OpWorks
  <2>8. HeldAfter(o)
    BY <2>3 DEF HeldAfter
  <2>. QED BY <2>6, <2>7, <2>8, OneOperation
<1>5. CASE ConnectWaits(o)
  <2>1. /\ opStatus' = [opStatus EXCEPT ![o] = "waiting_for_input"]
        /\ opWork' = [opWork EXCEPT ![o] = "alive"]
        /\ opCommand' = [opCommand EXCEPT ![o] = TRUE]
        /\ opKnown' = opKnown \/ opKnown' = opKnown \cup {o}
        /\ records' = Enforce(Touch(records, o), opStatus')
        /\ opWork[o] = "installing" /\ o \notin opKnown
    BY <1>5 DEF ConnectWaits
  <2>2. opStatus'[o] = "waiting_for_input" /\ opWork'[o] = "alive" /\ opCommand'[o] = TRUE
    BY <1>2, <2>1
  <2>3. \A x \in Operations \ {o} : IsActive(opStatus, x) => IsActive(opStatus', x)
    BY <1>2, <2>1 DEF IsActive
  <2>4. Contains(records, o)
    BY <1>3, <2>1 DEF IsActive
  <2>5. RecordsKept(o)
    BY <1>1, <2>1, <2>3, <2>4, TouchEnforceKeeps
  <2>6. OthersRest(o)
    BY <2>1 DEF OthersRest, OpStatuses, OpWorks
  <2>7. HeldAfter(o)
    BY <2>2 DEF HeldAfter
  <2>. QED BY <2>5, <2>6, <2>7, OneOperation
\* The work is over and the record says how.
<1>6. ASSUME NEW result \in {"succeeded", "failed"}, Settles(o, result),
             records' = Touch(records, o) \/ records' = Enforce(Touch(records, o), opStatus'),
             opKnown' = opKnown \/ opKnown' = opKnown \cup {o}
      PROVE  OperationsInv'
  <2>1. /\ opStatus' =
             [opStatus EXCEPT ![o] = IF result = "succeeded" THEN "completed" ELSE "failed"]
        /\ opWork' = [opWork EXCEPT ![o] = result] /\ opCommand' = [opCommand EXCEPT ![o] = FALSE]
    BY <1>6 DEF Settles
  <2>2. /\ opStatus'[o] = IF result = "succeeded" THEN "completed" ELSE "failed"
        /\ opWork'[o] = result
    BY <1>2, <2>1
  <2>3. \A x \in Operations \ {o} : IsActive(opStatus, x) => IsActive(opStatus', x)
    BY <1>2, <2>1 DEF IsActive
  <2>4. ~ IsActive(opStatus', o)
    BY <2>2 DEF IsActive
  <2>5. RecordsKept(o)
    BY <1>1, <1>6, <2>3, <2>4, TouchKeeps, TouchEnforceKeeps
  <2>6. OthersRest(o)
    BY <1>6, <2>1 DEF OthersRest, OpStatuses, OpWorks
  <2>7. HeldAfter(o)
    BY <2>2 DEF HeldAfter
  <2>. QED BY <2>5, <2>6, <2>7, OneOperation
<1>7. CASE WorkSettles(o)
  BY <1>6, <1>7 DEF WorkSettles
<1>8. CASE ProcessExits(o)
  <2>1. CASE Settles(o, "failed") /\ records' = Touch(records, o) /\ opKnown' = opKnown
    BY <1>6, <2>1
  <2>2. CASE /\ opWork' = [opWork EXCEPT ![o] = "finishing"] /\ opStatus' = opStatus
             /\ opCommand' = opCommand /\ records' = records /\ opKnown' = opKnown
    <3>1. opWork[o] \in {"alive", "killed"}
      BY <1>8 DEF ProcessExits
    <3>2. opWork'[o] = "finishing"
      BY <1>2, <2>2
    <3>3. RecordsKept(o)
      BY <1>1, <1>3, <2>2 DEF RecordsKept
    <3>4. OthersRest(o)
      BY <2>2 DEF OthersRest, OpWorks
    <3>5. HeldAfter(o)
      BY <1>3, <2>2, <3>1, <3>2 DEF HeldAfter
    <3>. QED BY <3>3, <3>4, <3>5, OneOperation
  <2>. QED BY <1>8, <2>1, <2>2 DEF ProcessExits
<1>9. CASE ProcessTimesOut(o)
  <2>1. /\ opWork' = [opWork EXCEPT ![o] = "killed"] /\ opStatus' = opStatus
        /\ opCommand' = opCommand /\ records' = records /\ opKnown' = opKnown
        /\ opWork[o] = "alive"
    BY <1>9 DEF ProcessTimesOut
  <2>2. opWork'[o] = "killed"
    BY <1>2, <2>1
  <2>3. RecordsKept(o)
    BY <1>1, <1>3, <2>1 DEF RecordsKept
  <2>4. OthersRest(o)
    BY <2>1 DEF OthersRest, OpWorks
  <2>5. HeldAfter(o)
    BY <1>3, <2>1, <2>2 DEF HeldAfter
  <2>. QED BY <2>3, <2>4, <2>5, OneOperation
<1>10. CASE ProgressArrives(o)
  <2>1. /\ opWork' = opWork /\ opStatus' = opStatus /\ opCommand' = opCommand
        /\ records' = Touch(records, o) /\ opKnown' = opKnown
    BY <1>10 DEF ProgressArrives
  <2>2. IsActive(opStatus', o) => Contains(records, o)
    BY <1>3, <2>1
  <2>3. RecordsKept(o)
    BY <1>1, <2>1, <2>2, TouchKeeps
  <2>4. OthersRest(o)
    BY <2>1 DEF OthersRest
  <2>5. HeldAfter(o)
    <3>1. Contains(records', o) => Contains(records, o)
      BY <1>1, <2>1, TouchElements
    <3>. QED BY <1>3, <2>1, <3>1 DEF HeldAfter
  <2>. QED BY <2>3, <2>4, <2>5, OneOperation
<1>11. CASE GetOperation(o)
  <2>1. PICK rs \in Pruned(records) : records' = rs
    BY <1>11 DEF GetOperation
  <2>2. opWork' = opWork /\ opStatus' = opStatus /\ opCommand' = opCommand /\ opKnown' = opKnown
    BY <1>11 DEF GetOperation
  <2>3. /\ \A x \in Operations : Contains(rs, x) => Contains(records, x)
        /\ \A x \in Operations : Contains(records, x) /\ IsActive(opStatus, x) => Contains(rs, x)
    BY <1>1, PrunedElements
  <2>4. IsActive(opStatus', o) => Contains(rs, o)
    BY <1>3, <2>2, <2>3
  <2>5. RecordsKept(o)
    BY <1>1, <2>1, <2>4, PrunedKeeps
  <2>6. OthersRest(o)
    BY <2>2 DEF OthersRest
  <2>7. HeldAfter(o)
    BY <1>3, <2>1, <2>2, <2>3 DEF HeldAfter
  <2>. QED BY <2>5, <2>6, <2>7, OneOperation
<1>12. CASE CancelOperation(o)
  <2>1. PICK rs \in Pruned(records) :
          IF Contains(rs, o) /\ IsActive(opStatus, o)
          THEN /\ opWork' = [opWork EXCEPT ![o] =
                              IF opCommand[o] /\ opWork[o] = "alive" THEN "killed" ELSE opWork[o]]
               /\ opStatus' = [opStatus EXCEPT ![o] = "cancelled"]
               /\ records' = Touch(rs, o)
          ELSE records' = rs /\ UNCHANGED <<opStatus, opWork>>
    BY <1>12 DEF CancelOperation
  <2>2. opCommand' = opCommand /\ opKnown' = opKnown /\ o \in opKnown
    BY <1>12 DEF CancelOperation
  <2>3. /\ rs \in OperationSeqs
        /\ \A x \in Operations : Contains(rs, x) => Contains(records, x)
        /\ \A x \in Operations : Contains(records, x) /\ IsActive(opStatus, x) => Contains(rs, x)
    BY <1>1, PrunedElements
  <2>4. CASE Contains(rs, o) /\ IsActive(opStatus, o)
    <3>1. PICK w \in OpWorks :
            w = IF opCommand[o] /\ opWork[o] = "alive" THEN "killed" ELSE opWork[o]
      BY <1>2 DEF OpWorks
    <3>2. /\ opWork' = [opWork EXCEPT ![o] = w] /\ opStatus' = [opStatus EXCEPT ![o] = "cancelled"]
          /\ records' = Touch(rs, o)
      BY <2>1, <2>4, <3>1
    <3>3. opWork'[o] = w /\ opStatus'[o] = "cancelled"
      BY <1>2, <3>2
    <3>4. ~ IsActive(opStatus', o)
      BY <3>3 DEF IsActive
    <3>5. RecordsKept(o)
      BY <1>1, <3>2, <3>4, PrunedKeeps
    <3>6. OthersRest(o)
      BY <2>2, <3>2 DEF OthersRest, OpStatuses
    <3>7. HeldAfter(o)
      BY <1>3, <2>2, <2>4, <3>1, <3>3 DEF HeldAfter, IsActive
    <3>. QED BY <3>5, <3>6, <3>7, OneOperation
  <2>5. CASE ~ (Contains(rs, o) /\ IsActive(opStatus, o))
    <3>1. records' = rs /\ opWork' = opWork /\ opStatus' = opStatus
      BY <2>1, <2>5
    <3>2. IsActive(opStatus', o) => Contains(rs, o)
      BY <1>3, <2>3, <3>1
    <3>3. RecordsKept(o)
      BY <1>1, <3>1, <3>2, PrunedKeeps
    <3>4. OthersRest(o)
      BY <2>2, <3>1 DEF OthersRest
    <3>5. HeldAfter(o)
      BY <1>3, <2>2, <2>3, <3>1 DEF HeldAfter
    <3>. QED BY <3>3, <3>4, <3>5, OneOperation
  <2>. QED BY <2>4, <2>5
<1>. QED BY <1>4, <1>5, <1>7, <1>8, <1>9, <1>10, <1>11, <1>12

\* There are no records at the start.
LEMMA OperationsInitially == OperationsInit => OperationsInv
<1>1. SUFFICES ASSUME OperationsInit PROVE OperationsInv
  OBVIOUS
<1>2. records = <<>>
  BY <1>1 DEF OperationsInit
<1>3. records \in OperationSeqs /\ Distinct(records) /\ \A x : ~ Contains(records, x)
  BY <1>2, EmptySeq DEF OperationSeqs, Distinct, Contains
<1>4. \A o \in Operations : opStatus[o] = "none" /\ opWork[o] = "none"
  BY <1>1 DEF OperationsInit
<1>5. OperationsTyped
  BY <1>1, <1>3 DEF OperationsInit, OperationsTyped
<1>. QED BY <1>3, <1>4, <1>5
        DEF OperationsInv, RecordsAreBegun, InstallingRuns, OperationsAreHeld, IsActive

\* The invariant is inductive.
LEMMA OperationsNextStep == OperationsInv /\ [OperationsNext]_operationVars => OperationsInv'
<1>1. SUFFICES ASSUME OperationsInv, [OperationsNext]_operationVars PROVE OperationsInv'
  OBVIOUS
<1>2. CASE UNCHANGED operationVars
  BY <1>1, <1>2 DEF operationVars, OperationsInv, OperationsTyped, RecordsAreBegun, InstallingRuns,
                    OperationsAreHeld, IsActive
<1>3. CASE OperationsNext
  <2>1. PICK o \in Operations :
          \/ StartInstall(o) \/ StartConnect(o) \/ ConnectWaits(o) \/ WorkSettles(o)
          \/ ProcessExits(o) \/ ProcessTimesOut(o) \/ ProgressArrives(o)
          \/ GetOperation(o) \/ CancelOperation(o)
    BY <1>3 DEF OperationsNext
  <2>. QED BY <1>1, <2>1, OperationSteps
<1>. QED BY <1>1, <1>2, <1>3

\* The invariant says what the run checks.
LEMMA OperationsFollows == OperationsInv => OperationsTypeOK /\ OperationsAreHeld
<1>1. SUFFICES ASSUME OperationsInv PROVE OperationsTypeOK /\ OperationsAreHeld
  OBVIOUS
<1>2. records \in Seq(Operations) /\ Distinct(records)
  BY <1>1 DEF OperationsInv, OperationsTyped, OperationSeqs
<1>3. DOMAIN records = 1 .. Len(records) /\ \A i \in 1 .. Len(records) : records[i] \in Operations
  BY <1>2, LenProperties, ElementOfSeq
<1>4. IsInjective(records)
  BY <1>2, <1>3 DEF Distinct, IsInjective
<1>5. ToSet(records) \subseteq Operations
  BY <1>3 DEF ToSet
<1>. QED BY <1>1, <1>4, <1>5 DEF OperationsInv, OperationsTyped, OperationsTypeOK

-----------------------------------------------------------------------------
(***************************************************************************)
(* Uploads: what was sent of every file, what the server has counted of    *)
(* it, and what the directory and the targets hold.                        *)
(***************************************************************************)
\* What a file of an upload can hold.
FileContents == {None} \cup {SentOf(u, f, n) : u \in Uploads, f \in Files, n \in 0 .. Len(Parts)}

\* What the directory holds of a file after n chunks: appendFile() makes no empty file.
StoredOf(u, f, n) == IF SentOf(u, f, n) = <<>> THEN None ELSE SentOf(u, f, n)

\* The types, each variable's by itself.
UploadTyped ==
  /\ browser \in [Uploads -> {"idle", "waiting", "failing", "ok", "failed"}]
  /\ uploadId \in [Uploads -> BOOLEAN] /\ chunksSent \in [Uploads -> 0 .. Len(Parts)]
  /\ call \in [Uploads -> {"idle", "create", "mkdir", "patch", "write", "complete", "check",
                           "move", "answer"}]
  /\ filesMoved \in [Uploads -> 0 .. NumFiles]
  /\ session \in [Uploads -> BOOLEAN] /\ expired \in [Uploads -> BOOLEAN]
  /\ bytesReceived \in [Uploads -> [Files -> 0 .. Len(Parts)]]
  /\ tempDir \in [Uploads -> BOOLEAN] /\ removing \in [Uploads -> BOOLEAN]
  /\ tempFile \in [Uploads -> [Files -> FileContents]] /\ targetFile \in [Files -> FileContents]
  /\ restarted \in BOOLEAN /\ uploadFaults \in 0 .. MaxUploadFaults

\* A client waits for the handler of its request, and sends the next request after it.
OneHandler == \A u \in Uploads :
  /\ browser[u] = "waiting" => call[u] # "idle"
  /\ browser[u] = "idle" => call[u] = "idle"

\* The upload can still succeed: its client goes on, or the handler of its last request runs.
CanSucceed(u) == browser[u] = "idle" \/ call[u] # "idle"

\* The requests come in their order: the session, every chunk, and the end.
RequestsInOrder == \A u \in Uploads :
  /\ ~ uploadId[u] => chunksSent[u] = 0
  /\ call[u] \in {"create", "mkdir"} => ~ uploadId[u]
  /\ call[u] \in {"patch", "write"} => chunksSent[u] < Len(Parts)
  /\ call[u] \in {"complete", "check", "move", "answer"} => chunksSent[u] = Len(Parts)

\* Before its session is made an upload has nothing in its directory.
NothingStored == \A u \in Uploads :
  call[u] \in {"create", "mkdir"} \/ (browser[u] = "idle" /\ ~ uploadId[u]) =>
    \A f \in Files : tempFile[u][f] = None

\* Files are moved by the last request only, all of them before it is answered.
MovedAtTheEnd == \A u \in Uploads :
  /\ CanSucceed(u) /\ call[u] \notin {"move", "answer"} => filesMoved[u] = 0
  /\ call[u] = "answer" \/ browser[u] = "ok" => filesMoved[u] = NumFiles

\* The server has counted the chunks the client was told of, and no others.
ChunksCounted == \A u \in Uploads :
  CanSucceed(u) => \A f \in Files : bytesReceived[u][f] = Len(SentOf(u, f, chunksSent[u]))

\* The directory holds what was sent of every file that is not moved yet.
ChunksStored == \A u \in Uploads :
  CanSucceed(u) /\ tempDir[u] =>
    \A f \in Files : filesMoved[u] < f => tempFile[u][f] = StoredOf(u, f, chunksSent[u])

\* What is moved is a whole file, and stays there.
MovedIsWhole ==
  /\ \A f \in Files : targetFile[f] # None => \E u \in Uploads : targetFile[f] = Content(u, f)
  /\ \A u \in Uploads : \A f \in Files : f <= filesMoved[u] => targetFile[f] # None

UploadInv ==
  /\ UploadTyped /\ OneHandler /\ RequestsInOrder /\ NothingStored /\ MovedAtTheEnd
  /\ ChunksCounted /\ ChunksStored /\ MovedIsWhole /\ NoLeftovers

\* The numbers of files and chunks.
LEMMA UploadNumbers ==
  /\ NumFiles \in Nat /\ NumFiles # 0 /\ Len(Parts) \in Nat /\ MaxUploadFaults \in Nat
  /\ Parts \in Seq(Files) /\ DOMAIN Parts = 1 .. Len(Parts)
  /\ \A k \in 1 .. Len(Parts) : Parts[k] \in Files
  /\ \A f \in Files : f \in Nat /\ f # 0 /\ f <= NumFiles
<1>1. /\ NumFiles \in Nat /\ NumFiles # 0 /\ Parts \in Seq(Files) /\ MaxUploadFaults \in Nat
  BY UploadAssumption DEF Files
<1>2. Len(Parts) \in Nat /\ DOMAIN Parts = 1 .. Len(Parts)
      /\ \A k \in 1 .. Len(Parts) : Parts[k] \in Files
  BY <1>1, LenProperties, ElementOfSeq
<1>. QED BY <1>1, <1>2 DEF Files

\* What is sent grows by each chunk of the file.
LEMMA SentGrows ==
  ASSUME NEW u \in Uploads, NEW f \in Files
  PROVE  /\ SentOf(u, f, 0) = <<>>
         /\ \A n \in 0 .. Len(Parts) :
              /\ SentOf(u, f, n) \in Seq({u} \X (1 .. Len(Parts)))
              /\ Len(SentOf(u, f, n)) \in 0 .. n
         /\ \A n \in 0 .. Len(Parts) : n < Len(Parts) =>
              SentOf(u, f, n + 1) = IF Parts[n + 1] = f THEN Append(SentOf(u, f, n), <<u, n + 1>>)
                                    ELSE SentOf(u, f, n)
<1>. USE UploadNumbers
<1>1. PICK T : T = {<<u, k>> : k \in {j \in DOMAIN Parts : Parts[j] = f}}
  OBVIOUS
<1>2. PICK S : S = {u} \X (1 .. Len(Parts))
  OBVIOUS
<1>3. \A n : SentOf(u, f, n) = Filter([k \in 1 .. n |-> <<u, k>>], T)
  BY <1>1 DEF SentOf
<1>4. ASSUME NEW n \in 0 .. Len(Parts)
      PROVE  /\ [k \in 1 .. n |-> <<u, k>>] \in Seq(S)
             /\ Len([k \in 1 .. n |-> <<u, k>>]) = n
  <2>1. PICK s : s = [k \in 1 .. n |-> <<u, k>>]
    OBVIOUS
  <2>2. \A k \in 1 .. n : s[k] \in S
    BY <1>2, <2>1
  <2>3. s \in [1 .. n -> S]
    BY <2>1, <2>2
  <2>4. n \in Nat
    OBVIOUS
  <2>5. s \in Seq(S)
    BY <2>3, <2>4, SeqDef
  <2>6. Len(s) = n
    BY <2>3, <2>4, <2>5, LenProperties
  <2>. QED BY <2>1, <2>5, <2>6
<1>5. SentOf(u, f, 0) = <<>>
  <2>1. [k \in 1 .. 0 |-> <<u, k>>] = <<>>
    <3>1. PICK s : s = [k \in 1 .. 0 |-> <<u, k>>]
      OBVIOUS
    <3>2. s \in Seq(S) /\ Len(s) = 0
      BY <1>4, <3>1
    <3>. QED BY <3>1, <3>2, EmptySeq
  <2>. QED BY <1>3, <2>1, FilterEmpty
<1>6. ASSUME NEW n \in 0 .. Len(Parts)
      PROVE  /\ SentOf(u, f, n) \in Seq(S)
             /\ Len(SentOf(u, f, n)) \in 0 .. n
  <2>1. PICK s : s = [k \in 1 .. n |-> <<u, k>>]
    OBVIOUS
  <2>2. s \in Seq(S) /\ Len(s) = n
    BY <1>4, <2>1
  <2>3. PICK w : w = Filter(s, T)
    OBVIOUS
  <2>4. w \in Seq(S) /\ Len(w) <= Len(s)
    BY <2>2, <2>3, FilterElements
  <2>5. Len(w) \in Nat
    BY <2>4, LenProperties
  <2>. QED BY <1>3, <2>1, <2>2, <2>3, <2>4, <2>5
<1>7. ASSUME NEW n \in 0 .. Len(Parts), n < Len(Parts)
      PROVE  SentOf(u, f, n + 1) = IF Parts[n + 1] = f THEN Append(SentOf(u, f, n), <<u, n + 1>>)
                                   ELSE SentOf(u, f, n)
  <2>1. PICK s : s = [k \in 1 .. n |-> <<u, k>>]
    OBVIOUS
  <2>2. PICK t : t = [k \in 1 .. (n + 1) |-> <<u, k>>]
    OBVIOUS
  <2>3. n + 1 \in 0 .. Len(Parts) /\ n + 1 \in 1 .. Len(Parts)
    BY <1>7
  <2>4. s \in Seq(S) /\ Len(s) = n /\ t \in Seq(S) /\ Len(t) = n + 1
    BY <1>4, <2>1, <2>2, <2>3
  <2>5. PICK e : e = <<u, n + 1>>
    OBVIOUS
  <2>6. e \in S /\ (e \in T <=> Parts[n + 1] = f)
    BY <1>1, <1>2, <2>3, <2>5
  <2>7. PICK a : a = Append(s, e)
    OBVIOUS
  <2>8. /\ a \in Seq(S) /\ Len(a) = n + 1 /\ a[n + 1] = e
        /\ \A k \in 1 .. n : a[k] = s[k]
    BY <2>4, <2>6, <2>7, AppendProperties
  <2>9. \A k \in 1 .. (n + 1) : t[k] = a[k]
    <3>1. \A k \in 1 .. (n + 1) : k \in 1 .. n \/ k = n + 1
      OBVIOUS
    <3>2. \A k \in 1 .. n : a[k] = <<u, k>>
      BY <2>1, <2>8
    <3>3. a[n + 1] = <<u, n + 1>>
      BY <2>5, <2>8
    <3>. QED BY <2>2, <3>1, <3>2, <3>3
  <2>10. t = a
    BY <2>4, <2>8, <2>9, SeqEqual
  <2>11. Filter(a, T) = IF e \in T THEN Append(Filter(s, T), e) ELSE Filter(s, T)
    BY <2>4, <2>6, <2>7, FilterAppend
  <2>. QED BY <1>3, <2>1, <2>2, <2>5, <2>6, <2>10, <2>11
<1>. QED BY <1>2, <1>5, <1>6, <1>7

\* What is sent can be told from no file.
LEMMA SentIsContent ==
  ASSUME NEW u \in Uploads, NEW f \in Files, NEW n \in 0 .. Len(Parts)
  PROVE  /\ SentOf(u, f, n) # None /\ SentOf(u, f, n) \in FileContents
         /\ StoredOf(u, f, n) \in FileContents /\ None \in FileContents
         /\ Len(SentOf(u, f, n)) = 0 <=> SentOf(u, f, n) = <<>>
         /\ Len(SentOf(u, f, n)) \in 0 .. n
<1>. USE UploadNumbers
<1>1. PICK w : w = SentOf(u, f, n)
  OBVIOUS
<1>2. w \in Seq({u} \X (1 .. Len(Parts))) /\ Len(w) \in 0 .. n
  BY <1>1, SentGrows
<1>3. w # None
  <2>1. SUFFICES ASSUME w = None PROVE FALSE
    OBVIOUS
  <2>2. Len(w) = 1
    BY <2>1 DEF None
  <2>3. w[1] = <<"no file", 0>>
    BY <2>1 DEF None
  <2>4. 1 \in 1 .. Len(w)
    BY <2>2
  <2>5. w[1] \in {u} \X (1 .. Len(Parts))
    BY <1>2, <2>4, ElementOfSeq
  <2>6. <<"no file", 0>> \in {u} \X (1 .. Len(Parts))
    BY <2>3, <2>5
  <2>7. 0 \in 1 .. Len(Parts)
    BY <2>6
  <2>. QED BY <2>7
<1>4. Len(w) = 0 <=> w = <<>>
  BY <1>2, EmptySeq
<1>5. w \in FileContents /\ None \in FileContents
  BY <1>1 DEF FileContents
<1>. QED BY <1>1, <1>2, <1>3, <1>4, <1>5 DEF StoredOf

\* A handler that has answered: a client that waits goes on.
LEMMA AnsweredOk ==
  ASSUME UploadTyped, NEW u \in Uploads, NEW what \in {"create", "patch", "complete"},
         AnswerOk(u, what)
  PROVE  /\ call' = [call EXCEPT ![u] = "idle"]
         /\ browser' \in [Uploads -> {"idle", "waiting", "failing", "ok", "failed"}]
         /\ uploadId' \in [Uploads -> BOOLEAN]
         /\ \A v \in Uploads : call'[v] = IF v = u THEN "idle" ELSE call[v]
         /\ \A v \in Uploads \ {u} : /\ browser'[v] = browser[v] /\ uploadId'[v] = uploadId[v]
                                     /\ chunksSent'[v] = chunksSent[v]
         /\ browser[u] # "waiting" =>
              browser' = browser /\ uploadId' = uploadId /\ chunksSent' = chunksSent
         /\ browser[u] = "waiting" =>
              browser'[u] = (IF what = "complete" THEN "ok" ELSE "idle") /\ uploadId'[u]
         /\ browser'[u] # "waiting"
         /\ what # "patch" => chunksSent' = chunksSent
         /\ what = "patch" /\ browser[u] = "waiting" =>
              /\ chunksSent' = [chunksSent EXCEPT ![u] = chunksSent[u] + 1]
              /\ chunksSent'[u] = chunksSent[u] + 1
<1>. USE DEF UploadTyped, AnswerOk
<1>1. /\ call' = [call EXCEPT ![u] = "idle"]
      /\ \A v \in Uploads : call'[v] = IF v = u THEN "idle" ELSE call[v]
  OBVIOUS
<1>2. CASE browser[u] # "waiting"
  BY <1>1, <1>2 DEF browserSide
<1>3. CASE browser[u] = "waiting"
  <2>1. /\ browser' = [browser EXCEPT ![u] = IF what = "complete" THEN "ok" ELSE "idle"]
        /\ uploadId' = [uploadId EXCEPT ![u] = TRUE]
    BY <1>3
  <2>2. what # "patch" => chunksSent' = chunksSent
    BY <1>3
  <2>3. what = "patch" => chunksSent' = [chunksSent EXCEPT ![u] = chunksSent[u] + 1]
    BY <1>3
  <2>. QED BY <1>1, <1>3, <2>1, <2>2, <2>3
<1>. QED BY <1>2, <1>3

\* A chunk is written: its file's content is longer by it, the others are what they were.
ChunkWritten(u, f) ==
  LET n == chunksSent[u] IN
  /\ n \in Nat /\ n < Len(Parts)
  /\ SentOf(u, f, n + 1) # <<>> /\ SentOf(u, f, n + 1) \in FileContents
  /\ Len(SentOf(u, f, n + 1)) \in 0 .. Len(Parts)
  /\ tempFile' = [tempFile EXCEPT ![u] = [tempFile[u] EXCEPT ![f] = SentOf(u, f, n + 1)]]
  /\ bytesReceived' =
       [bytesReceived EXCEPT ![u] = [bytesReceived[u] EXCEPT ![f] = Len(SentOf(u, f, n + 1))]]
  /\ \A g \in Files \ {f} : SentOf(u, g, n + 1) = SentOf(u, g, n)

\* A write that succeeds appends the chunk to what its file held.
LEMMA PatchWritten ==
  ASSUME UploadInv, NEW u \in Uploads, PatchWrites(u)
  PROVE  /\ \E f \in Files : ChunkWritten(u, f)
         /\ UploadTyped
<1>. USE UploadNumbers
<1>1. PICK n \in 0 .. Len(Parts) : n = chunksSent[u]
  BY DEF UploadInv, UploadTyped
<1>2. n < Len(Parts) /\ n + 1 \in 0 .. Len(Parts) /\ n + 1 \in 1 .. Len(Parts)
  BY <1>1 DEF UploadInv, RequestsInOrder, PatchWrites
<1>3. PICK f \in Files : f = Parts[n + 1] /\ f = FileOf(u)
  BY <1>1, <1>2 DEF FileOf, Chunk
<1>4. PICK old : old = SentOf(u, f, n)
  OBVIOUS
<1>5. PICK new : new = SentOf(u, f, n + 1)
  OBVIOUS
<1>6. /\ new = Append(old, <<u, n + 1>>) /\ old # None /\ Len(old) \in 0 .. n
      /\ old \in Seq({u} \X (1 .. Len(Parts))) /\ (Len(old) = 0 <=> old = <<>>)
      /\ new \in FileContents /\ Len(new) \in 0 .. (n + 1)
  <2>1. new = Append(old, <<u, n + 1>>)
    BY <1>2, <1>3, <1>4, <1>5, SentGrows
  <2>2. old # None /\ Len(old) \in 0 .. n /\ (Len(old) = 0 <=> old = <<>>)
    BY <1>4, SentIsContent
  <2>3. old \in Seq({u} \X (1 .. Len(Parts)))
    BY <1>4, SentGrows
  <2>4. new \in FileContents /\ Len(new) \in 0 .. (n + 1)
    BY <1>2, <1>5, SentIsContent
  <2>. QED BY <2>1, <2>2, <2>3, <2>4
<1>7. Len(new) = Len(old) + 1 /\ new # <<>>
  <2>1. <<u, n + 1>> \in {u} \X (1 .. Len(Parts))
    BY <1>2
  <2>2. Len(new) = Len(old) + 1
    BY <1>6, <2>1, AppendProperties
  <2>. QED BY <1>6, <2>2, EmptySeq, SMTT(30)
<1>8. /\ call[u] = "write" /\ tempDir[u] /\ filesMoved[u] = 0 /\ CanSucceed(u)
  BY DEF UploadInv, PatchWrites, MovedAtTheEnd, CanSucceed
<1>9. bytesReceived[u][f] = Len(old)
  BY <1>1, <1>4, <1>8 DEF UploadInv, ChunksCounted
<1>10. tempFile[u][f] = IF old = <<>> THEN None ELSE old
  BY <1>1, <1>4, <1>8 DEF UploadInv, ChunksStored, StoredOf
<1>11. tempFile' = [tempFile EXCEPT ![u] = [tempFile[u] EXCEPT ![f] = new]]
  <2>1. tempFile' = [tempFile EXCEPT ![u] = [tempFile[u] EXCEPT ![f] =
                       Append(IF tempFile[u][f] = None THEN <<>> ELSE tempFile[u][f],
                              <<u, n + 1>>)]]
    BY <1>1, <1>3 DEF UploadInv, UploadTyped, PatchWrites, Chunk
  <2>2. (IF tempFile[u][f] = None THEN <<>> ELSE tempFile[u][f]) = old
    BY <1>6, <1>10
  <2>. QED BY <1>6, <2>1, <2>2
<1>12. bytesReceived' = [bytesReceived EXCEPT ![u] = [bytesReceived[u] EXCEPT ![f] = Len(new)]]
  BY <1>3, <1>7, <1>9 DEF UploadInv, UploadTyped, PatchWrites
<1>13. \A g \in Files \ {f} : SentOf(u, g, n + 1) = SentOf(u, g, n)
  BY <1>2, <1>3, SentGrows
<1>14. ChunkWritten(u, f)
  <2>1. n \in Nat /\ n < Len(Parts) /\ Len(new) \in 0 .. Len(Parts)
    BY <1>2, <1>6
  <2>. QED BY <1>1, <1>5, <1>6, <1>7, <1>11, <1>12, <1>13, <2>1 DEF ChunkWritten
<1>. QED BY <1>14 DEF UploadInv

\* The answer to a chunk: the client sends the next one, unless it has given up.
LEMMA PatchAnswered ==
  ASSUME UploadInv, NEW u \in Uploads, PatchWrites(u)
  PROVE  /\ browser' \in [Uploads -> {"idle", "waiting", "failing", "ok", "failed"}]
         /\ uploadId' \in [Uploads -> BOOLEAN] /\ chunksSent' \in [Uploads -> 0 .. Len(Parts)]
         /\ \A v \in Uploads \ {u} : /\ browser'[v] = browser[v] /\ uploadId'[v] = uploadId[v]
                                     /\ chunksSent'[v] = chunksSent[v] /\ call'[v] = call[v]
         /\ call' = [call EXCEPT ![u] = "idle"] /\ call'[u] = "idle" /\ call[u] = "write"
         /\ tempDir[u] /\ tempDir' = tempDir /\ filesMoved' = filesMoved
         /\ browser[u] # "waiting" =>
              /\ browser' = browser /\ uploadId' = uploadId /\ chunksSent' = chunksSent
              /\ browser'[u] # "idle"
         /\ browser[u] = "waiting" =>
              browser'[u] = "idle" /\ uploadId'[u] /\ chunksSent'[u] = chunksSent[u] + 1
<1>. USE UploadNumbers
<1>1. UploadTyped /\ OneHandler /\ RequestsInOrder
  BY DEF UploadInv
<1>2. PICK what \in {"create", "patch", "complete"} : what = "patch"
  OBVIOUS
<1>3. AnswerOk(u, what)
  BY <1>2 DEF PatchWrites
<1>4. /\ call[u] = "write" /\ tempDir[u] /\ tempDir' = tempDir /\ filesMoved' = filesMoved
      /\ browser[u] # "idle" /\ chunksSent[u] < Len(Parts)
  BY <1>1 DEF PatchWrites, OneHandler, RequestsInOrder
<1>5. /\ call' = [call EXCEPT ![u] = "idle"]
      /\ browser' \in [Uploads -> {"idle", "waiting", "failing", "ok", "failed"}]
      /\ uploadId' \in [Uploads -> BOOLEAN]
      /\ \A v \in Uploads : call'[v] = IF v = u THEN "idle" ELSE call[v]
      /\ \A v \in Uploads \ {u} : /\ browser'[v] = browser[v] /\ uploadId'[v] = uploadId[v]
                                  /\ chunksSent'[v] = chunksSent[v]
      /\ browser[u] # "waiting" =>
           browser' = browser /\ uploadId' = uploadId /\ chunksSent' = chunksSent
      /\ browser[u] = "waiting" => browser'[u] = "idle" /\ uploadId'[u]
      /\ browser[u] = "waiting" =>
           /\ chunksSent' = [chunksSent EXCEPT ![u] = chunksSent[u] + 1]
           /\ chunksSent'[u] = chunksSent[u] + 1
  BY <1>1, <1>2, <1>3, AnsweredOk
<1>6. chunksSent' \in [Uploads -> 0 .. Len(Parts)]
  <2>1. chunksSent \in [Uploads -> 0 .. Len(Parts)]
    BY <1>1 DEF UploadTyped
  <2>2. CASE browser[u] # "waiting"
    BY <1>5, <2>1, <2>2
  <2>3. CASE browser[u] = "waiting"
    <3>1. chunksSent[u] + 1 \in 0 .. Len(Parts)
      BY <1>4, <2>1
    <3>. QED BY <1>5, <2>1, <2>3, <3>1
  <2>. QED BY <2>2, <2>3
<1>. QED BY <1>4, <1>5, <1>6

\* The next file is moved: it is whole.
FileIsMoved(u, f) ==
  /\ filesMoved[u] \in Nat /\ f = filesMoved[u] + 1
  /\ filesMoved' = [filesMoved EXCEPT ![u] = f]
  /\ targetFile' = [targetFile EXCEPT ![f] = Content(u, f)]
  /\ tempFile' = [tempFile EXCEPT ![u] = [tempFile[u] EXCEPT ![f] = None]]

\* A file that is moved holds the whole content.
LEMMA FileMoved ==
  ASSUME UploadInv, NEW u \in Uploads, CompleteMoves(u)
  PROVE  \E f \in Files : FileIsMoved(u, f)
<1>. USE UploadNumbers
<1>1. PICK f \in Files : f = filesMoved[u] + 1
  BY DEF CompleteMoves
<1>2. filesMoved[u] \in Nat /\ filesMoved[u] < f
  BY <1>1 DEF UploadInv, UploadTyped
<1>3. call[u] = "move" /\ tempDir[u] /\ CanSucceed(u) /\ chunksSent[u] = Len(Parts)
  BY DEF UploadInv, CompleteMoves, RequestsInOrder, CanSucceed
<1>4. tempFile[u][f] = StoredOf(u, f, Len(Parts))
  BY <1>2, <1>3 DEF UploadInv, ChunksStored
<1>5. Len(Content(u, f)) = 0 <=> Content(u, f) = <<>>
  BY SentIsContent DEF Content
<1>6. (IF SizeOf(u, f) = 0 THEN <<>> ELSE tempFile[u][f]) = Content(u, f)
  BY <1>4, <1>5 DEF SizeOf, StoredOf, Content
<1>7. /\ targetFile' = [targetFile EXCEPT ![f] = IF SizeOf(u, f) = 0 THEN <<>> ELSE tempFile[u][f]]
      /\ tempFile' = [tempFile EXCEPT ![u] = [tempFile[u] EXCEPT ![f] = None]]
      /\ filesMoved' = [filesMoved EXCEPT ![u] = f]
  BY <1>1 DEF CompleteMoves
<1>. QED BY <1>1, <1>2, <1>6, <1>7 DEF FileIsMoved

\* Every step keeps the types.
LEMMA UploadStepsTyped ==
  ASSUME UploadInv, UploadNext
  PROVE  UploadTyped'
<1>. USE UploadNumbers DEF UploadInv, UploadTyped
<1>1. ASSUME NEW u \in Uploads, SendRequest(u) PROVE UploadTyped'
  BY <1>1 DEF SendRequest, NextRequest, sessions, disk
<1>2. ASSUME NEW u \in Uploads, GiveUp(u) PROVE UploadTyped'
  BY <1>2 DEF GiveUp, sessions, disk
<1>3. ASSUME NEW u \in Uploads, DeleteRequest(u) PROVE UploadTyped'
  BY <1>3 DEF DeleteRequest, Forget, disk
<1>4. ASSUME NEW u \in Uploads, CreateChecks(u) PROVE UploadTyped'
  BY <1>4 DEF CreateChecks, AnswerError, browserSide, sessions, disk
<1>5. ASSUME NEW u \in Uploads, CreateMakes(u) PROVE UploadTyped'
  BY <1>5, ZenonT(60) DEF CreateMakes, AnswerOk, browserSide
<1>6. ASSUME NEW u \in Uploads, NotFound(u) PROVE UploadTyped'
  BY <1>6 DEF NotFound, Forget, AnswerError, disk
<1>7. ASSUME NEW u \in Uploads, PatchArrives(u) PROVE UploadTyped'
  <2>1. CASE NotFound(u)
    BY <1>6, <2>1
  <2>2. CASE ~ NotFound(u)
    BY <1>7, <2>2 DEF PatchArrives, AnswerError, browserSide, sessions, disk
  <2>. QED BY <2>1, <2>2
<1>8. ASSUME NEW u \in Uploads, PatchWrites(u) PROVE UploadTyped'
  <2>1. PICK f \in Files : ChunkWritten(u, f)
    BY <1>8, PatchWritten
  <2>2. /\ bytesReceived' \in [Uploads -> [Files -> 0 .. Len(Parts)]]
        /\ tempFile' \in [Uploads -> [Files -> FileContents]]
    BY <2>1 DEF ChunkWritten
  <2>3. /\ browser' \in [Uploads -> {"idle", "waiting", "failing", "ok", "failed"}]
        /\ uploadId' \in [Uploads -> BOOLEAN] /\ call' = [call EXCEPT ![u] = "idle"]
        /\ chunksSent' \in [Uploads -> 0 .. Len(Parts)]
    BY <1>8, PatchAnswered
  <2>. QED BY <1>8, <2>2, <2>3 DEF PatchWrites
<1>9. ASSUME NEW u \in Uploads, PatchFails(u) PROVE UploadTyped'
  BY <1>9 DEF PatchFails, AnswerError, UploadFault, sessions, disk
<1>10. ASSUME NEW u \in Uploads, CompleteArrives(u) PROVE UploadTyped'
  <2>1. CASE NotFound(u)
    BY <1>6, <2>1
  <2>2. CASE ~ NotFound(u)
    BY <1>10, <2>2 DEF CompleteArrives, Forget, AnswerError, browserSide, disk
  <2>. QED BY <2>1, <2>2
<1>11. ASSUME NEW u \in Uploads, CompleteChecks(u) PROVE UploadTyped'
  BY <1>11 DEF CompleteChecks, Forget, AnswerError, browserSide, disk
<1>12. ASSUME NEW u \in Uploads, CompleteMoves(u) PROVE UploadTyped'
  <2>1. PICK f \in Files : FileIsMoved(u, f)
    BY <1>12, FileMoved
  <2>2. /\ tempFile' \in [Uploads -> [Files -> FileContents]]
        /\ targetFile' \in [Files -> FileContents]
        /\ filesMoved' \in [Uploads -> 0 .. NumFiles]
    BY <2>1, SentIsContent DEF FileIsMoved, Content
  <2>. QED BY <1>12, <2>2 DEF CompleteMoves, browserSide, sessions
<1>13. ASSUME NEW u \in Uploads, CompleteEnds(u) PROVE UploadTyped'
  BY <1>13 DEF CompleteEnds, browserSide, disk
<1>14. ASSUME NEW u \in Uploads, CompleteAnswers(u) PROVE UploadTyped'
  <2>1. /\ browser' \in [Uploads -> {"idle", "waiting", "failing", "ok", "failed"}]
        /\ uploadId' \in [Uploads -> BOOLEAN] /\ call' = [call EXCEPT ![u] = "idle"]
        /\ chunksSent' = chunksSent
    BY <1>14, AnsweredOk DEF CompleteAnswers
  <2>. QED BY <1>14, <2>1 DEF CompleteAnswers, sessions, disk
<1>15. ASSUME NEW u \in Uploads, CompleteFails(u) PROVE UploadTyped'
  BY <1>15 DEF CompleteFails, Forget, AnswerError, UploadFault, disk
<1>16. ASSUME NEW u \in Uploads, Removed(u) PROVE UploadTyped'
  <2>1. tempFile' = [tempFile EXCEPT ![u] = [f \in Files |-> None]] /\ None \in FileContents
    BY <1>16 DEF Removed, FileContents
  <2>2. [f \in Files |-> None] \in [Files -> FileContents]
    BY <2>1
  <2>3. tempFile' \in [Uploads -> [Files -> FileContents]]
    BY <2>1, <2>2
  <2>. QED BY <1>16, <2>3 DEF Removed, browserSide, sessions
<1>17. ASSUME NEW u \in Uploads, SessionExpires(u) PROVE UploadTyped'
  BY <1>17 DEF SessionExpires, browserSide, disk
<1>18. ASSUME NEW u \in Uploads, CleanupExpired(u) PROVE UploadTyped'
  BY <1>18 DEF CleanupExpired, Forget, browserSide, disk
<1>19. ASSUME UploadServerRestarts PROVE UploadTyped'
  BY <1>19 DEF UploadServerRestarts, UploadFault, disk
<1>. QED BY <1>1, <1>2, <1>3, <1>4, <1>5, <1>6, <1>7, <1>8, <1>9, <1>10, <1>11, <1>12, <1>13,
            <1>14, <1>15, <1>16, <1>17, <1>18, <1>19 DEF UploadNext

\* A client still waits for its handler, and for no other.
LEMMA OneHandlerKept ==
  ASSUME UploadInv, UploadNext, UploadTyped'
  PROVE  OneHandler'
<1>. USE UploadNumbers DEF UploadInv, UploadTyped
<1>1. ASSUME NEW u \in Uploads, SendRequest(u) PROVE OneHandler'
  BY <1>1 DEF OneHandler, SendRequest, NextRequest, sessions, disk
<1>2. ASSUME NEW u \in Uploads, GiveUp(u) PROVE OneHandler'
  BY <1>2 DEF OneHandler, GiveUp, sessions, disk
<1>3. ASSUME NEW u \in Uploads, DeleteRequest(u) PROVE OneHandler'
  BY <1>3 DEF OneHandler, DeleteRequest, Forget, disk
<1>4. ASSUME NEW u \in Uploads, CreateChecks(u) PROVE OneHandler'
  BY <1>4 DEF OneHandler, CreateChecks, AnswerError, browserSide, sessions, disk
<1>5. ASSUME NEW u \in Uploads, CreateMakes(u) PROVE OneHandler'
  BY <1>5 DEF OneHandler, CreateMakes, AnswerOk, browserSide
<1>6. ASSUME NEW u \in Uploads, NotFound(u) PROVE OneHandler'
  BY <1>6 DEF OneHandler, NotFound, Forget, AnswerError, disk
<1>7. ASSUME NEW u \in Uploads, PatchArrives(u) PROVE OneHandler'
  <2>1. CASE NotFound(u)
    BY <1>6, <2>1
  <2>2. CASE ~ NotFound(u)
    BY <1>7, <2>2 DEF OneHandler, PatchArrives, AnswerError, browserSide, sessions, disk
  <2>. QED BY <2>1, <2>2
<1>8. ASSUME NEW u \in Uploads, PatchWrites(u) PROVE OneHandler'
  <2>1. /\ call' = [call EXCEPT ![u] = "idle"]
        /\ \A v \in Uploads \ {u} : browser'[v] = browser[v]
        /\ browser'[u] # "waiting"
    BY <1>8, PatchAnswered
  <2>. QED BY <2>1 DEF OneHandler
<1>9. ASSUME NEW u \in Uploads, PatchFails(u) PROVE OneHandler'
  BY <1>9 DEF OneHandler, PatchFails, AnswerError, UploadFault, sessions, disk
<1>10. ASSUME NEW u \in Uploads, CompleteArrives(u) PROVE OneHandler'
  <2>1. CASE NotFound(u)
    BY <1>6, <2>1
  <2>2. CASE ~ NotFound(u)
    BY <1>10, <2>2 DEF OneHandler, CompleteArrives, Forget, AnswerError, browserSide, disk
  <2>. QED BY <2>1, <2>2
<1>11. ASSUME NEW u \in Uploads, CompleteChecks(u) PROVE OneHandler'
  BY <1>11 DEF OneHandler, CompleteChecks, Forget, AnswerError, browserSide, disk
<1>12. ASSUME NEW u \in Uploads, CompleteMoves(u) PROVE OneHandler'
  BY <1>12 DEF OneHandler, CompleteMoves, browserSide, sessions
<1>13. ASSUME NEW u \in Uploads, CompleteEnds(u) PROVE OneHandler'
  BY <1>13 DEF OneHandler, CompleteEnds, browserSide, disk
<1>14. ASSUME NEW u \in Uploads, CompleteAnswers(u) PROVE OneHandler'
  BY <1>14 DEF OneHandler, CompleteAnswers, AnswerOk, browserSide, sessions, disk
<1>15. ASSUME NEW u \in Uploads, CompleteFails(u) PROVE OneHandler'
  BY <1>15 DEF OneHandler, CompleteFails, Forget, AnswerError, UploadFault, disk
<1>16. ASSUME NEW u \in Uploads, Removed(u) PROVE OneHandler'
  BY <1>16 DEF OneHandler, Removed, browserSide, sessions
<1>17. ASSUME NEW u \in Uploads, SessionExpires(u) PROVE OneHandler'
  BY <1>17 DEF OneHandler, SessionExpires, browserSide, disk
<1>18. ASSUME NEW u \in Uploads, CleanupExpired(u) PROVE OneHandler'
  BY <1>18 DEF OneHandler, CleanupExpired, Forget, browserSide, disk
<1>19. ASSUME UploadServerRestarts PROVE OneHandler'
  BY <1>19 DEF OneHandler, UploadServerRestarts, UploadFault, disk
<1>. QED BY <1>1, <1>2, <1>3, <1>4, <1>5, <1>6, <1>7, <1>8, <1>9, <1>10, <1>11, <1>12, <1>13,
            <1>14, <1>15, <1>16, <1>17, <1>18, <1>19 DEF UploadNext

\* The requests stay in their order.
LEMMA RequestsInOrderKept ==
  ASSUME UploadInv, UploadNext, UploadTyped'
  PROVE  RequestsInOrder'
<1>. USE UploadNumbers DEF UploadInv, UploadTyped
<1>1. ASSUME NEW u \in Uploads, SendRequest(u) PROVE RequestsInOrder'
  BY <1>1 DEF RequestsInOrder, OneHandler, SendRequest, NextRequest, sessions, disk
<1>2. ASSUME NEW u \in Uploads, GiveUp(u) PROVE RequestsInOrder'
  BY <1>2 DEF RequestsInOrder, OneHandler, GiveUp, sessions, disk
<1>3. ASSUME NEW u \in Uploads, DeleteRequest(u) PROVE RequestsInOrder'
  BY <1>3 DEF RequestsInOrder, OneHandler, DeleteRequest, Forget, disk
<1>4. ASSUME NEW u \in Uploads, CreateChecks(u) PROVE RequestsInOrder'
  BY <1>4 DEF RequestsInOrder, OneHandler, CreateChecks, AnswerError, browserSide, sessions, disk
<1>5. ASSUME NEW u \in Uploads, CreateMakes(u) PROVE RequestsInOrder'
  BY <1>5 DEF RequestsInOrder, OneHandler, CreateMakes, AnswerOk, browserSide
<1>6. ASSUME NEW u \in Uploads, NotFound(u) PROVE RequestsInOrder'
  BY <1>6 DEF RequestsInOrder, OneHandler, NotFound, Forget, AnswerError, disk
<1>7. ASSUME NEW u \in Uploads, PatchArrives(u) PROVE RequestsInOrder'
  <2>1. CASE NotFound(u)
    BY <1>6, <2>1
  <2>2. CASE ~ NotFound(u)
    BY <1>7, <2>2
       DEF RequestsInOrder, OneHandler, PatchArrives, AnswerError, browserSide, sessions, disk
  <2>. QED BY <2>1, <2>2
<1>8. ASSUME NEW u \in Uploads, PatchWrites(u) PROVE RequestsInOrder'
  <2>1. /\ call' = [call EXCEPT ![u] = "idle"]
        /\ \A v \in Uploads \ {u} : uploadId'[v] = uploadId[v] /\ chunksSent'[v] = chunksSent[v]
        /\ browser[u] = "waiting" => uploadId'[u]
        /\ browser[u] # "waiting" => uploadId' = uploadId /\ chunksSent' = chunksSent
    BY <1>8, PatchAnswered
  <2>. QED BY <2>1 DEF RequestsInOrder
<1>9. ASSUME NEW u \in Uploads, PatchFails(u) PROVE RequestsInOrder'
  BY <1>9 DEF RequestsInOrder, OneHandler, PatchFails, AnswerError, UploadFault, sessions, disk
<1>10. ASSUME NEW u \in Uploads, CompleteArrives(u) PROVE RequestsInOrder'
  <2>1. CASE NotFound(u)
    BY <1>6, <2>1
  <2>2. CASE ~ NotFound(u)
    BY <1>10, <2>2, SMTT(30)
       DEF RequestsInOrder, OneHandler, CompleteArrives, Forget, AnswerError, browserSide, disk
  <2>. QED BY <2>1, <2>2
<1>11. ASSUME NEW u \in Uploads, CompleteChecks(u) PROVE RequestsInOrder'
  BY <1>11 DEF RequestsInOrder, OneHandler, CompleteChecks, Forget, AnswerError, browserSide, disk
<1>12. ASSUME NEW u \in Uploads, CompleteMoves(u) PROVE RequestsInOrder'
  BY <1>12 DEF RequestsInOrder, OneHandler, CompleteMoves, browserSide, sessions
<1>13. ASSUME NEW u \in Uploads, CompleteEnds(u) PROVE RequestsInOrder'
  BY <1>13 DEF RequestsInOrder, OneHandler, CompleteEnds, browserSide, disk
<1>14. ASSUME NEW u \in Uploads, CompleteAnswers(u) PROVE RequestsInOrder'
  BY <1>14 DEF RequestsInOrder, OneHandler, CompleteAnswers, AnswerOk, browserSide, sessions, disk
<1>15. ASSUME NEW u \in Uploads, CompleteFails(u) PROVE RequestsInOrder'
  BY <1>15 DEF RequestsInOrder, OneHandler, CompleteFails, Forget, AnswerError, UploadFault, disk
<1>16. ASSUME NEW u \in Uploads, Removed(u) PROVE RequestsInOrder'
  BY <1>16 DEF RequestsInOrder, OneHandler, Removed, browserSide, sessions
<1>17. ASSUME NEW u \in Uploads, SessionExpires(u) PROVE RequestsInOrder'
  BY <1>17 DEF RequestsInOrder, OneHandler, SessionExpires, browserSide, disk
<1>18. ASSUME NEW u \in Uploads, CleanupExpired(u) PROVE RequestsInOrder'
  BY <1>18 DEF RequestsInOrder, OneHandler, CleanupExpired, Forget, browserSide, disk
<1>19. ASSUME UploadServerRestarts PROVE RequestsInOrder'
  BY <1>19 DEF RequestsInOrder, OneHandler, UploadServerRestarts, UploadFault, disk
<1>. QED BY <1>1, <1>2, <1>3, <1>4, <1>5, <1>6, <1>7, <1>8, <1>9, <1>10, <1>11, <1>12, <1>13,
            <1>14, <1>15, <1>16, <1>17, <1>18, <1>19 DEF UploadNext

\* The directory of an upload without a session stays empty.
LEMMA NothingStoredKept ==
  ASSUME UploadInv, UploadNext, UploadTyped'
  PROVE  NothingStored'
<1>. USE UploadNumbers DEF UploadInv, UploadTyped
<1>1. ASSUME NEW u \in Uploads, SendRequest(u) PROVE NothingStored'
  BY <1>1 DEF NothingStored, OneHandler, RequestsInOrder, SendRequest, NextRequest, sessions, disk
<1>2. ASSUME NEW u \in Uploads, GiveUp(u) PROVE NothingStored'
  BY <1>2 DEF NothingStored, OneHandler, RequestsInOrder, GiveUp, sessions, disk
<1>3. ASSUME NEW u \in Uploads, DeleteRequest(u) PROVE NothingStored'
  BY <1>3 DEF NothingStored, OneHandler, RequestsInOrder, DeleteRequest, Forget, disk
<1>4. ASSUME NEW u \in Uploads, CreateChecks(u) PROVE NothingStored'
  <2>1. tempFile' = tempFile /\ uploadId' = uploadId
    BY <1>4 DEF CreateChecks, AnswerError, browserSide, disk
  <2>2. \A v \in Uploads : /\ call'[v] \in {"create", "mkdir"} => call[v] \in {"create", "mkdir"}
                           /\ browser'[v] = "idle" => browser[v] = "idle"
    BY <1>4 DEF CreateChecks, AnswerError, browserSide, disk
  <2>3. NothingStored
    OBVIOUS
  <2>. HIDE DEF UploadInv, UploadTyped
  <2>. QED BY <2>1, <2>2, <2>3 DEF NothingStored
<1>5. ASSUME NEW u \in Uploads, CreateMakes(u) PROVE NothingStored'
  BY <1>5 DEF NothingStored, OneHandler, RequestsInOrder, CreateMakes, AnswerOk, browserSide
<1>6. ASSUME NEW u \in Uploads, NotFound(u) PROVE NothingStored'
  BY <1>6 DEF NothingStored, OneHandler, RequestsInOrder, NotFound, Forget, AnswerError, disk
<1>7. ASSUME NEW u \in Uploads, PatchArrives(u) PROVE NothingStored'
  <2>1. tempFile' = tempFile /\ uploadId' = uploadId
    BY <1>7 DEF PatchArrives, NotFound, AnswerError, browserSide, disk
  <2>2. \A v \in Uploads : /\ call'[v] \in {"create", "mkdir"} => call[v] \in {"create", "mkdir"}
                           /\ browser'[v] = "idle" => browser[v] = "idle"
    BY <1>7, SMTT(30) DEF PatchArrives, NotFound, AnswerError, browserSide, disk
  <2>3. NothingStored
    OBVIOUS
  <2>. HIDE DEF UploadInv, UploadTyped
  <2>. QED BY <2>1, <2>2, <2>3 DEF NothingStored
<1>8. ASSUME NEW u \in Uploads, PatchWrites(u) PROVE NothingStored'
  <2>1. PICK f \in Files : ChunkWritten(u, f)
    BY <1>8, PatchWritten
  <2>2. \A v \in Uploads \ {u} : tempFile'[v] = tempFile[v]
    BY <2>1 DEF ChunkWritten
  <2>3. /\ call' = [call EXCEPT ![u] = "idle"]
        /\ \A v \in Uploads \ {u} : browser'[v] = browser[v] /\ uploadId'[v] = uploadId[v]
        /\ browser[u] = "waiting" => uploadId'[u]
        /\ browser[u] # "waiting" => browser' = browser
        /\ call[u] = "write"
    BY <1>8, PatchAnswered
  <2>4. ~ (call'[u] \in {"create", "mkdir"} \/ (browser'[u] = "idle" /\ ~ uploadId'[u]))
    BY <2>3 DEF OneHandler
  <2>5. \A v \in Uploads \ {u} : call'[v] = call[v]
    BY <2>3
  <2>6. NothingStored
    OBVIOUS
  <2>. HIDE DEF UploadInv, UploadTyped
  <2>. QED BY <2>2, <2>3, <2>4, <2>5, <2>6 DEF NothingStored
<1>9. ASSUME NEW u \in Uploads, PatchFails(u) PROVE NothingStored'
  BY <1>9, SMTT(30)
     DEF NothingStored, OneHandler, RequestsInOrder, PatchFails, AnswerError, UploadFault,
         sessions, disk
<1>10. ASSUME NEW u \in Uploads, CompleteArrives(u) PROVE NothingStored'
  <2>1. tempFile' = tempFile /\ uploadId' = uploadId
    BY <1>10 DEF CompleteArrives, NotFound, AnswerError, browserSide, disk
  <2>2. \A v \in Uploads : /\ call'[v] \in {"create", "mkdir"} => call[v] \in {"create", "mkdir"}
                           /\ browser'[v] = "idle" => browser[v] = "idle"
    BY <1>10, ZenonT(60) DEF CompleteArrives, NotFound, AnswerError, browserSide, disk
  <2>3. NothingStored
    OBVIOUS
  <2>. HIDE DEF UploadInv, UploadTyped
  <2>. QED BY <2>1, <2>2, <2>3 DEF NothingStored
<1>11. ASSUME NEW u \in Uploads, CompleteChecks(u) PROVE NothingStored'
  <2>1. tempFile' = tempFile /\ uploadId' = uploadId
    BY <1>11 DEF CompleteChecks, AnswerError, browserSide, disk
  <2>2. \A v \in Uploads : /\ call'[v] \in {"create", "mkdir"} => call[v] \in {"create", "mkdir"}
                           /\ browser'[v] = "idle" => browser[v] = "idle"
    BY <1>11 DEF CompleteChecks, AnswerError, browserSide, disk
  <2>3. NothingStored
    OBVIOUS
  <2>. HIDE DEF UploadInv, UploadTyped
  <2>. QED BY <2>1, <2>2, <2>3 DEF NothingStored
<1>12. ASSUME NEW u \in Uploads, CompleteMoves(u) PROVE NothingStored'
  BY <1>12 DEF NothingStored, OneHandler, RequestsInOrder, CompleteMoves, browserSide, sessions
<1>13. ASSUME NEW u \in Uploads, CompleteEnds(u) PROVE NothingStored'
  BY <1>13 DEF NothingStored, OneHandler, RequestsInOrder, CompleteEnds, browserSide, disk
<1>14. ASSUME NEW u \in Uploads, CompleteAnswers(u) PROVE NothingStored'
  BY <1>14
     DEF NothingStored, OneHandler, RequestsInOrder, CompleteAnswers, AnswerOk, browserSide,
         sessions, disk
<1>15. ASSUME NEW u \in Uploads, CompleteFails(u) PROVE NothingStored'
  BY <1>15
     DEF NothingStored, OneHandler, RequestsInOrder, CompleteFails, Forget, AnswerError,
         UploadFault, disk
<1>16. ASSUME NEW u \in Uploads, Removed(u) PROVE NothingStored'
  BY <1>16 DEF NothingStored, OneHandler, RequestsInOrder, Removed, browserSide, sessions
<1>17. ASSUME NEW u \in Uploads, SessionExpires(u) PROVE NothingStored'
  BY <1>17 DEF NothingStored, OneHandler, RequestsInOrder, SessionExpires, browserSide, disk
<1>18. ASSUME NEW u \in Uploads, CleanupExpired(u) PROVE NothingStored'
  BY <1>18
     DEF NothingStored, OneHandler, RequestsInOrder, CleanupExpired, Forget, browserSide, disk
<1>19. ASSUME UploadServerRestarts PROVE NothingStored'
  BY <1>19 DEF NothingStored, OneHandler, RequestsInOrder, UploadServerRestarts, UploadFault, disk
<1>. QED BY <1>1, <1>2, <1>3, <1>4, <1>5, <1>6, <1>7, <1>8, <1>9, <1>10, <1>11, <1>12, <1>13,
            <1>14, <1>15, <1>16, <1>17, <1>18, <1>19 DEF UploadNext

\* Files are moved by the last request only.
LEMMA MovedAtTheEndKept ==
  ASSUME UploadInv, UploadNext, UploadTyped'
  PROVE  MovedAtTheEnd'
<1>. USE UploadNumbers DEF UploadInv, UploadTyped
<1>1. ASSUME NEW u \in Uploads, SendRequest(u) PROVE MovedAtTheEnd'
  BY <1>1 DEF MovedAtTheEnd, OneHandler, CanSucceed, SendRequest, NextRequest, sessions, disk
<1>2. ASSUME NEW u \in Uploads, GiveUp(u) PROVE MovedAtTheEnd'
  BY <1>2 DEF MovedAtTheEnd, OneHandler, CanSucceed, GiveUp, sessions, disk
<1>3. ASSUME NEW u \in Uploads, DeleteRequest(u) PROVE MovedAtTheEnd'
  BY <1>3 DEF MovedAtTheEnd, OneHandler, CanSucceed, DeleteRequest, Forget, disk
<1>4. ASSUME NEW u \in Uploads, CreateChecks(u) PROVE MovedAtTheEnd'
  BY <1>4
     DEF MovedAtTheEnd, OneHandler, CanSucceed, CreateChecks, AnswerError, browserSide, sessions,
         disk
<1>5. ASSUME NEW u \in Uploads, CreateMakes(u) PROVE MovedAtTheEnd'
  BY <1>5 DEF MovedAtTheEnd, OneHandler, CanSucceed, CreateMakes, AnswerOk, browserSide
<1>6. ASSUME NEW u \in Uploads, NotFound(u) PROVE MovedAtTheEnd'
  BY <1>6 DEF MovedAtTheEnd, OneHandler, CanSucceed, NotFound, Forget, AnswerError, disk
<1>7. ASSUME NEW u \in Uploads, PatchArrives(u) PROVE MovedAtTheEnd'
  <2>1. CASE NotFound(u)
    BY <1>6, <2>1
  <2>2. CASE ~ NotFound(u)
    BY <1>7, <2>2
       DEF MovedAtTheEnd, OneHandler, CanSucceed, PatchArrives, AnswerError, browserSide,
           sessions, disk
  <2>. QED BY <2>1, <2>2
<1>8. ASSUME NEW u \in Uploads, PatchWrites(u) PROVE MovedAtTheEnd'
  <2>1. /\ call' = [call EXCEPT ![u] = "idle"] /\ filesMoved' = filesMoved
        /\ \A v \in Uploads \ {u} : browser'[v] = browser[v]
        /\ browser[u] = "waiting" => browser'[u] = "idle"
        /\ browser[u] # "waiting" => browser' = browser
        /\ call[u] = "write"
    BY <1>8, PatchAnswered
  <2>. QED BY <2>1 DEF MovedAtTheEnd, CanSucceed, OneHandler
<1>9. ASSUME NEW u \in Uploads, PatchFails(u) PROVE MovedAtTheEnd'
  BY <1>9
     DEF MovedAtTheEnd, OneHandler, CanSucceed, PatchFails, AnswerError, UploadFault, sessions,
         disk
<1>10. ASSUME NEW u \in Uploads, CompleteArrives(u) PROVE MovedAtTheEnd'
  <2>1. filesMoved' = filesMoved
    BY <1>10 DEF CompleteArrives, NotFound
  <2>2. /\ \A v \in Uploads \ {u} : browser'[v] = browser[v] /\ call'[v] = call[v]
        /\ call'[u] = "check" \/ call'[u] = "idle"
        /\ browser'[u] = browser[u] \/ browser'[u] = "failing"
    <3>1. CASE AnswerError(u)
      BY <3>1 DEF AnswerError
    <3>2. CASE call' = [call EXCEPT ![u] = "check"] /\ browser' = browser
      BY <3>2
    <3>. QED BY <1>10, <3>1, <3>2 DEF CompleteArrives, NotFound, browserSide
  <2>3. call[u] = "complete"
    BY <1>10 DEF CompleteArrives
  <2>4. MovedAtTheEnd /\ OneHandler
    OBVIOUS
  <2>. HIDE DEF UploadInv, UploadTyped
  <2>. QED BY <2>1, <2>2, <2>3, <2>4 DEF MovedAtTheEnd, CanSucceed, OneHandler
<1>11. ASSUME NEW u \in Uploads, CompleteChecks(u) PROVE MovedAtTheEnd'
  BY <1>11
     DEF MovedAtTheEnd, OneHandler, CanSucceed, CompleteChecks, Forget, AnswerError, browserSide,
         disk
<1>12. ASSUME NEW u \in Uploads, CompleteMoves(u) PROVE MovedAtTheEnd'
  BY <1>12 DEF MovedAtTheEnd, OneHandler, CanSucceed, CompleteMoves, browserSide, sessions
<1>13. ASSUME NEW u \in Uploads, CompleteEnds(u) PROVE MovedAtTheEnd'
  BY <1>13 DEF MovedAtTheEnd, OneHandler, CanSucceed, CompleteEnds, browserSide, disk
<1>14. ASSUME NEW u \in Uploads, CompleteAnswers(u) PROVE MovedAtTheEnd'
  BY <1>14
     DEF MovedAtTheEnd, OneHandler, CanSucceed, CompleteAnswers, AnswerOk, browserSide, sessions,
         disk
<1>15. ASSUME NEW u \in Uploads, CompleteFails(u) PROVE MovedAtTheEnd'
  BY <1>15
     DEF MovedAtTheEnd, OneHandler, CanSucceed, CompleteFails, Forget, AnswerError, UploadFault,
         disk
<1>16. ASSUME NEW u \in Uploads, Removed(u) PROVE MovedAtTheEnd'
  BY <1>16 DEF MovedAtTheEnd, OneHandler, CanSucceed, Removed, browserSide, sessions
<1>17. ASSUME NEW u \in Uploads, SessionExpires(u) PROVE MovedAtTheEnd'
  BY <1>17 DEF MovedAtTheEnd, OneHandler, CanSucceed, SessionExpires, browserSide, disk
<1>18. ASSUME NEW u \in Uploads, CleanupExpired(u) PROVE MovedAtTheEnd'
  BY <1>18 DEF MovedAtTheEnd, OneHandler, CanSucceed, CleanupExpired, Forget, browserSide, disk
<1>19. ASSUME UploadServerRestarts PROVE MovedAtTheEnd'
  BY <1>19 DEF MovedAtTheEnd, OneHandler, CanSucceed, UploadServerRestarts, UploadFault, disk
<1>. QED BY <1>1, <1>2, <1>3, <1>4, <1>5, <1>6, <1>7, <1>8, <1>9, <1>10, <1>11, <1>12, <1>13,
            <1>14, <1>15, <1>16, <1>17, <1>18, <1>19 DEF UploadNext

\* The server's count stays the client's.
LEMMA ChunksCountedKept ==
  ASSUME UploadInv, UploadNext, UploadTyped'
  PROVE  ChunksCounted'
<1>. USE UploadNumbers DEF UploadInv, UploadTyped
<1>1. ASSUME NEW u \in Uploads, SendRequest(u) PROVE ChunksCounted'
  BY <1>1 DEF ChunksCounted, OneHandler, CanSucceed, SendRequest, NextRequest, sessions, disk
<1>2. ASSUME NEW u \in Uploads, GiveUp(u) PROVE ChunksCounted'
  BY <1>2 DEF ChunksCounted, OneHandler, CanSucceed, GiveUp, sessions, disk
<1>3. ASSUME NEW u \in Uploads, DeleteRequest(u) PROVE ChunksCounted'
  BY <1>3 DEF ChunksCounted, OneHandler, CanSucceed, DeleteRequest, Forget, disk
<1>4. ASSUME NEW u \in Uploads, CreateChecks(u) PROVE ChunksCounted'
  BY <1>4, ZenonT(60)
     DEF ChunksCounted, OneHandler, CanSucceed, CreateChecks, AnswerError, browserSide, sessions,
         disk
<1>5. ASSUME NEW u \in Uploads, CreateMakes(u) PROVE ChunksCounted'
  <2>1. /\ bytesReceived' = bytesReceived /\ chunksSent' = chunksSent
        /\ call' = [call EXCEPT ![u] = "idle"] /\ call[u] = "mkdir"
        /\ \A v \in Uploads \ {u} : browser'[v] = browser[v]
    BY <1>5, AnsweredOk DEF CreateMakes
  <2>2. \A v \in Uploads : CanSucceed(v)' => CanSucceed(v)
    BY <2>1 DEF CanSucceed
  <2>3. ChunksCounted
    OBVIOUS
  <2>. HIDE DEF UploadInv, UploadTyped
  <2>. QED BY <2>1, <2>2, <2>3 DEF ChunksCounted
<1>6. ASSUME NEW u \in Uploads, NotFound(u) PROVE ChunksCounted'
  BY <1>6 DEF ChunksCounted, OneHandler, CanSucceed, NotFound, Forget, AnswerError, disk
<1>7. ASSUME NEW u \in Uploads, PatchArrives(u) PROVE ChunksCounted'
  <2>1. CASE NotFound(u)
    BY <1>6, <2>1
  <2>2. CASE ~ NotFound(u)
    BY <1>7, <2>2, ZenonT(60)
       DEF ChunksCounted, OneHandler, CanSucceed, PatchArrives, AnswerError, browserSide,
           sessions, disk
  <2>. QED BY <2>1, <2>2
<1>8. ASSUME NEW u \in Uploads, PatchWrites(u) PROVE ChunksCounted'
  <2>1. PICK f \in Files : ChunkWritten(u, f)
    BY <1>8, PatchWritten
  <2>2. /\ \A v \in Uploads \ {u} : bytesReceived'[v] = bytesReceived[v]
        /\ bytesReceived'[u][f] = Len(SentOf(u, f, chunksSent[u] + 1))
        /\ \A g \in Files \ {f} : bytesReceived'[u][g] = bytesReceived[u][g]
        /\ \A g \in Files \ {f} : SentOf(u, g, chunksSent[u] + 1) = SentOf(u, g, chunksSent[u])
    BY <2>1 DEF ChunkWritten
  <2>3. /\ \A v \in Uploads \ {u} : /\ chunksSent'[v] = chunksSent[v] /\ browser'[v] = browser[v]
                                    /\ call'[v] = call[v]
        /\ call'[u] = "idle" /\ call[u] = "write"
        /\ browser[u] # "waiting" => browser'[u] # "idle"
        /\ browser[u] = "waiting" => chunksSent'[u] = chunksSent[u] + 1
    BY <1>8, PatchAnswered
  <2>4. ChunksCounted
    OBVIOUS
  <2>. HIDE DEF UploadInv, UploadTyped
  <2>5. ASSUME NEW v \in Uploads \ {u}, CanSucceed(v)', NEW g \in Files
        PROVE  bytesReceived'[v][g] = Len(SentOf(v, g, chunksSent'[v]))
    BY <2>2, <2>3, <2>4, <2>5 DEF ChunksCounted, CanSucceed
  <2>6. ASSUME CanSucceed(u)', NEW g \in Files
        PROVE  bytesReceived'[u][g] = Len(SentOf(u, g, chunksSent'[u]))
    <3>1. chunksSent'[u] = chunksSent[u] + 1
      BY <2>3, <2>6 DEF CanSucceed
    <3>2. bytesReceived[u][g] = Len(SentOf(u, g, chunksSent[u]))
      BY <2>3, <2>4 DEF ChunksCounted, CanSucceed
    <3>. QED BY <2>2, <3>1, <3>2
  <2>. QED BY <2>5, <2>6 DEF ChunksCounted
<1>9. ASSUME NEW u \in Uploads, PatchFails(u) PROVE ChunksCounted'
  BY <1>9
     DEF ChunksCounted, OneHandler, CanSucceed, PatchFails, AnswerError, UploadFault, sessions,
         disk
<1>10. ASSUME NEW u \in Uploads, CompleteArrives(u) PROVE ChunksCounted'
  <2>1. CASE NotFound(u)
    BY <1>6, <2>1
  <2>2. CASE ~ NotFound(u)
    BY <1>10, <2>2, ZenonT(60)
       DEF ChunksCounted, OneHandler, CanSucceed, CompleteArrives, Forget, AnswerError,
           browserSide, disk
  <2>. QED BY <2>1, <2>2
<1>11. ASSUME NEW u \in Uploads, CompleteChecks(u) PROVE ChunksCounted'
  BY <1>11, ZenonT(60)
     DEF ChunksCounted, OneHandler, CanSucceed, CompleteChecks, Forget, AnswerError, browserSide,
         disk
<1>12. ASSUME NEW u \in Uploads, CompleteMoves(u) PROVE ChunksCounted'
  BY <1>12 DEF ChunksCounted, OneHandler, CanSucceed, CompleteMoves, browserSide, sessions
<1>13. ASSUME NEW u \in Uploads, CompleteEnds(u) PROVE ChunksCounted'
  BY <1>13 DEF ChunksCounted, OneHandler, CanSucceed, CompleteEnds, browserSide, disk
<1>14. ASSUME NEW u \in Uploads, CompleteAnswers(u) PROVE ChunksCounted'
  BY <1>14
     DEF ChunksCounted, OneHandler, CanSucceed, CompleteAnswers, AnswerOk, browserSide, sessions,
         disk
<1>15. ASSUME NEW u \in Uploads, CompleteFails(u) PROVE ChunksCounted'
  BY <1>15
     DEF ChunksCounted, OneHandler, CanSucceed, CompleteFails, Forget, AnswerError, UploadFault,
         disk
<1>16. ASSUME NEW u \in Uploads, Removed(u) PROVE ChunksCounted'
  BY <1>16 DEF ChunksCounted, OneHandler, CanSucceed, Removed, browserSide, sessions
<1>17. ASSUME NEW u \in Uploads, SessionExpires(u) PROVE ChunksCounted'
  BY <1>17 DEF ChunksCounted, OneHandler, CanSucceed, SessionExpires, browserSide, disk
<1>18. ASSUME NEW u \in Uploads, CleanupExpired(u) PROVE ChunksCounted'
  BY <1>18 DEF ChunksCounted, OneHandler, CanSucceed, CleanupExpired, Forget, browserSide, disk
<1>19. ASSUME UploadServerRestarts PROVE ChunksCounted'
  BY <1>19 DEF ChunksCounted, OneHandler, CanSucceed, UploadServerRestarts, UploadFault, disk
<1>. QED BY <1>1, <1>2, <1>3, <1>4, <1>5, <1>6, <1>7, <1>8, <1>9, <1>10, <1>11, <1>12, <1>13,
            <1>14, <1>15, <1>16, <1>17, <1>18, <1>19 DEF UploadNext

\* What the directory holds stays what was sent.
LEMMA ChunksStoredKept ==
  ASSUME UploadInv, UploadNext, UploadTyped'
  PROVE  ChunksStored'
<1>. USE UploadNumbers DEF UploadInv, UploadTyped
<1>1. ASSUME NEW u \in Uploads, SendRequest(u) PROVE ChunksStored'
  BY <1>1
     DEF ChunksStored, OneHandler, MovedAtTheEnd, CanSucceed, SendRequest, NextRequest, sessions,
         disk
<1>2. ASSUME NEW u \in Uploads, GiveUp(u) PROVE ChunksStored'
  BY <1>2 DEF ChunksStored, OneHandler, MovedAtTheEnd, CanSucceed, GiveUp, sessions, disk
<1>3. ASSUME NEW u \in Uploads, DeleteRequest(u) PROVE ChunksStored'
  BY <1>3 DEF ChunksStored, OneHandler, MovedAtTheEnd, CanSucceed, DeleteRequest, Forget, disk
<1>4. ASSUME NEW u \in Uploads, CreateChecks(u) PROVE ChunksStored'
  <2>1. /\ tempFile' = tempFile /\ tempDir' = tempDir /\ filesMoved' = filesMoved
        /\ chunksSent' = chunksSent
    BY <1>4 DEF CreateChecks, AnswerError, browserSide, disk
  <2>2. \A v \in Uploads : CanSucceed(v)' => CanSucceed(v)
    BY <1>4 DEF CreateChecks, AnswerError, browserSide, disk, CanSucceed
  <2>3. ChunksStored
    OBVIOUS
  <2>. HIDE DEF UploadInv, UploadTyped
  <2>. QED BY <2>1, <2>2, <2>3 DEF ChunksStored
<1>5. ASSUME NEW u \in Uploads, CreateMakes(u) PROVE ChunksStored'
  <2>1. /\ tempFile' = tempFile /\ tempDir' = [tempDir EXCEPT ![u] = TRUE]
        /\ filesMoved' = filesMoved /\ chunksSent' = chunksSent
        /\ call' = [call EXCEPT ![u] = "idle"] /\ call[u] = "mkdir"
        /\ \A v \in Uploads \ {u} : browser'[v] = browser[v]
    BY <1>5, AnsweredOk DEF CreateMakes
  <2>2. /\ \A v \in Uploads : CanSucceed(v)' => CanSucceed(v)
        /\ \A v \in Uploads \ {u} : tempDir'[v] = tempDir[v]
    BY <2>1 DEF CanSucceed
  <2>3. ASSUME NEW f \in Files PROVE tempFile[u][f] = StoredOf(u, f, chunksSent[u])
    <3>1. tempFile[u][f] = None /\ chunksSent[u] = 0
      BY <2>1 DEF NothingStored, RequestsInOrder
    <3>. QED BY <3>1, SentGrows DEF StoredOf
  <2>4. ChunksStored
    OBVIOUS
  <2>. HIDE DEF UploadInv, UploadTyped
  <2>. QED BY <2>1, <2>2, <2>3, <2>4 DEF ChunksStored
<1>6. ASSUME NEW u \in Uploads, NotFound(u) PROVE ChunksStored'
  BY <1>6
     DEF ChunksStored, OneHandler, MovedAtTheEnd, CanSucceed, NotFound, Forget, AnswerError, disk
<1>7. ASSUME NEW u \in Uploads, PatchArrives(u) PROVE ChunksStored'
  <2>1. /\ tempFile' = tempFile /\ tempDir' = tempDir /\ filesMoved' = filesMoved
        /\ chunksSent' = chunksSent
    BY <1>7 DEF PatchArrives, NotFound, AnswerError, browserSide, disk
  <2>2. \A v \in Uploads : CanSucceed(v)' => CanSucceed(v)
    BY <1>7 DEF PatchArrives, NotFound, AnswerError, browserSide, disk, CanSucceed
  <2>3. ChunksStored
    OBVIOUS
  <2>. HIDE DEF UploadInv, UploadTyped
  <2>. QED BY <2>1, <2>2, <2>3 DEF ChunksStored
<1>8. ASSUME NEW u \in Uploads, PatchWrites(u) PROVE ChunksStored'
  <2>1. PICK f \in Files : ChunkWritten(u, f)
    BY <1>8, PatchWritten
  <2>2. /\ \A v \in Uploads \ {u} : tempFile'[v] = tempFile[v]
        /\ tempFile'[u][f] = StoredOf(u, f, chunksSent[u] + 1)
        /\ \A g \in Files \ {f} : tempFile'[u][g] = tempFile[u][g]
        /\ \A g \in Files \ {f} : StoredOf(u, g, chunksSent[u] + 1) = StoredOf(u, g, chunksSent[u])
    <3>1. /\ \A v \in Uploads \ {u} : tempFile'[v] = tempFile[v]
          /\ tempFile'[u] = [tempFile[u] EXCEPT ![f] = SentOf(u, f, chunksSent[u] + 1)]
          /\ tempFile[u] \in [Files -> FileContents]
      BY <2>1 DEF ChunkWritten
    <3>2. SentOf(u, f, chunksSent[u] + 1) = StoredOf(u, f, chunksSent[u] + 1)
      BY <2>1 DEF ChunkWritten, StoredOf
    <3>3. \A g \in Files \ {f} : StoredOf(u, g, chunksSent[u] + 1) = StoredOf(u, g, chunksSent[u])
      BY <2>1 DEF ChunkWritten, StoredOf
    <3>. QED BY <3>1, <3>2, <3>3
  <2>3. /\ \A v \in Uploads \ {u} : /\ chunksSent'[v] = chunksSent[v] /\ browser'[v] = browser[v]
                                    /\ call'[v] = call[v]
        /\ call'[u] = "idle" /\ call[u] = "write" /\ tempDir[u]
        /\ tempDir' = tempDir /\ filesMoved' = filesMoved
        /\ browser[u] # "waiting" => browser'[u] # "idle"
        /\ browser[u] = "waiting" => chunksSent'[u] = chunksSent[u] + 1
    BY <1>8, PatchAnswered
  <2>4. ChunksStored
    OBVIOUS
  <2>. HIDE DEF UploadInv, UploadTyped
  <2>5. ASSUME NEW v \in Uploads \ {u}, CanSucceed(v)', tempDir'[v],
               NEW g \in Files, filesMoved'[v] < g
        PROVE  tempFile'[v][g] = StoredOf(v, g, chunksSent'[v])
    BY <2>2, <2>3, <2>4, <2>5 DEF ChunksStored, CanSucceed
  <2>6. ASSUME CanSucceed(u)', NEW g \in Files, filesMoved'[u] < g
        PROVE  tempFile'[u][g] = StoredOf(u, g, chunksSent'[u])
    <3>1. chunksSent'[u] = chunksSent[u] + 1
      BY <2>3, <2>6 DEF CanSucceed
    <3>2. tempFile[u][g] = StoredOf(u, g, chunksSent[u])
      BY <2>3, <2>4, <2>6 DEF ChunksStored, CanSucceed
    <3>. QED BY <2>2, <3>1, <3>2
  <2>. QED BY <2>5, <2>6 DEF ChunksStored
<1>9. ASSUME NEW u \in Uploads, PatchFails(u) PROVE ChunksStored'
  BY <1>9
     DEF ChunksStored, OneHandler, MovedAtTheEnd, CanSucceed, PatchFails, AnswerError,
         UploadFault, sessions, disk
<1>10. ASSUME NEW u \in Uploads, CompleteArrives(u) PROVE ChunksStored'
  <2>1. /\ tempFile' = tempFile /\ tempDir' = tempDir /\ filesMoved' = filesMoved
        /\ chunksSent' = chunksSent
    BY <1>10 DEF CompleteArrives, NotFound, AnswerError, browserSide, disk
  <2>2. \A v \in Uploads : CanSucceed(v)' => CanSucceed(v)
    BY <1>10 DEF CompleteArrives, NotFound, AnswerError, browserSide, disk, CanSucceed
  <2>3. ChunksStored
    OBVIOUS
  <2>. HIDE DEF UploadInv, UploadTyped
  <2>. QED BY <2>1, <2>2, <2>3 DEF ChunksStored
<1>11. ASSUME NEW u \in Uploads, CompleteChecks(u) PROVE ChunksStored'
  <2>1. /\ tempFile' = tempFile /\ tempDir' = tempDir /\ filesMoved' = filesMoved
        /\ chunksSent' = chunksSent
    BY <1>11 DEF CompleteChecks, AnswerError, browserSide, disk
  <2>2. \A v \in Uploads : CanSucceed(v)' => CanSucceed(v)
    BY <1>11, SMTT(30) DEF CompleteChecks, AnswerError, browserSide, disk, CanSucceed
  <2>3. ChunksStored
    OBVIOUS
  <2>. HIDE DEF UploadInv, UploadTyped
  <2>. QED BY <2>1, <2>2, <2>3 DEF ChunksStored
<1>12. ASSUME NEW u \in Uploads, CompleteMoves(u) PROVE ChunksStored'
  <2>1. PICK f \in Files : FileIsMoved(u, f)
    BY <1>12, FileMoved
  <2>2. /\ \A v \in Uploads \ {u} : tempFile'[v] = tempFile[v] /\ filesMoved'[v] = filesMoved[v]
        /\ \A g \in Files \ {f} : tempFile'[u][g] = tempFile[u][g]
        /\ filesMoved'[u] = f /\ f = filesMoved[u] + 1 /\ filesMoved[u] \in Nat
    BY <2>1 DEF FileIsMoved
  <2>3. /\ chunksSent' = chunksSent /\ tempDir' = tempDir /\ browser' = browser /\ call' = call
    BY <1>12 DEF CompleteMoves, browserSide, sessions
  <2>4. ChunksStored /\ \A v \in Uploads : CanSucceed(v)' => CanSucceed(v)
    BY <2>3 DEF CanSucceed
  <2>5. \A g \in Files : f < g => g # f /\ filesMoved[u] < g
    BY <2>2
  <2>. HIDE DEF UploadInv, UploadTyped
  <2>. QED BY <2>2, <2>3, <2>4, <2>5 DEF ChunksStored
<1>13. ASSUME NEW u \in Uploads, CompleteEnds(u) PROVE ChunksStored'
  BY <1>13
     DEF ChunksStored, OneHandler, MovedAtTheEnd, CanSucceed, CompleteEnds, browserSide, disk
<1>14. ASSUME NEW u \in Uploads, CompleteAnswers(u) PROVE ChunksStored'
  BY <1>14
     DEF ChunksStored, OneHandler, MovedAtTheEnd, CanSucceed, CompleteAnswers, AnswerOk,
         browserSide, sessions, disk
<1>15. ASSUME NEW u \in Uploads, CompleteFails(u) PROVE ChunksStored'
  BY <1>15
     DEF ChunksStored, OneHandler, MovedAtTheEnd, CanSucceed, CompleteFails, Forget, AnswerError,
         UploadFault, disk
<1>16. ASSUME NEW u \in Uploads, Removed(u) PROVE ChunksStored'
  BY <1>16 DEF ChunksStored, OneHandler, MovedAtTheEnd, CanSucceed, Removed, browserSide, sessions
<1>17. ASSUME NEW u \in Uploads, SessionExpires(u) PROVE ChunksStored'
  BY <1>17
     DEF ChunksStored, OneHandler, MovedAtTheEnd, CanSucceed, SessionExpires, browserSide, disk
<1>18. ASSUME NEW u \in Uploads, CleanupExpired(u) PROVE ChunksStored'
  BY <1>18
     DEF ChunksStored, OneHandler, MovedAtTheEnd, CanSucceed, CleanupExpired, Forget, browserSide,
         disk
<1>19. ASSUME UploadServerRestarts PROVE ChunksStored'
  BY <1>19
     DEF ChunksStored, OneHandler, MovedAtTheEnd, CanSucceed, UploadServerRestarts, UploadFault,
         disk
<1>. QED BY <1>1, <1>2, <1>3, <1>4, <1>5, <1>6, <1>7, <1>8, <1>9, <1>10, <1>11, <1>12, <1>13,
            <1>14, <1>15, <1>16, <1>17, <1>18, <1>19 DEF UploadNext

\* Targets are whole files, and stay.
LEMMA MovedIsWholeKept ==
  ASSUME UploadInv, UploadNext, UploadTyped'
  PROVE  MovedIsWhole'
<1>. USE UploadNumbers DEF UploadInv, UploadTyped
<1>1. ASSUME NEW u \in Uploads, SendRequest(u) PROVE MovedIsWhole'
  BY <1>1 DEF MovedIsWhole, SendRequest, NextRequest, sessions, disk
<1>2. ASSUME NEW u \in Uploads, GiveUp(u) PROVE MovedIsWhole'
  BY <1>2 DEF MovedIsWhole, GiveUp, sessions, disk
<1>3. ASSUME NEW u \in Uploads, DeleteRequest(u) PROVE MovedIsWhole'
  BY <1>3 DEF MovedIsWhole, DeleteRequest, Forget, disk
<1>4. ASSUME NEW u \in Uploads, CreateChecks(u) PROVE MovedIsWhole'
  BY <1>4 DEF MovedIsWhole, CreateChecks, AnswerError, browserSide, sessions, disk
<1>5. ASSUME NEW u \in Uploads, CreateMakes(u) PROVE MovedIsWhole'
  BY <1>5 DEF MovedIsWhole, CreateMakes, AnswerOk, browserSide
<1>6. ASSUME NEW u \in Uploads, NotFound(u) PROVE MovedIsWhole'
  BY <1>6 DEF MovedIsWhole, NotFound, Forget, AnswerError, disk
<1>7. ASSUME NEW u \in Uploads, PatchArrives(u) PROVE MovedIsWhole'
  <2>1. CASE NotFound(u)
    BY <1>6, <2>1
  <2>2. CASE ~ NotFound(u)
    BY <1>7, <2>2 DEF MovedIsWhole, PatchArrives, AnswerError, browserSide, sessions, disk
  <2>. QED BY <2>1, <2>2
<1>8. ASSUME NEW u \in Uploads, PatchWrites(u) PROVE MovedIsWhole'
  BY <1>8 DEF MovedIsWhole, PatchWrites, AnswerOk, browserSide, FileOf, Chunk
<1>9. ASSUME NEW u \in Uploads, PatchFails(u) PROVE MovedIsWhole'
  BY <1>9 DEF MovedIsWhole, PatchFails, AnswerError, UploadFault, sessions, disk
<1>10. ASSUME NEW u \in Uploads, CompleteArrives(u) PROVE MovedIsWhole'
  <2>1. CASE NotFound(u)
    BY <1>6, <2>1
  <2>2. CASE ~ NotFound(u)
    BY <1>10, <2>2 DEF MovedIsWhole, CompleteArrives, Forget, AnswerError, browserSide, disk
  <2>. QED BY <2>1, <2>2
<1>11. ASSUME NEW u \in Uploads, CompleteChecks(u) PROVE MovedIsWhole'
  BY <1>11 DEF MovedIsWhole, CompleteChecks, Forget, AnswerError, browserSide, disk
<1>12. ASSUME NEW u \in Uploads, CompleteMoves(u) PROVE MovedIsWhole'
  <2>1. PICK f \in Files : FileIsMoved(u, f)
    BY <1>12, FileMoved
  <2>2. /\ targetFile'[f] = Content(u, f) /\ Content(u, f) # None
        /\ \A g \in Files \ {f} : targetFile'[g] = targetFile[g]
    BY <2>1, SentIsContent DEF FileIsMoved, Content
  <2>3. /\ \A v \in Uploads \ {u} : filesMoved'[v] = filesMoved[v]
        /\ filesMoved'[u] = f /\ f = filesMoved[u] + 1 /\ filesMoved[u] \in Nat
    BY <2>1 DEF FileIsMoved
  <2>4. \A g \in Files : g <= f => g = f \/ g <= filesMoved[u]
    BY <2>3
  <2>5. MovedIsWhole
    OBVIOUS
  <2>. HIDE DEF UploadInv, UploadTyped
  <2>6. ASSUME NEW g \in Files, targetFile'[g] # None
        PROVE  \E v \in Uploads : targetFile'[g] = Content(v, g)
    BY <2>2, <2>5, <2>6 DEF MovedIsWhole
  <2>7. ASSUME NEW v \in Uploads, NEW g \in Files, g <= filesMoved'[v] PROVE targetFile'[g] # None
    BY <2>2, <2>3, <2>4, <2>5, <2>7 DEF MovedIsWhole
  <2>. QED BY <2>6, <2>7 DEF MovedIsWhole
<1>13. ASSUME NEW u \in Uploads, CompleteEnds(u) PROVE MovedIsWhole'
  BY <1>13 DEF MovedIsWhole, CompleteEnds, browserSide, disk
<1>14. ASSUME NEW u \in Uploads, CompleteAnswers(u) PROVE MovedIsWhole'
  BY <1>14 DEF MovedIsWhole, CompleteAnswers, AnswerOk, browserSide, sessions, disk
<1>15. ASSUME NEW u \in Uploads, CompleteFails(u) PROVE MovedIsWhole'
  BY <1>15 DEF MovedIsWhole, CompleteFails, Forget, AnswerError, UploadFault, disk
<1>16. ASSUME NEW u \in Uploads, Removed(u) PROVE MovedIsWhole'
  BY <1>16 DEF MovedIsWhole, Removed, browserSide, sessions
<1>17. ASSUME NEW u \in Uploads, SessionExpires(u) PROVE MovedIsWhole'
  BY <1>17 DEF MovedIsWhole, SessionExpires, browserSide, disk
<1>18. ASSUME NEW u \in Uploads, CleanupExpired(u) PROVE MovedIsWhole'
  BY <1>18 DEF MovedIsWhole, CleanupExpired, Forget, browserSide, disk
<1>19. ASSUME UploadServerRestarts PROVE MovedIsWhole'
  BY <1>19 DEF MovedIsWhole, UploadServerRestarts, UploadFault, disk
<1>. QED BY <1>1, <1>2, <1>3, <1>4, <1>5, <1>6, <1>7, <1>8, <1>9, <1>10, <1>11, <1>12, <1>13,
            <1>14, <1>15, <1>16, <1>17, <1>18, <1>19 DEF UploadNext

\* A directory is known or about to be removed.
LEMMA NoLeftoversKept ==
  ASSUME UploadInv, UploadNext, UploadTyped'
  PROVE  NoLeftovers'
<1>. USE UploadNumbers DEF UploadInv, UploadTyped
<1>1. ASSUME NEW u \in Uploads, SendRequest(u) PROVE NoLeftovers'
  BY <1>1 DEF NoLeftovers, SendRequest, NextRequest, sessions, disk
<1>2. ASSUME NEW u \in Uploads, GiveUp(u) PROVE NoLeftovers'
  BY <1>2 DEF NoLeftovers, GiveUp, sessions, disk
<1>3. ASSUME NEW u \in Uploads, DeleteRequest(u) PROVE NoLeftovers'
  BY <1>3 DEF NoLeftovers, DeleteRequest, Forget, disk
<1>4. ASSUME NEW u \in Uploads, CreateChecks(u) PROVE NoLeftovers'
  BY <1>4 DEF NoLeftovers, CreateChecks, AnswerError, browserSide, sessions, disk
<1>5. ASSUME NEW u \in Uploads, CreateMakes(u) PROVE NoLeftovers'
  BY <1>5 DEF NoLeftovers, CreateMakes, AnswerOk, browserSide
<1>6. ASSUME NEW u \in Uploads, NotFound(u) PROVE NoLeftovers'
  BY <1>6 DEF NoLeftovers, NotFound, Forget, AnswerError, disk
<1>7. ASSUME NEW u \in Uploads, PatchArrives(u) PROVE NoLeftovers'
  <2>1. CASE NotFound(u)
    BY <1>6, <2>1
  <2>2. CASE ~ NotFound(u)
    BY <1>7, <2>2 DEF NoLeftovers, PatchArrives, AnswerError, browserSide, sessions, disk
  <2>. QED BY <2>1, <2>2
<1>8. ASSUME NEW u \in Uploads, PatchWrites(u) PROVE NoLeftovers'
  BY <1>8 DEF NoLeftovers, PatchWrites, AnswerOk, browserSide, FileOf, Chunk
<1>9. ASSUME NEW u \in Uploads, PatchFails(u) PROVE NoLeftovers'
  BY <1>9 DEF NoLeftovers, PatchFails, AnswerError, UploadFault, sessions, disk
<1>10. ASSUME NEW u \in Uploads, CompleteArrives(u) PROVE NoLeftovers'
  <2>1. /\ Forget(u) \/ UNCHANGED <<session, removing>>
        /\ tempDir' = tempDir /\ restarted' = restarted
    BY <1>10 DEF CompleteArrives, NotFound, disk
  <2>. QED BY <2>1 DEF NoLeftovers, Forget
<1>11. ASSUME NEW u \in Uploads, CompleteChecks(u) PROVE NoLeftovers'
  BY <1>11 DEF NoLeftovers, CompleteChecks, Forget, AnswerError, browserSide, disk
<1>12. ASSUME NEW u \in Uploads, CompleteMoves(u) PROVE NoLeftovers'
  BY <1>12 DEF NoLeftovers, CompleteMoves, browserSide, sessions
<1>13. ASSUME NEW u \in Uploads, CompleteEnds(u) PROVE NoLeftovers'
  BY <1>13 DEF NoLeftovers, CompleteEnds, browserSide, disk
<1>14. ASSUME NEW u \in Uploads, CompleteAnswers(u) PROVE NoLeftovers'
  BY <1>14 DEF NoLeftovers, CompleteAnswers, AnswerOk, browserSide, sessions, disk
<1>15. ASSUME NEW u \in Uploads, CompleteFails(u) PROVE NoLeftovers'
  BY <1>15 DEF NoLeftovers, CompleteFails, Forget, AnswerError, UploadFault, disk
<1>16. ASSUME NEW u \in Uploads, Removed(u) PROVE NoLeftovers'
  BY <1>16 DEF NoLeftovers, Removed, browserSide, sessions
<1>17. ASSUME NEW u \in Uploads, SessionExpires(u) PROVE NoLeftovers'
  BY <1>17 DEF NoLeftovers, SessionExpires, browserSide, disk
<1>18. ASSUME NEW u \in Uploads, CleanupExpired(u) PROVE NoLeftovers'
  BY <1>18 DEF NoLeftovers, CleanupExpired, Forget, browserSide, disk
<1>19. ASSUME UploadServerRestarts PROVE NoLeftovers'
  BY <1>19 DEF NoLeftovers, UploadServerRestarts, UploadFault, disk
<1>. QED BY <1>1, <1>2, <1>3, <1>4, <1>5, <1>6, <1>7, <1>8, <1>9, <1>10, <1>11, <1>12, <1>13,
            <1>14, <1>15, <1>16, <1>17, <1>18, <1>19 DEF UploadNext

\* Nothing is sent or stored at the start.
LEMMA UploadInitially == UploadInit => UploadInv
<1>1. SUFFICES ASSUME UploadInit PROVE UploadInv
  OBVIOUS
<1>. USE UploadNumbers
<1>2. /\ browser \in [Uploads -> {"idle"}] /\ uploadId \in [Uploads -> {FALSE}]
      /\ chunksSent \in [Uploads -> {0}] /\ call \in [Uploads -> {"idle"}]
      /\ filesMoved \in [Uploads -> {0}] /\ session \in [Uploads -> {FALSE}]
  BY <1>1 DEF UploadInit
<1>3. /\ expired \in [Uploads -> {FALSE}] /\ bytesReceived \in [Uploads -> [Files -> {0}]]
      /\ tempDir \in [Uploads -> {FALSE}] /\ tempFile \in [Uploads -> [Files -> {None}]]
      /\ removing \in [Uploads -> {FALSE}] /\ targetFile \in [Files -> {None}]
      /\ restarted = FALSE /\ uploadFaults = 0
  BY <1>1 DEF UploadInit
<1>4. /\ None \in FileContents /\ 0 \in 0 .. Len(Parts)
      /\ 0 \in 0 .. NumFiles /\ 0 \in 0 .. MaxUploadFaults
  BY DEF FileContents
<1>5. UploadTyped
  <2>1. /\ browser \in [Uploads -> {"idle", "waiting", "failing", "ok", "failed"}]
        /\ call \in [Uploads -> {"idle", "create", "mkdir", "patch", "write", "complete", "check",
                                 "move", "answer"}]
    BY <1>2
  <2>6. /\ uploadId \in [Uploads -> BOOLEAN] /\ chunksSent \in [Uploads -> 0 .. Len(Parts)]
        /\ filesMoved \in [Uploads -> 0 .. NumFiles]
    <3>1. \A n \in Nat : [Uploads -> {0}] \subseteq [Uploads -> 0 .. n]
      OBVIOUS
    <3>. QED BY <1>2, <3>1
  <2>2. /\ session \in [Uploads -> BOOLEAN] /\ expired \in [Uploads -> BOOLEAN]
        /\ tempDir \in [Uploads -> BOOLEAN] /\ removing \in [Uploads -> BOOLEAN]
    BY <1>2, <1>3
  <2>3. bytesReceived \in [Uploads -> [Files -> 0 .. Len(Parts)]]
    <3>1. [Files -> {0}] \subseteq [Files -> 0 .. Len(Parts)]
      BY <1>4
    <3>. QED BY <1>3, <3>1
  <2>4. tempFile \in [Uploads -> [Files -> FileContents]]
    <3>1. [Files -> {None}] \subseteq [Files -> FileContents]
      BY <1>4
    <3>. QED BY <1>3, <3>1
  <2>5. targetFile \in [Files -> FileContents]
    BY <1>3, <1>4
  <2>. QED BY <1>3, <1>4, <2>1, <2>2, <2>3, <2>4, <2>5, <2>6 DEF UploadTyped
<1>6. OneHandler /\ RequestsInOrder /\ NothingStored /\ MovedAtTheEnd
  BY <1>2, <1>3 DEF OneHandler, RequestsInOrder, NothingStored, MovedAtTheEnd
<1>7. ChunksCounted /\ ChunksStored
  <2>1. \A u \in Uploads : /\ chunksSent[u] = 0 /\ ~ tempDir[u]
                           /\ \A f \in Files : bytesReceived[u][f] = 0
    <3>1. \A u \in Uploads : chunksSent[u] = 0
      BY <1>2
    <3>2. \A u \in Uploads : tempDir[u] = FALSE
      BY <1>3
    <3>3. \A u \in Uploads : \A f \in Files : bytesReceived[u][f] = 0
      BY <1>1 DEF UploadInit
    <3>. QED BY <3>1, <3>2, <3>3
  <2>2. \A u \in Uploads : \A f \in Files : Len(SentOf(u, f, 0)) = 0
    BY SentGrows, EmptySeq
  <2>. QED BY <2>1, <2>2 DEF ChunksCounted, ChunksStored
<1>8. MovedIsWhole /\ NoLeftovers
  <2>1. \A u \in Uploads : filesMoved[u] = 0 /\ ~ tempDir[u]
    BY <1>1 DEF UploadInit
  <2>2. \A f \in Files : targetFile[f] = None /\ ~ (f <= 0)
    BY <1>3
  <2>. QED BY <2>1, <2>2 DEF MovedIsWhole, NoLeftovers
<1>. QED BY <1>5, <1>6, <1>7, <1>8 DEF UploadInv

\* The invariant is inductive.
LEMMA UploadNextStep == UploadInv /\ [UploadNext]_uploadVars => UploadInv'
<1>1. SUFFICES ASSUME UploadInv, [UploadNext]_uploadVars PROVE UploadInv'
  OBVIOUS
<1>2. CASE UNCHANGED uploadVars
  <2>1. UploadTyped' /\ OneHandler' /\ RequestsInOrder' /\ NothingStored' /\ MovedAtTheEnd'
    BY <1>1, <1>2 DEF uploadVars, browserSide, sessions, disk, UploadInv, UploadTyped, OneHandler,
                      RequestsInOrder, NothingStored, MovedAtTheEnd, CanSucceed
  <2>2. ChunksCounted' /\ ChunksStored' /\ MovedIsWhole' /\ NoLeftovers'
    BY <1>1, <1>2 DEF uploadVars, browserSide, sessions, disk, UploadInv, ChunksCounted,
                      ChunksStored, MovedIsWhole, NoLeftovers, CanSucceed
  <2>. QED BY <2>1, <2>2 DEF UploadInv
<1>3. CASE UploadNext
  <2>1. UploadTyped'
    BY <1>1, <1>3, UploadStepsTyped
  <2>. QED BY <1>1, <1>3, <2>1, OneHandlerKept, RequestsInOrderKept, NothingStoredKept,
              MovedAtTheEndKept, ChunksCountedKept, ChunksStoredKept, MovedIsWholeKept,
              NoLeftoversKept
           DEF UploadInv
<1>. QED BY <1>1, <1>2, <1>3

\* The invariant says what the run checks.
LEMMA UploadFollows == UploadInv => UploadTypeOK /\ UploadsLeaveWhole
<1>1. SUFFICES ASSUME UploadInv PROVE UploadTypeOK /\ UploadsLeaveWhole
  OBVIOUS
<1>. USE UploadNumbers
<1>2. UploadTypeOK
  BY <1>1 DEF UploadInv, UploadTyped, UploadTypeOK
<1>3. UploadsIntact
  BY <1>1 DEF UploadInv, UploadTyped, MovedIsWhole, MovedAtTheEnd, UploadsIntact
<1>. QED BY <1>1, <1>2, <1>3 DEF UploadInv, UploadsLeaveWhole

-----------------------------------------------------------------------------
(***************************************************************************)
(* The parts beside each other.                                            *)
(***************************************************************************)
servicesVars == <<uploadVars, browserVars, releaseVars, syncVars, sessionVars, relayVars,
                  controlVars, operationVars, part>>

\* A step of the services is a step of each part, or leaves it alone.
LEMMA EachPartSteps ==
  ASSUME [Next]_servicesVars
  PROVE  /\ [SessionNext]_sessionVars /\ [RelayNext]_relayVars
         /\ [SyncNext]_syncVars /\ [ControlNext]_controlVars
         /\ [ReleaseNext]_releaseVars /\ [UploadNext]_uploadVars
         /\ [BrowserNext]_browserVars /\ [OperationsNext]_operationVars
<1>1. CASE UNCHANGED servicesVars
  BY <1>1 DEF servicesVars
<1>2. CASE DisksNext /\ WatchersRest /\ RecordsRest
  BY <1>2 DEF DisksNext, WatchersRest, RecordsRest
<1>3. CASE WatchersNext /\ DisksRest /\ RecordsRest
  BY <1>3 DEF WatchersNext, DisksRest, RecordsRest
<1>4. CASE RecordsNext /\ DisksRest /\ WatchersRest
  BY <1>4 DEF RecordsNext, DisksRest, WatchersRest
<1>. QED BY <1>1, <1>2, <1>3, <1>4 DEF Next

\* What overlapping subscriptions to directories leave watched is the directory the user
\* looks at, if it can be watched (filesystem watch session of the machine).
THEOREM ActiveIsWatchedCorrect == Spec => []ActiveIsWatched
<1>1. Init => SessionInv
  BY SessionInitially DEF Init
<1>2. SessionInv /\ [Next]_servicesVars => SessionInv'
  BY SessionNextStep, EachPartSteps
<1>. QED BY <1>1, <1>2, SessionFollows, PTL DEF Spec, servicesVars

\* However the websockets of publishers and viewers come, are replaced and end, those that
\* are open belong to the one session in the Map, and know whether it has a publisher
\* (browser-view relay of the gateway).
THEOREM OneRelayCorrect == Spec => []OneRelay
<1>1. Init => RelayInv
  BY RelayInitially DEF Init
<1>2. RelayInv /\ [Next]_servicesVars => RelayInv'
  BY RelayNextStep, EachPartSteps
<1>. QED BY <1>1, <1>2, RelayFollows, PTL DEF Spec, servicesVars

\* Whatever requests of earlier attempts the cloud still works on, a version that the database
\* names is in the storage with the content its key says, and a sync that says it is done
\* leaves no file it found without its version (session sync, machine and control plane).
THEOREM SyncedIsStoredCorrect == Spec => []SyncedIsStored
<1>1. Init => SyncInv
  BY SyncInitially DEF Init
<1>2. SyncInv /\ [Next]_servicesVars => SyncInv'
  BY SyncNextStep, EachPartSteps
<1>. QED BY <1>1, <1>2, SyncFollows, PTL DEF Spec, servicesVars

\* Whatever requests of users, reports of the machine and failures overlap, the row of a
\* computer tells its instance where no doubt is on record (control plane).
THEOREM RowsTellInstancesCorrect == Spec => []RowsTellInstances
<1>1. Init => ControlInv
  BY ControlInitially DEF Init
<1>2. ControlInv /\ [Next]_servicesVars => ControlInv'
  BY ControlNextStep, EachPartSteps
<1>. QED BY <1>1, <1>2, ControlFollows, PTL DEF Spec, servicesVars

\* Through failed migrations, failed restarts and rollbacks MACHINE_SERVER_VERSION names the
\* release the link leads to, once no run is under way and the last one that installed was
\* not disturbed by another (ank1015-machine-release).
THEOREM VersionIsCurrentCorrect == Spec => []VersionIsCurrent
<1>1. Init => ReleaseInv
  BY ReleaseInitially DEF Init
<1>2. ReleaseInv /\ [Next]_servicesVars => ReleaseInv'
  BY ReleaseNextStep, EachPartSteps
<1>. QED BY <1>1, <1>2, ReleaseFollows, PTL DEF Spec, servicesVars

\* Whatever overlapping uploads, answers that were given up, expiry, failures and restarts
\* leave on the disk, a target is the whole file of one upload, an upload that the client is
\* told of is complete, and no directory is left behind but by a restart (uploads of the web
\* application and the machine).
THEOREM UploadsLeaveWholeCorrect == Spec => []UploadsLeaveWhole
<1>1. Init => UploadInv
  BY UploadInitially DEF Init
<1>2. UploadInv /\ [Next]_servicesVars => UploadInv'
  BY UploadNextStep, EachPartSteps
<1>. QED BY <1>1, <1>2, UploadFollows, PTL DEF Spec, servicesVars

\* A request that waits has a client that is attached, and one that is answered well has its
\* output written as a whole, whatever clients leave, handlers fail and timers fire (browser
\* control on the machine).
THEOREM RequestsAreSoundCorrect == Spec => []RequestsAreSound
<1>1. Init => BrowserInv
  BY BrowserInitially DEF Init
<1>2. BrowserInv /\ [Next]_servicesVars => BrowserInv'
  BY BrowserNextStep, EachPartSteps
<1>. QED BY <1>1, <1>2, BrowserFollows, PTL DEF Spec, servicesVars

\* Through the limit on records, their expiry and cancellation an operation that is under way
\* has its record, and a terminal that lives can be reached by it (capability operations).
THEOREM OperationsAreHeldCorrect == Spec => []OperationsAreHeld
<1>1. Init => OperationsInv
  BY OperationsInitially DEF Init
<1>2. OperationsInv /\ [Next]_servicesVars => OperationsInv'
  BY OperationsNextStep, EachPartSteps
<1>. QED BY <1>1, <1>2, OperationsFollows, PTL DEF Spec, servicesVars

\* The behaviour is about one of the parts.
LEMMA OnePart ==
  /\ Init => part \in {"uploads", "browser control", "release", "session sync", "file browser",
                       "relay", "control plane", "capabilities"}
  /\ UNCHANGED part \/ ~ [Next]_servicesVars
<1>1. Init => part \in {"uploads", "browser control", "release", "session sync", "file browser",
                        "relay", "control plane", "capabilities"}
  BY DEF Init
<1>2. [Next]_servicesVars => UNCHANGED part
  BY DEF servicesVars, Next, DisksNext, WatchersNext, RecordsNext, Is
<1>. QED BY <1>1, <1>2

\* Every part's types are those it declares.
THEOREM ServicesTypesCorrect == Spec => []TypeOK
<1>. DEFINE PartInv ==
       /\ part \in {"uploads", "browser control", "release", "session sync", "file browser",
                    "relay", "control plane", "capabilities"}
       /\ UploadInv /\ BrowserInv /\ ReleaseInv /\ SyncInv
       /\ SessionInv /\ RelayInv /\ ControlInv /\ OperationsInv
<1>1. Init => PartInv
  <2>1. Init => /\ UploadInit /\ BrowserInit /\ ReleaseInit /\ SyncInit
                /\ SessionInit /\ RelayInit /\ ControlInit /\ OperationsInit
    BY DEF Init
  <2>. QED BY <2>1, OnePart, UploadInitially, BrowserInitially, ReleaseInitially, SyncInitially,
              SessionInitially, RelayInitially, ControlInitially, OperationsInitially
<1>2. PartInv /\ [Next]_servicesVars => PartInv'
  BY OnePart, EachPartSteps, UploadNextStep, BrowserNextStep, ReleaseNextStep, SyncNextStep,
     SessionNextStep, RelayNextStep, ControlNextStep, OperationsNextStep
<1>3. PartInv => TypeOK
  BY UploadFollows, BrowserFollows, ReleaseFollows, SyncFollows, SessionFollows, RelayFollows,
     ControlFollows, OperationsFollows DEF TypeOK
<1>. QED BY <1>1, <1>2, <1>3, PTL DEF Spec, servicesVars
=============================================================================
