-------------------------- MODULE FilesystemSession -------------------------
(***************************************************************************)
(* A websocket of the file browser at the machine: FilesystemSocketSession *)
(* of packages/server/src/filesystem/websocket.ts.  It subscribes to one   *)
(* directory after the other, watches the one that is active and sends     *)
(* snapshots.  Each message has its own handler, nothing makes them wait   *)
(* for each other, and the session's start is one of them.                 *)
(*                                                                         *)
(* A watcher has the name of the subscription that made it.                *)
(***************************************************************************)
EXTENDS Naturals, FiniteSets

CONSTANTS
  Subscriptions,   \* the subscriptions of a session, each handled once
  Directories,     \* the directories
  RootDirectory,   \* the root, which is active before the first subscription
  MaxWatchFaults   \* bound: directories that cannot be listed or watched

ASSUME SessionAssumption ==
  RootDirectory \in Directories /\ IsFiniteSet(Subscriptions) /\ MaxWatchFaults \in Nat

VARIABLES
  subscription,  \* the handlers: "new", "list", "close", "start", "done", "unlisted", "unwatched"
  directory,        \* the directory a subscription is for
  activePath,    \* activePath
  currentPath,   \* viewState.currentPath, which other sessions share
  watching,      \* the watchers that are open, those that start included
  ready,         \* those that have reported "ready"
  watcher,       \* this.watcher, as a set
  watchTimer,    \* watchTimer is set
  publishing,    \* the directories that publishSnapshot() is listing
  socketOpen,    \* the websocket
  watchFaults    \* how many faults have happened

watchers == <<watching, ready, watcher, watchTimer>>
paths == <<activePath, currentPath>>
sessionVars == <<subscription, directory, paths, watchers, publishing, socketOpen, watchFaults>>

\* A session that starts in the root directory.
SessionInit ==
  /\ subscription = [s \in Subscriptions |-> "new"]
  /\ directory = [s \in Subscriptions |-> RootDirectory]
  /\ activePath = RootDirectory /\ currentPath = RootDirectory
  /\ watching = {} /\ ready = {} /\ watcher = {} /\ watchTimer = FALSE
  /\ publishing = {} /\ socketOpen = TRUE /\ watchFaults = 0

WatchFault == watchFaults < MaxWatchFaults /\ watchFaults' = watchFaults + 1

At(s, place) == subscription' = [subscription EXCEPT ![s] = place]

-----------------------------------------------------------------------------
(***************************************************************************)
(* subscribe(), from one await to the next.                                *)
(***************************************************************************)
\* A "subscribe" message, or the session's own first one: listDirectory() starts.
Subscribe(s) ==
  /\ socketOpen /\ subscription[s] = "new"
  /\ \E d \in Directories : directory' = [directory EXCEPT ![s] = d]
  /\ At(s, "list")
  /\ UNCHANGED <<paths, watchers, publishing, socketOpen, watchFaults>>

\* closeWatcher(): the timer is cleared and this.watcher taken out, to be closed.
CloseWatcher ==
  /\ watchTimer' = FALSE
  /\ watcher' = {}
  /\ watching' = watching \ watcher /\ ready' = ready \ watcher

\* The listing is there: the directory is the active one and the old watcher goes.
Listed(s) ==
  /\ subscription[s] = "list"
  /\ activePath' = directory[s] /\ currentPath' = directory[s]
  /\ CloseWatcher
  /\ At(s, "close")
  /\ UNCHANGED <<directory, publishing, socketOpen, watchFaults>>

\* watcher.close() has ended: the new watcher starts.
WatcherStarts(s) ==
  /\ subscription[s] = "close"
  /\ watching' = watching \cup {s}
  /\ At(s, "start")
  /\ UNCHANGED <<directory, paths, ready, watcher, watchTimer, publishing, socketOpen, watchFaults>>

\* Mutant: the old watcher is closed when the new one is ready, so that none is missing.
ReadyThenClose(s) ==
  /\ subscription[s] = "start"
  /\ watching' = watching \ watcher /\ ready' = (ready \ watcher) \cup {s}
  /\ watcher' = {s}
  /\ At(s, "done")
  /\ UNCHANGED <<directory, paths, watchTimer, publishing, socketOpen, watchFaults>>

\* "ready": it becomes this.watcher, whatever that is by now, and the snapshot is sent.
WatcherReady(s) ==
  /\ subscription[s] = "start"
  /\ ready' = ready \cup {s}
  /\ watcher' = {s}
  /\ At(s, "done")
  /\ UNCHANGED <<directory, paths, watching, watchTimer, publishing, socketOpen, watchFaults>>

\* The directory cannot be listed, or not be watched: the client is sent an error.  A
\* watcher that reports an error is not closed.
SubscribeFails(s) ==
  /\ \/ subscription[s] = "list" /\ At(s, "unlisted")
     \/ subscription[s] = "start" /\ At(s, "unwatched")
  /\ WatchFault
  /\ UNCHANGED <<directory, paths, watchers, publishing, socketOpen>>

-----------------------------------------------------------------------------
(***************************************************************************)
(* Snapshots.                                                              *)
(***************************************************************************)
\* Something changes in a directory that is watched: scheduleWatchSnapshot().
DirectoryChanges ==
  /\ ready # {}
  /\ watchTimer' = TRUE
  /\ UNCHANGED <<subscription, directory, paths, watching, ready, watcher, publishing, socketOpen,
                 watchFaults>>

\* publishSnapshot() of the active directory: for the timer, a "refresh" or a change that
\* the client has made.
PublishSnapshot ==
  /\ publishing' = publishing \cup {activePath}
  /\ \/ watchTimer /\ watchTimer' = FALSE
     \/ socketOpen /\ UNCHANGED watchTimer
  /\ UNCHANGED <<subscription, directory, paths, watching, ready, watcher, socketOpen, watchFaults>>

\* Its listing is there and is sent, or it has failed.
Published(d) ==
  /\ d \in publishing
  /\ publishing' = publishing \ {d}
  /\ \/ currentPath' = d /\ UNCHANGED watchFaults
     \/ WatchFault /\ UNCHANGED currentPath
  /\ UNCHANGED <<subscription, directory, activePath, watchers, socketOpen>>

\* close(): handlers that are under way go on.
SessionCloses ==
  /\ socketOpen
  /\ socketOpen' = FALSE
  /\ CloseWatcher
  /\ UNCHANGED <<subscription, directory, paths, publishing, watchFaults>>

-----------------------------------------------------------------------------
SessionNext ==
  \/ \E s \in Subscriptions :
       Subscribe(s) \/ Listed(s) \/ WatcherStarts(s) \/ WatcherReady(s) \/ SubscribeFails(s)
  \/ DirectoryChanges \/ PublishSnapshot \/ (\E d \in Directories : Published(d))
  \/ SessionCloses

SessionSpec == SessionInit /\ [][SessionNext]_sessionVars

-----------------------------------------------------------------------------
(***************************************************************************)
(* Properties                                                              *)
(***************************************************************************)
\* The types.
SessionTypeOK ==
  /\ subscription \in [Subscriptions -> {"new", "list", "close", "start", "done", "unlisted",
                                      "unwatched"}]
  /\ directory \in [Subscriptions -> Directories]
  /\ activePath \in Directories /\ currentPath \in Directories
  /\ watching \subseteq Subscriptions /\ ready \subseteq watching
  /\ watcher \subseteq ready /\ Cardinality(watcher) <= 1
  /\ watchTimer \in BOOLEAN /\ publishing \subseteq Directories
  /\ socketOpen \in BOOLEAN /\ watchFaults \in 0 .. MaxWatchFaults

\* When an open session has nothing under way, its active directory is watched, in
\* whatever order the steps of overlapping subscriptions came; unless the client was told
\* that this directory cannot be watched, or has not had a subscription answered yet.
ActiveIsWatched ==
  socketOpen /\ (\A s \in Subscriptions : subscription[s] \notin {"list", "close", "start"})
    /\ (\E s \in Subscriptions : subscription[s] = "done")
  => \E s \in Subscriptions :
       /\ directory[s] = activePath
       /\ s \in ready \/ subscription[s] = "unwatched"
=============================================================================
