---------------------------- MODULE MCConnections ----------------------------
(***************************************************************************)
(* Three kinds of connection that reconnect on their own, checked in one   *)
(* run: the machine's tunnel to the cloud, the file browser's websocket to *)
(* the machine, and the browser that a page publishes and a phone shows.   *)
(* A behaviour is of one of them while the others rest.                    *)
(***************************************************************************)
EXTENDS TunnelRegistry, FilesystemConnection, BrowserView

VARIABLE part   \* the connection that the behaviour is about

Init ==
  /\ part \in {"tunnel", "file browser", "browser view"}
  /\ RegistryInit /\ LinkInit /\ ViewInit
  /\ part # "file browser" => app = "web" /\ subscribedPath = Root

Next ==
  \/ part = "tunnel" /\ RegistryNext /\ UNCHANGED <<part, linkVars, viewVars>>
  \/ part = "file browser" /\ LinkNext /\ UNCHANGED <<part, registryVars, viewVars>>
  \/ part = "browser view" /\ ViewNext /\ UNCHANGED <<part, registryVars, linkVars>>

\* Each connection is scheduled as its own module says.
\* Nothing is fair in the initial state of any, so those that rest may.
Spec == Init /\ [][Next]_<<registryVars, linkVars, viewVars, part>>
             /\ RegistryFairness /\ LinkFairness /\ ViewFairness

\* The types of the connection that moves.
TypeOK ==
  CASE part = "tunnel" -> RegistryTypeOK
    [] part = "file browser" -> LinkTypeOK
    [] part = "browser view" -> ViewTypeOK

\* However late close events come, each end has at most one live connection, or one attempt to
\* make it, what it does about it is about that one, and the other end knows it by that one.
OneConnection ==
  CASE part = "tunnel" -> OneTunnel /\ OneSocket
    [] part = "file browser" -> OneLink
    [] part = "browser view" -> OnePublisher

\* Connections come back, except for what each module names.
ComesBack ==
  []<>(CASE part = "tunnel" -> TunnelIsBack
         [] part = "file browser" -> LinkIsBack
         [] part = "browser view" -> PublisherIsBack)
=============================================================================
