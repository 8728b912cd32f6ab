-------------------------------- MODULE Chat --------------------------------
(***************************************************************************)
(* The chat application (chat_app): the server's loop over connected       *)
(* clients (server/src/lib.rs), one hub per portal (hub.rs), the chat      *)
(* server actor (chat_server.rs), and the clients (client/src).            *)
(*                                                                         *)
(* Messages between the processes go through portals, whose serialization  *)
(* tasks reorder them (Portal.tla): what is in flight is a bag.  Mailboxes *)
(* within the server are queues.  An alias is the pair of places of its     *)
(* two words in the shuffled lists (server/src/alias_gen.rs).              *)
(***************************************************************************)
EXTENDS Naturals, Sequences, FiniteSets, Bags

CONSTANTS
  Client,   \* the clients, each with one portal
  Post,     \* what they write, each once
  Faults,   \* what may go wrong, out of FaultKinds
  WordCount, \* how many words each list of the alias generator has
  Earlier,  \* how many have joined, and left, before these clients may come
  None      \* no value

FaultKinds == {"leave", "slow"}
Aliases == (0 .. WordCount - 1) \X (0 .. WordCount - 1)

ASSUME ChatAssumption ==
  /\ None \notin Client \cup Aliases
  /\ IsFiniteSet(Client) /\ IsFiniteSet(Post)
  /\ Faults \subseteq FaultKinds
  /\ WordCount \in Nat \ {0}
  /\ Earlier \subseteq Nat

VARIABLES
  (* the server's process *)
  arrivals,   \* the OnActorConnectedMessages that wait
  serving,    \* the client of handle_connected_client, or None
  hub,        \* the portals on which a hub is published
  joining,    \* what the hub of each portal is doing
  answer,     \* the alias that it was given for its client
  mailbox,    \* the chat server actor's mailbox
  clients,    \* ChatServerState::clients: portal -> alias
  generated,  \* AliasGenerator::generated_count
  opened,     \* the portals whose handshake is complete, of each side
  (* in flight between the processes *)
  toClient,   \* ChatClientMessages
  toServer,   \* PostMessages
  acks,       \* answers to them
  (* the clients *)
  phase,      \* how far main has come
  alias,      \* UIState::user_alias
  history,    \* UIState::chat_history, as a bag
  inFlight,   \* UIState::is_message_in_flight
  (* history *)
  joined,     \* the clients in the order in which they were given an alias
  author,     \* who posted
  audience,   \* who was online then
  acked       \* the posts that were acknowledged

serverVars == <<arrivals, serving, hub, joining, answer, mailbox, clients, generated>>
netVars == <<opened, toClient, toServer, acks>>
clientVars == <<phase, alias, history, inFlight>>
historyVars == <<joined, author, audience, acked>>
vars == <<serverVars, netVars, clientVars, historyVars>>

-----------------------------------------------------------------------------
(* AliasGenerator::get_pair.  The words of one round of the first list are *)
(* combined with those of the second from one place further on each time.  *)
(* Mutant: always from the first place.                                    *)
SamePlaces(n) == <<n % WordCount, n % WordCount>>
Pair(n) == <<n % WordCount, (n + n \div WordCount) % WordCount>>

ChatClientMessage ==
       [type : {"UserConnected"}, alias : Aliases]
  \cup [type : {"MessageReceived"}, alias : Aliases, post : Post]
Msg == [type : {"Connect"}, portal : Client] \cup [type : {"Public"}, portal : Client, post : Post]

Phases == {"start", "connected", "asking", "asked", "joining", "online", "failed", "exited"}
Present(c) == phase[c] \notin {"start", "failed", "exited"}
NoClients == [c \in {} |-> c]
-----------------------------------------------------------------------------
Init ==
  /\ arrivals = <<>> /\ serving = None
  /\ hub = {}
  /\ joining = [c \in Client |-> "no"]
  /\ answer = [c \in Client |-> None]
  /\ mailbox = <<>> /\ clients = NoClients /\ generated \in Earlier
  /\ opened = [side \in {"client", "server"} |-> {}]
  /\ toClient = [c \in Client |-> EmptyBag]
  /\ toServer = {} /\ acks = {}
  /\ phase = [c \in Client |-> "start"]
  /\ alias = [c \in Client |-> None]
  /\ history = [c \in Client |-> EmptyBag]
  /\ inFlight = [c \in Client |-> FALSE]
  /\ joined = <<>>
  /\ author = [p \in Post |-> None]
  /\ audience = [p \in Post |-> {}]
  /\ acked = {}
-----------------------------------------------------------------------------
(* The server's loop *)

(* handle_connected_client: a hub is spawned; it is published on the       *)
(* client's portal, and that is awaited; then it waits for the handshake,  *)
(* and serves nobody else meanwhile.                                       *)
ServerTakesClient ==
  /\ serving = None
  /\ arrivals # <<>>
  /\ arrivals' = Tail(arrivals)
  /\ serving' = Head(arrivals)
  /\ UNCHANGED <<hub, joining, answer, mailbox, clients, generated, netVars, clientVars, historyVars>>
ServerPublishesHub ==
  /\ serving # None /\ serving \notin hub
  /\ hub' = hub \cup {serving}
  /\ UNCHANGED <<arrivals, serving, joining, answer, mailbox, clients, generated, netVars, clientVars,
                 historyVars>>

(* It waits for five seconds at most, or until the portal is gone, which   *)
(* ends the publication too.  Mutant: there is no limit.                   *)
MustOpen == serving \in hub \cap opened["server"]
MayMoveOn == \/ serving \in hub /\ (serving \in opened["server"] \/ "slow" \in Faults)
             \/ ~Present(serving)
ServerMovesOn ==
  /\ serving # None
  /\ MayMoveOn
  /\ serving' = None
  /\ UNCHANGED <<arrivals, hub, joining, answer, mailbox, clients, generated, netVars,
                 clientVars, historyVars>>

(* The hub: Connect is passed on to the chat server and its answer back,   *)
(* with an actor that maps posts to Public messages of this portal.        *)
HubAsks(c) ==
  /\ joining[c] = "received"
  /\ joining' = [joining EXCEPT ![c] = "asked"]
  /\ mailbox' = Append(mailbox, [type |-> "Connect", portal |-> c])
  /\ UNCHANGED <<arrivals, serving, hub, answer, clients, generated, netVars, clientVars,
                 historyVars>>
-----------------------------------------------------------------------------
(* The chat server actor *)

Takes(type) == mailbox # <<>> /\ Head(mailbox).type = type

(* The proxies of a client that left are gone; the entry stays.            *)
SendsAll(recipients, m) ==
  toClient' = [c \in Client |-> IF c \in recipients /\ Present(c)
                                THEN toClient[c] (+) SetToBag({m}) ELSE toClient[c]]

(* Connect: a new alias, which the client, the others and, as the ids that *)
(* are compared are those of a portal and of a client actor, it itself are *)
(* told.  Mutant: nobody else is told.                                     *)
Stores(c) ==
  clients' = [d \in DOMAIN clients \cup {c} |-> IF d = c THEN Pair(generated) ELSE clients[d]]
OnlyItself(c) == {c}
Told(c) == DOMAIN clients \cup {c}
HandleConnect ==
  /\ Takes("Connect")
  /\ LET c == Head(mailbox).portal
     IN /\ Stores(c)
        /\ generated' = generated + 1
        /\ joining' = [joining EXCEPT ![c] = "answered"]
        /\ answer' = [answer EXCEPT ![c] = Pair(generated)]
        /\ SendsAll(Told(c), [type |-> "UserConnected", alias |-> Pair(generated)])
        /\ joined' = Append(joined, c)
  /\ mailbox' = Tail(mailbox)
  /\ UNCHANGED <<arrivals, serving, hub, opened, toServer, acks, clientVars, author, audience, acked>>

(* Public: a post of a known client goes to all clients, and is            *)
(* acknowledged; the reply port of another one is dropped, which its asker *)
(* is told too.                                                            *)
Recipients(c) == DOMAIN clients
Answers(p, known) == acks \cup {[post |-> p, ok |-> known]}
HandlePublic ==
  /\ Takes("Public")
  /\ LET m == Head(mailbox)
     IN /\ IF m.portal \in DOMAIN clients
           THEN SendsAll(Recipients(m.portal), [type |-> "MessageReceived",
                                                alias |-> clients[m.portal], post |-> m.post])
           ELSE UNCHANGED toClient
        /\ acks' = Answers(m.post, m.portal \in DOMAIN clients)
  /\ mailbox' = Tail(mailbox)
  /\ UNCHANGED <<arrivals, serving, hub, joining, answer, clients, generated, opened, toServer, clientVars,
                 historyVars>>
-----------------------------------------------------------------------------
(* The clients: main *)

ClientConnects(c) ==
  /\ phase[c] = "start"
  /\ phase' = [phase EXCEPT ![c] = "connected"]
  /\ arrivals' = Append(arrivals, c)
  /\ UNCHANGED <<serving, hub, joining, answer, mailbox, clients, generated, netVars, alias,
                 history, inFlight, historyVars>>

(* Each side's portal opens when it has handled the other's introduction. *)
PortalOpens(side, c) ==
  /\ Present(c)
  /\ c \notin opened[side]
  /\ opened' = [opened EXCEPT ![side] = @ \cup {c}]
  /\ UNCHANGED <<serverVars, toClient, toServer, acks, clientVars, historyVars>>

ClientQueriesHub(c) ==
  /\ phase[c] = "connected"
  /\ c \in opened["client"]
  /\ phase' = [phase EXCEPT ![c] = "asking"]
  /\ UNCHANGED <<serverVars, netVars, alias, history, inFlight, historyVars>>

(* The server's portal answers; "not found" ends the client.               *)
HubIsFound(c) ==
  /\ phase[c] = "asking"
  /\ c \in opened["server"]
  /\ phase' = [phase EXCEPT ![c] = IF c \in hub THEN "asked" ELSE "failed"]
  /\ UNCHANGED <<serverVars, netVars, alias, history, inFlight, historyVars>>

ClientJoins(c) ==
  /\ phase[c] = "asked"
  /\ phase' = [phase EXCEPT ![c] = "joining"]
  /\ joining' = [joining EXCEPT ![c] = "received"]
  /\ UNCHANGED <<arrivals, serving, hub, answer, mailbox, clients, generated, netVars, alias,
                 history, inFlight, historyVars>>

ClientIsOnline(c) ==
  /\ phase[c] = "joining"
  /\ joining[c] = "answered"
  /\ phase' = [phase EXCEPT ![c] = "online"]
  /\ alias' = [alias EXCEPT ![c] = answer[c]]
  /\ UNCHANGED <<serverVars, netVars, history, inFlight, historyVars>>

(* WaitForHandshake times out after five seconds.  And a user leaves: who  *)
(* is not online yet is not heard of again, but for a Connect that its hub *)
(* has (one that is lost is one that was not sent).                        *)
ClientFails(c) ==
  /\ "slow" \in Faults
  /\ phase[c] = "connected" /\ c \notin opened["client"]
  /\ phase' = [phase EXCEPT ![c] = "failed"]
  /\ UNCHANGED <<serverVars, netVars, alias, history, inFlight, historyVars>>
ClientLeaves(c) ==
  /\ "leave" \in Faults
  /\ Present(c)
  /\ phase' = [phase EXCEPT ![c] = IF @ = "online" THEN "exited" ELSE "failed"]
  /\ toClient' = [toClient EXCEPT ![c] = EmptyBag]
  /\ UNCHANGED <<serverVars, opened, toServer, acks, alias, history, inFlight, historyVars>>
-----------------------------------------------------------------------------
(* The clients: the user interface *)

(* Enter, also while a post is in flight. *)
UserPosts(c, p) ==
  /\ phase[c] = "online"
  /\ author[p] = None
  /\ inFlight' = [inFlight EXCEPT ![c] = TRUE]
  /\ toServer' = toServer \cup {p}
  /\ author' = [author EXCEPT ![p] = c]
  /\ audience' = [audience EXCEPT ![p] = {d \in Client : phase[d] = "online"}]
  /\ UNCHANGED <<serverVars, opened, toClient, acks, phase, alias, history, joined, acked>>

(* A post reaches the map actor of its portal, or is lost with its client. *)
PostArrives(p) ==
  /\ p \in toServer
  /\ toServer' = toServer \ {p}
  /\ \/ mailbox' = Append(mailbox, [type |-> "Public", portal |-> author[p], post |-> p])
     \/ phase[author[p]] = "exited" /\ UNCHANGED mailbox
  /\ UNCHANGED <<arrivals, serving, hub, joining, answer, clients, generated, opened, toClient,
                 acks, clientVars, historyVars>>

AckArrives(p) ==
  \E a \in acks :
    /\ a.post = p
    /\ acks' = acks \ {a}
    /\ IF phase[author[p]] = "online"
       THEN /\ inFlight' = [inFlight EXCEPT ![author[p]] = FALSE]
            /\ acked' = IF a.ok THEN acked \cup {p} ELSE acked
       ELSE UNCHANGED <<inFlight, acked>>
    /\ UNCHANGED <<serverVars, opened, toClient, toServer, phase, alias, history, joined, author,
                   audience>>

ClientReceives(c) ==
  /\ Present(c)
  /\ \E m \in BagToSet(toClient[c]) :
       /\ toClient' = [toClient EXCEPT ![c] = @ (-) SetToBag({m})]
       /\ history' = [history EXCEPT ![c] = @ (+) SetToBag({m})]
  /\ UNCHANGED <<serverVars, opened, toServer, acks, phase, alias, inFlight, historyVars>>
-----------------------------------------------------------------------------
ServerStep ==
  \/ ServerTakesClient \/ ServerPublishesHub \/ ServerMovesOn
  \/ HandleConnect \/ HandlePublic
  \/ \E c \in Client : HubAsks(c)
ClientStep(c) ==
  \/ ClientQueriesHub(c) \/ HubIsFound(c) \/ ClientJoins(c) \/ ClientIsOnline(c)
  \/ ClientReceives(c)

Next ==
  \/ ServerStep
  \/ \E c \in Client :
       \/ ClientStep(c) \/ ClientConnects(c) \/ ClientFails(c) \/ ClientLeaves(c)
       \/ \E side \in {"client", "server"} : PortalOpens(side, c)
       \/ \E p \in Post : UserPosts(c, p)
  \/ \E p \in Post : PostArrives(p) \/ AckArrives(p)

(* Loops, actors and timers run; a peer need not complete the handshake. *)
Spec == Init /\ [][Next]_vars
FairSpec ==
  /\ Spec
  /\ WF_vars(ServerTakesClient) /\ WF_vars(ServerPublishesHub) /\ WF_vars(ServerMovesOn)
  /\ WF_vars(HandleConnect) /\ WF_vars(HandlePublic)
  /\ \A c \in Client : WF_vars(HubAsks(c)) /\ WF_vars(ClientStep(c))
  /\ \A p \in Post : WF_vars(PostArrives(p)) /\ WF_vars(AckArrives(p))
-----------------------------------------------------------------------------
TypeOK ==
  /\ arrivals \in Seq(Client)
  /\ serving \in Client \cup {None}
  /\ hub \subseteq Client
  /\ joining \in [Client -> {"no", "received", "asked", "answered"}]
  /\ answer \in [Client -> Aliases \cup {None}]
  /\ mailbox \in Seq(Msg)
  /\ DOMAIN clients \subseteq Client /\ clients \in [DOMAIN clients -> Aliases]
  /\ generated \in Nat /\ joined \in Seq(Client)
  /\ opened \in [{"client", "server"} -> SUBSET Client]
  /\ DOMAIN toClient = Client /\ DOMAIN history = Client
  /\ \A c \in Client : \A bag \in {toClient[c], history[c]} :
       IsABag(bag) /\ BagToSet(bag) \subseteq ChatClientMessage
  /\ toServer \subseteq Post /\ acked \subseteq Post
  /\ acks \subseteq [post : Post, ok : BOOLEAN]
  /\ phase \in [Client -> Phases]
  /\ alias \in [Client -> Aliases \cup {None}]
  /\ inFlight \in [Client -> BOOLEAN]
  /\ author \in [Post -> Client \cup {None}] /\ audience \in [Post -> SUBSET Client]

(* What a client has been shown, or will be. *)
Shown(c) == toClient[c] (+) history[c]
Copies(m, bag) == IF BagIn(m, bag) THEN bag[m] ELSE 0
JoinOf(a) == [type |-> "UserConnected", alias |-> a]

(* A post is shown under the alias its author believes to have, whoever    *)
(* sees it, and once; and as long as the pairs of words last ("the total   *)
(* number of unique combinations", alias_gen.rs), nobody else ever in this *)
(* chat had that alias.                                                    *)
Before == {Pair(n) : n \in 0 .. generated - Len(joined) - 1}
PostsAreAttributed ==
  \A c \in Client : \A m \in BagToSet(Shown(c)) :
    m.type = "MessageReceived" =>
      /\ m.alias = alias[author[m.post]]
      /\ Copies(m, Shown(c)) = 1
      /\ generated <= WordCount * WordCount =>
           m.alias \notin Before \cup {alias[d] : d \in Client \ {author[m.post]}}

(* "forward the message to all clients": once a post is acknowledged, all  *)
(* that were online when it was made, its author too, have it or are being *)
(* sent it.  And whoever joins is announced to all that joined before,     *)
(* once: a client hears of an alias as often as it was given to others     *)
(* since that client joined.  Of its own alias it may hear once more:      *)
(* "notify all (other) clients" (chat_server.rs:80), but the code compares *)
(* the id of a portal with that of a client actor, and tells it too.       *)
JoinedBefore(c, d) == \E i, j \in DOMAIN joined : i <= j /\ joined[i] = c /\ joined[j] = d
GivenSince(c, a) == {d \in Client : JoinedBefore(c, d) /\ answer[d] = a}
MayHearOfItself(c, a) == IF a = alias[c] THEN {0, 1} ELSE {0}
NewsReachesAll ==
  /\ \A p \in acked : \A c \in audience[p] :
       phase[c] = "online" => \E m \in BagToSet(Shown(c)) : m.type = "MessageReceived" /\ m.post = p
  /\ \A c \in Client : \A a \in Aliases :
       phase[c] = "online" =>
         \E own \in MayHearOfItself(c, a) :
           Copies(JoinOf(a), Shown(c)) = Cardinality(GivenSince(c, a) \ {c}) + own

(* Whoever connects is served, or the server finds it gone, however many   *)
(* before it never complete the handshake; and "SENDING..." does not stay: *)
(* each post is answered, unless its author has left.                      *)
FoundGone(c) == ~Present(c) /\ serving # c /\ \A i \in DOMAIN arrivals : arrivals[i] # c
EveryClientIsServed ==
  /\ \A c \in Client : phase[c] = "connected" ~> c \in hub \/ FoundGone(c)
  /\ \A c \in Client : inFlight[c] ~> ~inFlight[c] \/ phase[c] = "exited"
=============================================================================
