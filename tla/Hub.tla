--------------------------------- MODULE Hub ---------------------------------
(***************************************************************************)
(* wsapi.Hub: the open pages of every account.  Each connection has a      *)
(* goroutine (Serve) that authenticates it, puts it into the hub's maps,   *)
(* reads until the connection ends and takes it out again.  Others cut     *)
(* connections: whoever delivers to a full queue, a newer page of the same *)
(* person, the organisers.  The app keeps who is online beside the hub     *)
(* (onPresence), told by the two callbacks.                                *)
(*                                                                         *)
(* What is queued for a page is not kept: a delivery may find the queue of *)
(* any page full (Drop).  When each page was opened is not kept either:    *)
(* which of a person's pages are the oldest is open (Replaced).            *)
(***************************************************************************)
EXTENDS Naturals, FiniteSets, Sequences, SequencesExt

CONSTANTS
    Socket,      \* connections
    Account,     \* the accounts they belong to
    PerAccount,  \* the pages one person may have
    MaxConns     \* the pages the server holds

ASSUME HubAssumption == PerAccount \in Nat \ {0} /\ MaxConns \in Nat \ {0}

VARIABLES
    clients,     \* the connections in the maps
    serve,       \* of each connection, where its Serve is and what it knows
    pres         \* of each account, whether it was last reported online

hubVars == <<clients, serve, pres>>

Unserved == [stage |-> "none"]

(* What Serve knows of a connection it has authenticated: whose it is, the *)
(* person, the role when it looked, the pages it replaces, whether its     *)
(* conn is closed.  The token is kept for the properties, and late: its    *)
(* sign-in had ended and the account's pages were closed after it was      *)
(* authenticated and before it was in the maps.                            *)
Known(team, login, role, token) ==
    [stage |-> "known", team |-> team, login |-> login, role |-> role, evict |-> {},
     first |-> FALSE, saw |-> FALSE, cut |-> FALSE, token |-> token, late |-> FALSE]

HubInit ==
    /\ clients = {}
    /\ serve = [c \in Socket |-> Unserved]
    /\ pres = [t \in Account |-> FALSE]

(* A kill of the process: the connections end with it. *)
HubKill ==
    /\ clients' = {}
    /\ serve' = [c \in Socket |-> Unserved]
    /\ pres' = [t \in Account |-> FALSE]

Open(c) == c \in clients /\ ~serve[c].cut

Sockets(team) == {c \in clients : serve[c].team = team}

(* Serve up to the answer of the authenticator. *)
Admit(c, team, login, role, token) ==
    /\ serve[c] = Unserved
    /\ Cardinality(clients) < MaxConns
    /\ serve' = [serve EXCEPT ![c] = Known(team, login, role, token)]
    /\ UNCHANGED <<clients, pres>>

SurplusMutant(mine) == IF Cardinality(mine) <= PerAccount THEN 0 ELSE Cardinality(mine) - PerAccount

(* How many of a person's pages a new one replaces, ... *)
Surplus(mine) == IF Cardinality(mine) < PerAccount THEN 0 ELSE Cardinality(mine) + 1 - PerAccount

(* ... and which they may be. *)
Replaced(mine) == {old \in SUBSET mine : Cardinality(old) = Surplus(mine)}

Person(c) == {o \in clients : serve[o].team = serve[c].team /\ serve[o].login = serve[c].login}

(* add: under the lock the page joins the maps, and the person's oldest    *)
(* pages are marked to go; they are closed after it (Evict).               *)
Add(c) ==
    /\ serve[c].stage = "known"
    /\ clients' = clients \cup {c}
    /\ \E old \in Replaced(Person(c)) :
         serve' = [serve EXCEPT ![c].stage = "evict", ![c].evict = old,
                                ![c].first = Sockets(serve[c].team) = {}]
    /\ UNCHANGED pres

Evict(c) ==
    /\ serve[c].stage = "evict"
    /\ serve' = [o \in Socket |->
         IF o \in serve[c].evict THEN [serve[o] EXCEPT !.cut = TRUE]
         ELSE IF o = c THEN [serve[c] EXCEPT !.stage = IF serve[c].first THEN "ask" ELSE "read",
                                             !.evict = {}]
         ELSE serve[o]]
    /\ UNCHANGED <<clients, pres>>

(* onPresence: how many connections are there now, and then the note. *)
Ask(c) ==
    /\ serve[c].stage = "ask"
    /\ serve' = [serve EXCEPT ![c].stage = "tell", ![c].saw = Sockets(serve[c].team) # {}]
    /\ UNCHANGED <<clients, pres>>

Tell(c) ==
    /\ serve[c].stage = "tell"
    /\ pres' = [pres EXCEPT ![serve[c].team] = serve[c].saw]
    /\ serve' = [serve EXCEPT ![c] = IF c \in clients THEN [@ EXCEPT !.stage = "read"]
                                                     ELSE Unserved]
    /\ UNCHANGED clients

(* The connection ends: the page is left, has been silent or too loud, or  *)
(* a delivery found its queue full.                                        *)
Drop(c) ==
    /\ Open(c)
    /\ serve' = [serve EXCEPT ![c].cut = TRUE]
    /\ UNCHANGED <<clients, pres>>

(* remove: reading has failed, the page leaves the maps. *)
Leave(c) ==
    LET last == Sockets(serve[c].team) = {c}
        gone == IF last THEN [serve[c] EXCEPT !.stage = "ask"] ELSE Unserved
    IN  /\ c \in clients /\ serve[c].stage = "read" /\ serve[c].cut
        /\ clients' = clients \ {c}
        /\ serve' = [o \in Socket |->
             IF o = c THEN gone
             ELSE IF serve[o] = Unserved THEN Unserved
             ELSE [serve[o] EXCEPT !.evict = @ \ {c}]]
        /\ UNCHANGED pres

(* DisconnectAccount: every connection of the account is closed.  It does  *)
(* not see those that are authenticated and not yet in the maps: with one  *)
(* of the sign-ins that have ended they are late.                          *)
Missed(team, ended) ==
    {c \in Socket : serve[c].stage = "known" /\ serve[c].team = team /\ serve[c].token \in ended}

DisconnectAccount(team, ended) ==
    /\ serve' = [c \in Socket |->
         IF c \in Sockets(team) THEN [serve[c] EXCEPT !.cut = TRUE]
         ELSE IF c \in Missed(team, ended) THEN [serve[c] EXCEPT !.late = TRUE] ELSE serve[c]]
    /\ UNCHANGED <<clients, pres>>

(* SetRole: every open page of the account gets the feed of the role. *)
SetRole(team, role) ==
    /\ serve' = [c \in Socket |-> IF c \in Sockets(team) THEN [serve[c] EXCEPT !.role = role]
                                                         ELSE serve[c]]
    /\ UNCHANGED <<clients, pres>>

(* The sign-up of the account failed: its pages are nobody's. *)
Excused(team) ==
    /\ serve' = [c \in Socket |-> IF serve[c] # Unserved /\ serve[c].team = team
                                  THEN [serve[c] EXCEPT !.late = TRUE] ELSE serve[c]]
    /\ UNCHANGED <<clients, pres>>

HubStep(c) == Add(c) \/ Evict(c) \/ Ask(c) \/ Tell(c) \/ Drop(c) \/ Leave(c)

---------------------------------------------------------------------------
(* One person's many tabs: no more than the limit stay open once those     *)
(* marked to go are gone (wsapi/hub.go:251-253).                           *)
FewPages ==
    \A c \in clients :
        LET stay == {o \in clients : Open(o) /\ serve[o].team = serve[c].team
                                    /\ serve[o].login = serve[c].login
                                    /\ \A d \in clients : o \notin serve[d].evict}
        IN  Cardinality(stay) <= PerAccount

(* With nobody in a callback, an account is online exactly if it has a     *)
(* connection: "Asking again keeps the answer right even if a quick        *)
(* disconnect and reconnect delivers the two reports out of order"         *)
(* (app/presence.go:16-17).                                                *)
PresenceRight ==
    (\A c \in Socket : serve[c].stage \notin {"evict", "ask", "tell"})
        => \A t \in Account : pres[t] = (Sockets(t) # {})
=============================================================================
