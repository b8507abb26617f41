------------------------------ MODULE Accounts ------------------------------
(***************************************************************************)
(* Package app's accounts: teams that sign up, teammates who join, the     *)
(* sign-ins they hold, and what organisers do to them, down to the fresh   *)
(* start of the event.  Composed with the Hub, whose pages those sign-ins  *)
(* open.                                                                   *)
(*                                                                         *)
(* disk is what replaying the log would give: every Append is one Replay   *)
(* step on it.  updateUser and updateMember hold their lock from reading   *)
(* to the change after the Append, so each is one step; what a call does   *)
(* before and after is steps of its own.                                   *)
(***************************************************************************)
EXTENDS Hub, Functions

CONSTANTS
    Team, Member,  \* ids, each given once
    Address,       \* e-mail addresses
    Mailbox,       \* of each address its mailbox (emailKey)
    Founder,       \* of teams that exist already, the leader's address
    TeamSize,
    Token,         \* sign-ins
    Newcomer,      \* requests to register under way at once
    Actor,         \* organisers and leaders
    Call,          \* what they do
    MaxDeeds, MaxUpsets,
    Overtake,      \* whether they may act on a sign-up that is under way
    None           \* no record, no teammate: the leader

(* The records of the stores. *)
UserRecord ==
    [addr : DOMAIN Mailbox, role : {"investor", "fund_manager"},
     status : {"active", "warned", "disqualified"}, warnings : Nat, locked : BOOLEAN,
     ver : Nat, trader : Member \cup {None}, code : BOOLEAN]

MemberRecord == [team : Team, addr : Address, removed : BOOLEAN, ver : Nat]

OneTeam == {"SignOut", "Lock", "Unlock", "Eject", "Readmit", "Promote", "Warn", "Disqualify",
            "Reinstate", "SetRole", "NewTeamCode"}

ASSUME AccountsAssumption ==
    /\ Account = Team /\ DOMAIN Founder \subseteq Team /\ IsFiniteSet(DOMAIN Founder)
    /\ Founder \in [DOMAIN Founder -> DOMAIN Mailbox] /\ Address \subseteq DOMAIN Mailbox
    /\ \A t, o \in DOMAIN Founder : t # o => Mailbox[Founder[t]] # Mailbox[Founder[o]]
    /\ None \notin Member \cup UserRecord \cup MemberRecord
    /\ TeamSize \in Nat \ {0} /\ MaxDeeds \in Nat /\ MaxUpsets \in Nat
    /\ Call \subseteq OneTeam \cup {"SetTrader", "Remove", "SignOutMember", "SignOutAll",
                                    "Reset", "Fresh"}
    /\ Overtake \in BOOLEAN

VARIABLES
    users, members,  \* the stores
    revoked,         \* sign-ins cancelled one by one
    disk,            \* what restore would build: [users, members, revoked, loads]
    tokens,          \* of each sign-in given out: [team, login, ver]
    reg,             \* requests to register under way
    desk,            \* of each organiser's call what is left to do
    born,            \* ids given
    deeds, upsets

appVars == <<users, members, revoked, disk, tokens, reg, desk, born, deeds, upsets>>
vars    == <<hubVars, appVars>>

User(addr) ==
    [addr |-> addr, role |-> "investor", status |-> "active", warnings |-> 0,
     locked |-> FALSE, ver |-> 0, trader |-> None, code |-> FALSE]

Idle == [op |-> "idle"]

Init ==
    /\ HubInit
    /\ users = [t \in Team |-> IF t \in DOMAIN Founder
                               THEN [User(Founder[t]) EXCEPT !.code = TRUE] ELSE None]
    /\ members = [m \in Member |-> None]
    /\ revoked = {}
    /\ disk = [users |-> users, members |-> members, revoked |-> {}, loads |-> TRUE]
    /\ tokens = [k \in Token |-> None]
    /\ reg = [n \in Newcomer |-> Idle]
    /\ desk = [a \in Actor |-> <<>>]
    /\ born = DOMAIN Founder
    /\ deeds = 0 /\ upsets = 0

Teams == {t \in Team : users[t] # None}

Current(m) == members[m] # None /\ ~members[m].removed

OfTeam(t) == {m \in Member : Current(m) /\ members[m].team = t}

UserMailboxes == {Mailbox[users[t].addr] : t \in Teams}

MemberMailboxes == {Mailbox[members[m].addr] : m \in {n \in Member : Current(n)}}

---------------------------------------------------------------------------
(* Records, as restore replays them.  userStore.put refuses an address     *)
(* that another account holds, and restore with it.                        *)
ReplayUser(t, u) ==
    [disk EXCEPT !.users[t] = u,
                 !.loads = @ /\ \A o \in Team \ {t} :
                                  disk.users[o] # None => disk.users[o].addr # u.addr]

ReplayMemberMutant(m, rec) == [disk EXCEPT !.members[m] = [rec EXCEPT !.removed = FALSE, !.ver = 0]]

ReplayMember(m, rec) == [disk EXCEPT !.members[m] = rec]

ReplayReset(fresh) ==
    IF fresh THEN [disk EXCEPT !.users = [t \in Team |-> None],
                               !.members = [m \in Member |-> None]]
             ELSE disk

(* What people do is counted: requests, sign-ins, pages, calls. *)
Deed == deeds < MaxDeeds /\ deeds' = deeds + 1

(* An Append that fails: the disk is full, and nothing has changed. *)
Fail == upsets < MaxUpsets /\ upsets' = upsets + 1

---------------------------------------------------------------------------
(* Registering *)

(* An id that was never given, if there is one. *)
Fresh(ids) == IF ids \subseteq born THEN {} ELSE {CHOOSE i \in ids : i \notin born}

Quiet == \A n \in Newcomer : reg[n] = Idle

Resetting == \E a \in Actor : \E i \in DOMAIN desk[a] : desk[a][i].do \in {"reset", "drop", "clear"}

MayRegister == Overtake \/ ~Resetting

(* Signup takes the address and makes the team visible ... *)
Reserve(n, addr) ==
    /\ Deed
    /\ reg[n] = Idle /\ MayRegister
    /\ Mailbox[addr] \notin MemberMailboxes \cup UserMailboxes
    /\ \E t \in Fresh(Team) :
         /\ users' = [users EXCEPT ![t] = User(addr)]
         /\ reg' = [reg EXCEPT ![n] = [op |-> "signup", team |-> t, addr |-> addr]]
         /\ born' = born \cup {t}
    /\ UNCHANGED <<members, revoked, disk, tokens, desk, upsets, hubVars>>

TakenOutMutant(t) == users

TakenOut(t) == [users EXCEPT ![t] = None]

(* ... stores it as it made it, or takes it out again. *)
Store(n) ==
    LET r == reg[n]
    IN  /\ r.op = "signup"
        /\ \/ /\ disk' = ReplayUser(r.team, User(r.addr))
              /\ UNCHANGED <<users, upsets, hubVars>>
           \/ /\ Fail
              /\ users' = TakenOut(r.team)
              /\ Excused(r.team)
              /\ UNCHANGED disk
        /\ reg' = [reg EXCEPT ![n] = Idle]
        /\ UNCHANGED <<members, revoked, tokens, desk, born, deeds>>

(* teamByCode: the teams that have a code to share. *)
Coded == {t \in Teams : users[t].code}

(* JoinTeam finds the team that shared its code ... *)
Find(n, t, addr) ==
    /\ Deed
    /\ reg[n] = Idle /\ MayRegister /\ TeamSize >= 2
    /\ t \in Coded
    /\ users[t].status # "disqualified" /\ ~users[t].locked
    /\ reg' = [reg EXCEPT ![n] = [op |-> "join", team |-> t, addr |-> addr]]
    /\ UNCHANGED <<users, members, revoked, disk, tokens, desk, born, upsets, hubVars>>

HasRoomMutant(t) == Cardinality(OfTeam(t)) < TeamSize

HasRoom(t) == Cardinality(OfTeam(t)) + 1 < TeamSize

(* ... and under the lock of all new logins checks the address and the     *)
(* room there is, stores the teammate and lets them in.                    *)
Join(n) ==
    LET r  == reg[n]
        ok == /\ Mailbox[r.addr] \notin MemberMailboxes \cup UserMailboxes
              /\ HasRoom(r.team)
    IN  /\ r.op = "join"
        /\ \/ /\ ok
              /\ \E m \in Fresh(Member) :
                   LET rec == [team |-> r.team, addr |-> r.addr, removed |-> FALSE, ver |-> 0]
                   IN  /\ disk' = ReplayMember(m, rec)
                       /\ members' = [members EXCEPT ![m] = rec]
                       /\ born' = born \cup {m}
              /\ UNCHANGED upsets
           \/ ok /\ Fail /\ UNCHANGED <<disk, members, born>>
           \/ ~ok /\ UNCHANGED <<disk, members, born, upsets>>
        /\ reg' = [reg EXCEPT ![n] = Idle]
        /\ UNCHANGED <<users, revoked, tokens, desk, deeds, hubVars>>

---------------------------------------------------------------------------
(* Sign-ins *)

(* What a sign-in is stamped with: memberVer ties a teammate's to the team. *)
Version(t, m) == <<users[t].ver, IF m = None THEN 0 ELSE members[m].ver>>

(* Login, memberLogin: who is let in. *)
Login(t) == t \in Teams /\ ~users[t].locked

MemberLogin(t, m) == Current(m) /\ members[m].team = t /\ Login(t)

Welcome(t, m) == IF m = None THEN Login(t) ELSE MemberLogin(t, m)

Resolves(k) ==
    /\ tokens[k] # None
    /\ Welcome(tokens[k].team, tokens[k].login)
    /\ tokens[k].ver = Version(tokens[k].team, tokens[k].login)

Session(k) == k \notin revoked /\ Resolves(k)

(* The token: who, and of which version. *)
Issue(t, m) == [team |-> t, login |-> m, ver |-> Version(t, m)]

Cancelled(k) == revoked \cup {k}

(* Authenticate and IssueToken: m is None for the leader. *)
SignIn(k, t, m) ==
    /\ Deed
    /\ tokens[k] = None /\ Welcome(t, m)
    /\ tokens' = [tokens EXCEPT ![k] = Issue(t, m)]
    /\ UNCHANGED <<users, members, revoked, disk, reg, desk, born, upsets, hubVars>>

(* SignOutToken: stored, then cancelled. *)
SignOutToken(k) ==
    /\ Deed
    /\ Session(k)
    /\ \/ /\ disk' = [disk EXCEPT !.revoked = @ \cup {k}]
          /\ revoked' = Cancelled(k)
          /\ UNCHANGED upsets
       \/ Fail /\ UNCHANGED <<disk, revoked>>
    /\ UNCHANGED <<users, members, tokens, reg, desk, born, hubVars>>

(* A page connects: wsAuth. *)
Connect(c, k) ==
    /\ Deed
    /\ Session(k)
    /\ users[tokens[k].team].status # "disqualified"
    /\ Admit(c, tokens[k].team, tokens[k].login, users[tokens[k].team].role, k)
    /\ UNCHANGED <<users, members, revoked, disk, tokens, reg, desk, born, upsets>>

Page(c) == HubStep(c) /\ UNCHANGED appVars

---------------------------------------------------------------------------
(* What organisers and leaders do: a call is a list of things to do. *)

Edit(what, t, m) == [do |-> "user", what |-> what, team |-> t, member |-> m]
EditMember(what, t, m) == [do |-> "member", what |-> what, team |-> t, member |-> m]
Role(t, r) == [do |-> "role", team |-> t, role |-> r]
Cut(t) == [do |-> "cut", team |-> t]
Do(x, fresh) == [do |-> x, fresh |-> fresh]

SignedOut(u) == [u EXCEPT !.ver = @ + 1]

Locks(u, on) == [u EXCEPT !.locked = on]

Ejected(u) == [Locks(SignedOut(u), TRUE) EXCEPT !.status = "disqualified"]

Reinstated(u) == [u EXCEPT !.status = IF u.warnings > 0 THEN "warned" ELSE "active"]

Readmitted(u) == Reinstated(Locks(u, FALSE))

Warned(u) == [u EXCEPT !.warnings = @ + 1, !.status = IF @ = "active" THEN "warned" ELSE @]

(* SetRole moves a team the other way. *)
Moved(u) == [u EXCEPT !.role = IF @ = "investor" THEN "fund_manager" ELSE "investor"]

Cleared(u) == [u EXCEPT !.role = "investor", !.status = "active", !.warnings = 0]

(* The closures handed to updateUser. *)
Edited(e, u) ==
    CASE e.what = "SignOut"     -> SignedOut(u)
      [] e.what = "Lock"        -> Locks(u, TRUE)
      [] e.what = "Unlock"      -> Locks(u, FALSE)
      [] e.what = "Eject"       -> Ejected(u)
      [] e.what = "Readmit"     -> Readmitted(u)
      [] e.what = "Reinstate"   -> Reinstated(u)
      [] e.what = "Promote"     -> [u EXCEPT !.role = "fund_manager"]
      [] e.what = "SetRole"     -> Moved(u)
      [] e.what = "Warn"        -> Warned(u)
      [] e.what = "Disqualify"  -> [u EXCEPT !.status = "disqualified"]
      [] e.what = "NewTeamCode" -> [u EXCEPT !.code = TRUE]
      [] e.what = "SetTrader"   -> [u EXCEPT !.trader = e.member]
      [] e.what = "Clear"       -> Cleared(u)

EditedMember(e, r) ==
    IF e.what = "Remove" THEN [r EXCEPT !.removed = TRUE, !.ver = @ + 1]
                         ELSE [r EXCEPT !.ver = @ + 1]

CuttingMutant(what) == what \in {"Lock", "Eject"}

Cutting(what) == what \in {"SignOut", "Lock", "Eject"}

(* The teams one after another, once over and twice. *)
EachTeam(does) == [i \in 1 .. Cardinality(Teams) |-> does[SetToSeq(Teams)[i]]]

EachTeamThen(does, then) ==
    [i \in 1 .. 2 * Cardinality(Teams) |->
        LET t == SetToSeq(Teams)[(i + 1) \div 2]
        IN  IF i % 2 = 1 THEN does[t] ELSE then[t]]

(* The steps of a call, as it starts. *)
Plan(what, t, m) ==
    CASE what \in OneTeam ->
           <<Edit(what, t, m)>> \o IF Cutting(what) THEN <<Cut(t)>> ELSE <<>>
      [] what = "SetTrader" -> <<Edit(what, t, m)>>
      [] what = "Remove" ->
           (IF users[t].trader = m THEN <<Edit("SetTrader", t, None)>> ELSE <<>>)
              \o <<EditMember(what, t, m), Cut(t)>>
      [] what = "SignOutMember" -> <<EditMember(what, t, m), Cut(t)>>
      [] what = "SignOutAll" -> EachTeamThen([o \in Team |-> Edit("SignOut", o, None)],
                                             [o \in Team |-> Cut(o)])
      [] what = "Reset" -> <<Do("reset", FALSE), Do("clear", FALSE)>>
      [] what = "Fresh" -> <<Do("reset", TRUE), Do("drop", TRUE), Do("clear", TRUE)>>

(* Whom a call may be about. *)
May(what, t, m) ==
    /\ t \in Teams
    /\ what \notin {"SetTrader", "Remove", "SignOutMember"} => m = None
    /\ what = "SetTrader" => m = None \/ m \in OfTeam(t)
    /\ what \in {"Remove", "SignOutMember"} => m \in OfTeam(t)
    /\ what \in {"Reset", "Fresh", "SignOutAll"} => t = CHOOSE o \in Teams : TRUE

Unstored(t) == \E n \in Newcomer : reg[n].op = "signup" /\ reg[n].team = t

Settled(what, t) ==
    IF what \in {"Reset", "Fresh"}
    THEN Quiet /\ \A a \in Actor : desk[a] = <<>>
    ELSE ~Resetting /\ IF what = "SignOutAll" THEN \A o \in Teams : ~Unstored(o)
                                              ELSE ~Unstored(t)

Begin(a, what, t, m) ==
    /\ Deed
    /\ desk[a] = <<>>
    /\ May(what, t, m)
    /\ Overtake \/ Settled(what, t)
    /\ desk' = [desk EXCEPT ![a] = Plan(what, t, m)]
    /\ UNCHANGED <<users, members, revoked, disk, tokens, reg, born, upsets, hubVars>>

Now(a) == Head(desk[a])

Doing(a, do) == desk[a] # <<>> /\ Now(a).do = do

Rest(a) == Tail(desk[a])

(* updateUser: stored, then visible; the pages' role is set after it.  A   *)
(* step that fails ends the call, but a reset goes on to the next team.    *)
UpdateUser(a) ==
    LET e == Now(a)
    IN  /\ Doing(a, "user")
        /\ \/ /\ e.team \in Teams
              /\ LET next == Edited(e, users[e.team])
                 IN  /\ disk' = ReplayUser(e.team, next)
                     /\ users' = [users EXCEPT ![e.team] = next]
                     /\ desk' = [desk EXCEPT ![a] = <<Role(e.team, next.role)>> \o Rest(a)]
              /\ UNCHANGED <<upsets, hubVars>>
           \/ /\ \/ e.team \notin Teams /\ UNCHANGED upsets
                 \/ e.team \in Teams /\ Fail
              /\ desk' = [desk EXCEPT ![a] = IF e.what = "Clear" THEN Rest(a) ELSE <<>>]
              /\ UNCHANGED <<users, disk, hubVars>>
        /\ UNCHANGED <<members, revoked, tokens, reg, born, deeds>>

(* updateMember: stored, then visible. *)
UpdateMember(a) ==
    LET e == Now(a)
    IN  /\ Doing(a, "member")
        /\ \/ /\ members[e.member] # None
              /\ LET next == EditedMember(e, members[e.member])
                 IN  /\ disk' = ReplayMember(e.member, next)
                     /\ members' = [members EXCEPT ![e.member] = next]
              /\ desk' = [desk EXCEPT ![a] = Rest(a)]
              /\ UNCHANGED <<upsets, hubVars>>
           \/ /\ \/ members[e.member] = None /\ UNCHANGED upsets
                 \/ members[e.member] # None /\ Fail
              /\ desk' = [desk EXCEPT ![a] = <<>>]
              /\ UNCHANGED <<members, disk, hubVars>>
        /\ UNCHANGED <<users, revoked, tokens, reg, born, deeds>>

SetPagesRole(a) ==
    /\ Doing(a, "role")
    /\ SetRole(Now(a).team, Now(a).role)
    /\ desk' = [desk EXCEPT ![a] = Rest(a)]
    /\ UNCHANGED <<users, members, revoked, disk, tokens, reg, born, deeds, upsets>>

Disconnect(a) ==
    /\ Doing(a, "cut")
    /\ DisconnectAccount(Now(a).team, {k \in Token : ~Resolves(k)})
    /\ desk' = [desk EXCEPT ![a] = Rest(a)]
    /\ UNCHANGED <<users, members, revoked, disk, tokens, reg, born, deeds, upsets>>

(* ResetEvent: the record, with everything the teams dropped, then every   *)
(* team that is left made an investor in good standing, one by one, and    *)
(* the pages of the dropped ones closed.                                   *)
ResetRecord(a) ==
    /\ Doing(a, "reset")
    /\ \/ /\ disk' = ReplayReset(Now(a).fresh)
          /\ desk' = [desk EXCEPT ![a] = Rest(a)]
          /\ UNCHANGED upsets
       \/ Fail /\ desk' = [desk EXCEPT ![a] = <<>>] /\ UNCHANGED disk
    /\ UNCHANGED <<users, members, revoked, tokens, reg, born, deeds, hubVars>>

RemoveTeams == users' = [t \in Team |-> None] /\ members' = [m \in Member |-> None]

DropTeams(a) ==
    /\ Doing(a, "drop")
    /\ RemoveTeams
    /\ desk' = [desk EXCEPT ![a] = Rest(a) \o EachTeam([t \in Team |-> Cut(t)])]
    /\ pres' = [t \in Account |-> FALSE]
    /\ UNCHANGED <<clients, serve, revoked, disk, tokens, reg, born, deeds, upsets>>

ClearTeams(a) ==
    /\ Doing(a, "clear")
    /\ desk' = [desk EXCEPT ![a] = EachTeam([t \in Team |-> Edit("Clear", t, None)]) \o Rest(a)]
    /\ UNCHANGED <<users, members, revoked, disk, tokens, reg, born, deeds, upsets, hubVars>>

(* The process dies, and the next one rebuilds the accounts from the log.  *)
Kill ==
    /\ upsets < MaxUpsets /\ upsets' = upsets + 1
    /\ disk.loads
    /\ users' = disk.users /\ members' = disk.members /\ revoked' = disk.revoked
    /\ reg' = [n \in Newcomer |-> Idle]
    /\ desk' = [a \in Actor |-> <<>>]
    /\ HubKill
    /\ UNCHANGED <<disk, tokens, born, deeds>>

Next ==
    \/ \E n \in Newcomer, addr \in Address : Reserve(n, addr) \/ \E t \in Team : Find(n, t, addr)
    \/ \E n \in Newcomer : Store(n) \/ Join(n)
    \/ \E k \in Token :
         \/ SignOutToken(k)
         \/ \E t \in Team, m \in Member \cup {None} : SignIn(k, t, m)
         \/ \E c \in Socket : Connect(c, k)
    \/ \E c \in Socket : Page(c)
    \/ \E a \in Actor :
         \/ \E what \in Call, t \in Team, m \in Member \cup {None} : Begin(a, what, t, m)
         \/ UpdateUser(a) \/ UpdateMember(a) \/ SetPagesRole(a) \/ Disconnect(a)
         \/ ResetRecord(a) \/ DropTeams(a) \/ ClearTeams(a)
    \/ Kill

Spec == Init /\ [][Next]_vars

---------------------------------------------------------------------------
(* A team never has more people than the rules allow, and no mailbox has   *)
(* two logins, however sign-ups, joins, removals, failing disks and kills  *)
(* interleave (members.go:257-264, "so a teammate and a new team cannot    *)
(* claim the same mailbox at once, and a team cannot grow past its size    *)
(* when several teammates join together").                                 *)
OneMailbox ==
    /\ \A t \in Team : Cardinality(OfTeam(t)) < TeamSize
    /\ \A t \in Teams, o \in Teams : t # o => Mailbox[users[t].addr] # Mailbox[users[o].addr]
    /\ \A m \in Member, o \in Member :
         m # o /\ Current(m) /\ Current(o) => Mailbox[members[m].addr] # Mailbox[members[o].addr]
    /\ UserMailboxes \cap MemberMailboxes = {}

(* A server that is killed comes back with the accounts it had: the log    *)
(* tells of every team but one whose sign-up is under way what the server  *)
(* does (app.go restore, users.go updateUser "durable first").             *)
RestartMatches ==
    ~Resetting =>
        /\ disk.loads
        /\ \A t \in Team : ~Unstored(t) => disk.users[t] = users[t]
        /\ disk.members = members /\ disk.revoked = revoked

(* A sign-in that was ended, by its holder, by a sign-out of the team or   *)
(* the teammate, by a removal or with the team itself, is never accepted   *)
(* again, whatever is readmitted, unlocked, reset or restarted             *)
(* (auth.go claims, session.go, members.go memberVer).  A lock alone only  *)
(* suspends it.                                                            *)
Ended(k) ==
    /\ tokens[k] # None
    /\ LET t == tokens[k].team m == tokens[k].login
       IN  \/ k \in revoked
           \/ users[t] = None
           \/ m # None /\ ~Current(m)
           \/ tokens[k].ver # Version(t, m)

EndedStays == [][\A k \in Token : Ended(k) => Ended(k)']_vars

(* A page that is open with a sign-in that organisers have ended is one    *)
(* that the call has still to close, or one it has missed: let in before,  *)
(* and in the maps only after the account's pages were closed (presence.go *)
(* SignOut "Its open pages are sent to the sign-in screen", Lock, Eject,   *)
(* members.go RemoveMember).                                               *)
ToCut(t) == \E a \in Actor : \E i \in DOMAIN desk[a] :
               desk[a][i].do = "cut" /\ desk[a][i].team = t

PagesClosed ==
    \A c \in clients :
        Open(c) /\ ~serve[c].late => Resolves(serve[c].token) \/ ToCut(serve[c].team)

(* Every open page gets the feed of its team's role, unless the change has *)
(* still to reach the pages (users.go:375, hub.go:452).                    *)
ToTell(t) == \E a \in Actor : \E i \in DOMAIN desk[a] :
                desk[a][i].do = "role" /\ desk[a][i].team = t

RolesFollow ==
    \A c \in clients :
        Open(c) /\ users[serve[c].team] # None
            => serve[c].role = users[serve[c].team].role \/ ToTell(serve[c].team)

(* "Restoring from the log uses put, which never refuses, so an old log    *)
(* always loads" (users.go:197).                                           *)
AlwaysLoads == disk.loads

(* Whoever trades for a team is in it ("If they were trading for the team, *)
(* the leader trades again", members.go:521).                              *)
TraderPresent ==
    \A t \in Teams : users[t].trader # None /\ (\A a \in Actor : desk[a] = <<>>)
                        => users[t].trader \in OfTeam(t)
=============================================================================
