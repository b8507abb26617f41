---------------------------- MODULE AccountsProofs ----------------------------
(***************************************************************************)
(* That accounts stay apart, that a restart finds them as they were and    *)
(* that ended sign-ins stay ended, for any teams, teammates, mailboxes,    *)
(* organisers and calls, and any number of failures and kills; and that    *)
(* pages close with the sign-in they were opened with, and no person keeps *)
(* more than the limit, for any connections.                               *)
(***************************************************************************)
EXTENDS Accounts, FiniteSetTheorems, SequenceTheorems, TLAPS

(* What the variables of the accounts are made of. *)
Who == Member \cup {None}

TokenRecord == [team : Team, login : Who, ver : Nat \X Nat]

Request == {Idle} \cup [op : {"signup", "join"}, team : Team, addr : Address]

What == OneTeam \cup {"SetTrader", "Clear"}

Step == [do : {"user"}, what : What, team : Team, member : Who]
        \cup [do : {"member"}, what : {"Remove", "SignOutMember"}, team : Team, member : Who]
        \cup [do : {"role"}, team : Team, role : {"investor", "fund_manager"}]
        \cup [do : {"cut"}, team : Team]
        \cup [do : {"reset", "drop", "clear"}, fresh : BOOLEAN]

Stores == [Team -> UserRecord \cup {None}]
Roster == [Member -> MemberRecord \cup {None}]

TypeOK ==
    /\ users \in Stores
    /\ members \in Roster
    /\ revoked \in SUBSET Token
    /\ disk \in [users : Stores, members : Roster, revoked : SUBSET Token, loads : BOOLEAN]
    /\ tokens \in [Token -> TokenRecord \cup {None}]
    /\ reg \in [Newcomer -> Request]
    /\ desk \in [Actor -> Seq(Step)]
    /\ born \in SUBSET (Team \cup Member)

(* Whatever is recorded was given its id. *)
Given ==
    /\ IsFiniteSet(born)
    /\ \A t \in Team : users[t] # None \/ disk.users[t] # None => t \in born
    /\ \A m \in Member : members[m] # None \/ disk.members[m] # None => m \in born
    /\ \A k \in Token : tokens[k] # None =>
          tokens[k].team \in born /\ tokens[k].login \in born \cup {None}
    /\ \A n \in Newcomer : reg[n] # Idle => reg[n].team \in born

(* A team on its way is as its sign-up made it, and nobody else's. *)
Unshared ==
    \A n \in Newcomer : reg[n].op = "signup" =>
        /\ users[reg[n].team] = User(reg[n].addr)
        /\ \A o \in Newcomer \ {n} : reg[o].op = "signup" => reg[o].team # reg[n].team

(* The record of a fresh start is written, the teams are still there. *)
Dropping == \E a \in Actor : desk[a] # <<>> /\ desk[a][1].do = "drop"

(* What a restart would find. *)
Match ==
    /\ disk.revoked = revoked
    /\ disk.loads
    /\ Dropping => /\ \A t \in Team : disk.users[t] = None
                   /\ \A m \in Member : disk.members[m] = None
    /\ ~Dropping => /\ \A t \in Team : disk.users[t] = IF Unstored(t) THEN None ELSE users[t]
                    /\ disk.members = members

(* A call's steps: what ends sign-ins is followed by the cut of the pages, *)
(* and a reset is the record, the drop, then the rest.                     *)
Shaped(d) ==
    \A i \in 1 .. Len(d) :
        /\ \/ d[i].do = "user" /\ Cutting(d[i].what)
           \/ d[i].do = "member"
           => i + 1 \in 1 .. Len(d) /\ d[i + 1] = Cut(d[i].team)
        /\ d[i].do = "reset" => i = 1 /\ (d[1].fresh => Len(d) > 1 /\ d[2].do = "drop")
        /\ d[i].do = "drop" =>
              /\ i = 1 \/ (i = 2 /\ d[1].do = "reset" /\ d[1].fresh)
              /\ \A j \in 1 .. Len(d) : d[j].do \in {"reset", "drop", "clear"}

(* A step is about a team and a teammate that are settled. *)
Aimed(s) ==
    /\ s.do = "user" => s.team \in born /\ ~Unstored(s.team)
    /\ s.do = "member" => /\ s.member \in born \cap Member
                          /\ members[s.member] # None => members[s.member].team = s.team

Clears(d) == \E i \in 1 .. Len(d) : d[i].do \in {"reset", "drop", "clear"}

Desks ==
    \A a \in Actor :
        /\ Shaped(desk[a])
        /\ \A i \in 1 .. Len(desk[a]) : Aimed(desk[a][i])
        /\ Clears(desk[a]) => Quiet /\ \A b \in Actor \ {a} : desk[b] = <<>>

(* Sign-ins are of no later version than the records. *)
Stamped ==
    \A k \in Token : tokens[k] # None =>
        /\ users[tokens[k].team] # None => tokens[k].ver[1] <= users[tokens[k].team].ver
        /\ tokens[k].login = None => tokens[k].ver[2] = 0
        /\ tokens[k].login # None /\ members[tokens[k].login] # None =>
              tokens[k].ver[2] <= members[tokens[k].login].ver

(* No two logins share a mailbox, and every team has room for its people.  *)
Apart ==
    /\ \A t, o \in Team : users[t] # None /\ users[o] # None /\ t # o
          => Mailbox[users[t].addr] # Mailbox[users[o].addr]
    /\ \A m, o \in Member : Current(m) /\ Current(o) /\ m # o
          => Mailbox[members[m].addr] # Mailbox[members[o].addr]
    /\ \A t \in Team, m \in Member : users[t] # None /\ Current(m)
          => Mailbox[users[t].addr] # Mailbox[members[m].addr]

Roomy == \A t \in Team : Cardinality(OfTeam(t)) < TeamSize

AppInv == TypeOK /\ Given /\ Unshared /\ Apart /\ Roomy /\ Match /\ Desks /\ Stamped

(* Ids are given once: a fresh one is not among those given. *)
LEMMA FreshIds ==
  ASSUME NEW ids, NEW i \in Fresh(ids)
  PROVE  i \in ids /\ i \notin born
<1>1. ~(ids \subseteq born) /\ i = CHOOSE j \in ids : j \notin born
  BY DEF Fresh
<1>2. QED
  BY <1>1

(* The first step of a call, and the steps after it. *)
LEMMA DeskParts ==
  ASSUME TypeOK, NEW a \in Actor, desk[a] # <<>>
  PROVE  /\ desk[a] \in Seq(Step) /\ Len(desk[a]) \in Nat /\ Len(desk[a]) >= 1
         /\ Now(a) = desk[a][1] /\ Now(a) \in Step
         /\ Rest(a) \in Seq(Step) /\ Len(Rest(a)) = Len(desk[a]) - 1
         /\ \A i \in 1 .. Len(desk[a]) - 1 : Rest(a)[i] = desk[a][i + 1]
         /\ \A i \in 1 .. Len(desk[a]) : desk[a][i] \in Step
<1>1. desk[a] \in Seq(Step)
  BY DEF TypeOK
<1> DEFINE d == desk[a]
<1>2. /\ Len(d) \in Nat /\ Len(d) >= 1 /\ Head(d) = d[1] /\ Tail(d) \in Seq(Step)
      /\ Len(Tail(d)) = Len(d) - 1
      /\ \A i \in 1 .. Len(d) - 1 : Tail(d)[i] = d[i + 1]
      /\ \A i \in 1 .. Len(d) : d[i] \in Step
  BY <1>1
<1>3. 1 \in 1 .. Len(d)
  BY <1>2
<1>4. QED
  BY <1>1, <1>2, <1>3 DEF Now, Rest

(* A step put before others. *)
LEMMA Before ==
  ASSUME NEW S, NEW x \in S, NEW d \in Seq(S)
  PROVE  /\ <<x>> \o d \in Seq(S) /\ Len(<<x>> \o d) = Len(d) + 1
         /\ (<<x>> \o d)[1] = x
         /\ \A i \in 1 .. Len(d) : (<<x>> \o d)[i + 1] = d[i]
<1>1. <<x>> \in Seq(S) /\ Len(<<x>>) = 1 /\ <<x>>[1] = x /\ Len(d) \in Nat
  OBVIOUS
<1>2. /\ <<x>> \o d \in Seq(S) /\ Len(<<x>> \o d) = 1 + Len(d)
      /\ \A i \in 1 .. 1 + Len(d) : (<<x>> \o d)[i] = IF i <= 1 THEN <<x>>[i] ELSE d[i - 1]
  BY <1>1, ConcatProperties
<1>3. (<<x>> \o d)[1] = x
  BY <1>1, <1>2
<1>4. ASSUME NEW i \in 1 .. Len(d) PROVE (<<x>> \o d)[i + 1] = d[i]
  <2>1. i + 1 \in 1 .. 1 + Len(d) /\ ~(i + 1 <= 1) /\ (i + 1) - 1 = i
    BY <1>1
  <2>2. QED
    BY <1>2, <2>1
<1>5. QED
  BY <1>1, <1>2, <1>3, <1>4

(* The steps after the first keep their shape ... *)
LEMMA RestShaped ==
  ASSUME TypeOK, NEW a \in Actor, desk[a] # <<>>, Shaped(desk[a])
  PROVE  Shaped(Rest(a))
<1> DEFINE d == desk[a]
           e == Rest(a)
<1>1. /\ Len(d) \in Nat /\ Len(d) >= 1 /\ Len(e) = Len(d) - 1
      /\ \A i \in 1 .. Len(d) - 1 : e[i] = d[i + 1]
  BY DeskParts
<1>2. SUFFICES ASSUME NEW i \in 1 .. Len(e) PROVE Shaped(e)!(i)
  BY DEF Shaped
<1> HIDE DEF d, e
<1>3. /\ i \in 1 .. Len(d) - 1 /\ i + 1 \in 1 .. Len(d) /\ e[i] = d[i + 1]
      /\ i + 1 # 1
  BY <1>1
<1>4. Shaped(d)
  BY DEF d
<1>5. ASSUME (d[i + 1].do = "user" /\ Cutting(d[i + 1].what)) \/ d[i + 1].do = "member"
      PROVE  i + 1 \in 1 .. Len(e) /\ e[i + 1] = Cut(e[i].team)
  <2>1. (i + 1) + 1 \in 1 .. Len(d) /\ d[(i + 1) + 1] = Cut(d[i + 1].team)
    BY <1>3, <1>4, <1>5 DEF Shaped
  <2>2. i + 1 \in 1 .. Len(d) - 1
    BY <1>1, <1>3, <2>1
  <2>3. QED
    BY <1>1, <1>3, <2>1, <2>2
<1>6. d[i + 1].do # "reset"
  BY <1>3, <1>4 DEF Shaped
<1>7. ASSUME d[i + 1].do = "drop"
      PROVE  i = 1 /\ \A j \in 1 .. Len(e) : e[j].do \in {"reset", "drop", "clear"}
  <2>1. i + 1 = 2 /\ \A j \in 1 .. Len(d) : d[j].do \in {"reset", "drop", "clear"}
    BY <1>3, <1>4, <1>7 DEF Shaped
  <2>2. ASSUME NEW j \in 1 .. Len(e) PROVE e[j].do \in {"reset", "drop", "clear"}
    <3>1. j \in 1 .. Len(d) - 1 /\ j + 1 \in 1 .. Len(d)
      BY <1>1
    <3>2. QED
      BY <1>1, <2>1, <3>1
  <2>3. QED
    BY <1>3, <2>1, <2>2
<1>8. QED
  BY <1>3, <1>5, <1>6, <1>7

(* ... also with the pages' new role to tell first. *)
LEMMA RoleShaped ==
  ASSUME TypeOK, NEW a \in Actor, desk[a] # <<>>, Shaped(desk[a]),
         Now(a).do = "user", NEW x \in Step, x.do = "role"
  PROVE  Shaped(<<x>> \o Rest(a))
<1> DEFINE d == desk[a]
           e == <<x>> \o Rest(a)
<1>1. /\ Len(d) \in Nat /\ Len(d) >= 1 /\ Len(Rest(a)) = Len(d) - 1
      /\ \A i \in 1 .. Len(d) - 1 : Rest(a)[i] = d[i + 1]
      /\ Rest(a) \in Seq(Step) /\ d[1].do = "user"
  BY DeskParts
<1>2. Len(e) = Len(d) /\ e[1] = x /\ \A i \in 1 .. Len(d) - 1 : e[i + 1] = Rest(a)[i]
  BY <1>1, Before
<1> HIDE DEF d, e
<1>3. ASSUME NEW i \in 1 .. Len(d), i # 1 PROVE e[i] = d[i]
  <2>1. i - 1 \in 1 .. Len(d) - 1 /\ (i - 1) + 1 = i
    BY <1>1, <1>3
  <2>2. QED
    BY <1>1, <1>2, <2>1
<1>4. Shaped(d)
  BY DEF d
<1>5. SUFFICES ASSUME NEW i \in 1 .. Len(e) PROVE Shaped(e)!(i)
  BY DEF Shaped, e
<1>6. CASE i = 1
  BY <1>2, <1>6
<1>7. CASE i # 1
  <2>1. e[i] = d[i] /\ i \in 1 .. Len(d)
    BY <1>2, <1>3, <1>7
  <2>2. d[i].do # "reset" /\ d[i].do # "drop"
    BY <1>1, <1>4, <1>7, <2>1 DEF Shaped
  <2>3. ASSUME i + 1 \in 1 .. Len(d) PROVE e[i + 1] = d[i + 1] /\ i + 1 \in 1 .. Len(e)
    BY <1>1, <1>2, <1>3, <2>3, i + 1 # 1
  <2>4. (d[i].do = "user" /\ Cutting(d[i].what)) \/ d[i].do = "member"
        => i + 1 \in 1 .. Len(d) /\ d[i + 1] = Cut(d[i].team)
    BY <1>4, <2>1 DEF Shaped
  <2>5. QED
    BY <2>1, <2>2, <2>3, <2>4
<1>8. QED
  BY <1>6, <1>7

-----------------------------------------------------------------------------
(* What a step must leave so that the steps of calls stay about the        *)
(* settled: ids given stay given, no settled team becomes unsettled, and   *)
(* a teammate's team stands.                                               *)
AimsKept ==
    /\ born \subseteq born'
    /\ \A t \in born : Unstored(t)' => Unstored(t)
    /\ \A m \in born \cap Member :
          members'[m] # None => members[m] # None /\ members'[m].team = members[m].team

(* What a call still aims at stays aimed at. *)
LEMMA AimedKept ==
  ASSUME AimsKept, NEW s \in Step, Aimed(s)
  PROVE  Aimed(s)'
<1>1. ASSUME s.do = "user" PROVE s.team \in born' /\ ~Unstored(s.team)'
  BY <1>1 DEF Aimed, AimsKept
<1>2. ASSUME s.do = "member"
      PROVE  /\ s.member \in born' \cap Member
             /\ members'[s.member] # None => members'[s.member].team = s.team
  BY <1>2 DEF Aimed, AimsKept
<1>3. QED
  BY <1>1, <1>2 DEF Aimed, Unstored

(* Calls that are not made to go on stay in order. *)
LEMMA DesksStay ==
  ASSUME TypeOK, Desks, AimsKept, desk' = desk,
         (\E a \in Actor : Clears(desk[a])) => Quiet'
  PROVE  Desks'
<1> SUFFICES ASSUME NEW a \in Actor PROVE Desks!(a)'
  BY DEF Desks
<1>1. Shaped(desk[a])' /\ (Clears(desk[a])' <=> Clears(desk[a]))
  BY DEF Desks, Shaped, Clears
<1>2. \A i \in 1 .. Len(desk'[a]) : Aimed(desk[a][i])'
  <2> SUFFICES ASSUME NEW i \in 1 .. Len(desk[a]) PROVE Aimed(desk[a][i])'
    OBVIOUS
  <2>1. desk[a][i] \in Step /\ Aimed(desk[a][i])
    BY DEF TypeOK, Desks
  <2> DEFINE x == desk[a][i]
  <2>2. \A s \in Step : Aimed(s) => Aimed(s)'
    BY AimedKept
  <2>3. Aimed(desk[a][i])'
    BY <2>1, <2>2 DEF Aimed, Unstored
  <2>4. QED
    BY <2>3
<1>3. Clears(desk[a])' => Quiet' /\ \A b \in Actor \ {a} : desk'[b] = <<>>
  BY <1>1 DEF Desks
<1>4. QED
  BY <1>1, <1>2, <1>3

(* One call goes on: its desk becomes d. *)
LEMMA DesksMove ==
  ASSUME TypeOK, Desks, AimsKept, NEW a \in Actor, NEW d \in Seq(Step),
         desk' = [desk EXCEPT ![a] = d],
         Shaped(d), \A i \in 1 .. Len(d) : Aimed(d[i])',
         \A b \in Actor \ {a} : Clears(desk[b]) => d = <<>>,
         Clears(d) => Quiet' /\ \A b \in Actor \ {a} : desk[b] = <<>>,
         \A b \in Actor \ {a} : Clears(desk[b]) => Quiet'
  PROVE  Desks'
<1> SUFFICES ASSUME NEW b \in Actor PROVE Desks!(b)'
  BY DEF Desks
<1>1. /\ desk'[a] = d
      /\ \A c \in Actor \ {a} : desk'[c] = desk[c]
  BY DEF TypeOK
<1>2. CASE b = a
  <2>1. Shaped(desk[b])' /\ \A i \in 1 .. Len(desk'[b]) : Aimed(d[i])'
    BY <1>1, <1>2 DEF Shaped
  <2>2. \A i \in 1 .. Len(desk'[b]) : Aimed(desk[b][i])'
    BY <1>1, <1>2, <2>1 DEF Aimed, Unstored
  <2>3. Clears(desk[b])' => Quiet' /\ \A c \in Actor \ {b} : desk'[c] = <<>>
    BY <1>1, <1>2 DEF Clears
  <2>4. QED
    BY <2>1, <2>2, <2>3
<1>3. CASE b # a
  <2>1. Shaped(desk[b])' /\ (Clears(desk[b])' <=> Clears(desk[b]))
    BY <1>1, <1>3 DEF Desks, Shaped, Clears
  <2>2. \A i \in 1 .. Len(desk'[b]) : Aimed(desk[b][i])'
    <3> SUFFICES ASSUME NEW i \in 1 .. Len(desk[b]) PROVE Aimed(desk[b][i])'
      BY <1>1, <1>3
    <3>1. desk[b][i] \in Step /\ Aimed(desk[b][i])
      BY DEF TypeOK, Desks
    <3>2. \A s \in Step : Aimed(s) => Aimed(s)'
      BY AimedKept
    <3>3. QED
      BY <1>1, <1>3, <3>1, <3>2 DEF Aimed, Unstored
  <2>3. Clears(desk[b])' => Quiet' /\ \A c \in Actor \ {b} : desk'[c] = <<>>
    BY <1>1, <1>3, <2>1 DEF Desks
  <2>4. QED
    BY <2>1, <2>2, <2>3
<1>4. QED
  BY <1>2, <1>3

(* While a request to register is under way nobody is resetting, and while *)
(* nobody is resetting no store is being dropped.                          *)
LEMMA NotQuiet ==
  ASSUME TypeOK, Desks, NEW n \in Newcomer, reg[n] # Idle
  PROVE  ~Dropping /\ \A a \in Actor : ~Clears(desk[a])
<1>1. \A a \in Actor : ~Clears(desk[a])
  BY DEF Desks, Quiet
<1>2. ~Dropping
  <2> SUFFICES ASSUME NEW a \in Actor, desk[a] # <<>>, desk[a][1].do = "drop" PROVE FALSE
    BY DEF Dropping
  <2>1. 1 \in 1 .. Len(desk[a])
    BY DeskParts
  <2>2. Clears(desk[a])
    BY <2>1 DEF Clears
  <2>3. QED
    BY <1>1, <2>2
<1>3. QED
  BY <1>1, <1>2

(* Without a reset under way nothing clears the teams. *)
LEMMA NotResetting ==
  ASSUME TypeOK, ~Resetting
  PROVE  ~Dropping /\ \A a \in Actor : ~Clears(desk[a])
<1>1. \A a \in Actor : desk[a] \in Seq(Step) /\ DOMAIN desk[a] = 1 .. Len(desk[a])
  BY DEF TypeOK
<1>2. \A a \in Actor : ~Clears(desk[a])
  BY <1>1 DEF Resetting, Clears
<1>3. ~Dropping
  <2> SUFFICES ASSUME NEW a \in Actor, desk[a] # <<>>, desk[a][1].do = "drop" PROVE FALSE
    BY DEF Dropping
  <2>1. 1 \in 1 .. Len(desk[a])
    BY DeskParts
  <2>2. Clears(desk[a])
    BY <2>1 DEF Clears
  <2>3. QED
    BY <1>2, <2>2
<1>4. QED
  BY <1>2, <1>3

(* Fewer people in the teams, or the same, still have room. *)
LEMMA RoomyStays ==
  ASSUME Given, TypeOK, Roomy, \A t \in Team : OfTeam(t)' \subseteq OfTeam(t)
  PROVE  Roomy'
<1> SUFFICES ASSUME NEW t \in Team PROVE Cardinality(OfTeam(t)') < TeamSize
  BY DEF Roomy
<1>1. OfTeam(t) \subseteq born
  BY DEF OfTeam, Current, Given
<1>2. IsFiniteSet(OfTeam(t))
  BY <1>1, FS_Subset DEF Given
<1>3. /\ IsFiniteSet(OfTeam(t)') /\ Cardinality(OfTeam(t)') <= Cardinality(OfTeam(t))
      /\ Cardinality(OfTeam(t)') \in Nat /\ Cardinality(OfTeam(t)) \in Nat
  BY <1>2, FS_Subset, FS_CardinalityType
<1>4. Cardinality(OfTeam(t)) < TeamSize
  BY DEF Roomy
<1>5. QED
  BY <1>3, <1>4, AccountsAssumption

(* The mailboxes stay apart if only a record without conflict joins. *)
LEMMA ApartStays ==
  ASSUME Apart,
         \A t \in Team : users'[t] # None
             => users[t] # None /\ users'[t].addr = users[t].addr,
         \A m \in Member : Current(m)'
             => Current(m) /\ members'[m].addr = members[m].addr
  PROVE  Apart'
BY DEF Apart

(* Sign-ins stay of no later version if the records only get later ones. *)
LEMMA StampedStays ==
  ASSUME TypeOK, Given, Stamped, tokens' = tokens, TypeOK',
         \A t \in born \cap Team : users'[t] # None => users[t] # None /\ users[t].ver <= users'[t].ver,
         \A m \in born \cap Member : members'[m] # None
             => members[m] # None /\ members[m].ver <= members'[m].ver
  PROVE  Stamped'
<1> SUFFICES ASSUME NEW k \in Token, tokens[k] # None PROVE Stamped!(k)!2'
  BY DEF Stamped
<1> DEFINE t == tokens[k].team
           m == tokens[k].login
<1>1. /\ tokens[k] \in TokenRecord /\ t \in born \cap Team /\ m \in (born \cap Member) \cup {None}
      /\ tokens[k].ver \in Nat \X Nat
  BY AccountsAssumption DEF TypeOK, Given, TokenRecord, Who
<1>2. tokens[k].ver[1] \in Nat /\ tokens[k].ver[2] \in Nat
  BY <1>1
<1>3. ASSUME users'[t] # None PROVE tokens[k].ver[1] <= users'[t].ver
  <2>1. users[t] # None /\ users[t].ver <= users'[t].ver
    BY <1>1, <1>3
  <2>2. users[t] \in UserRecord /\ users'[t] \in UserRecord
    BY <1>1, <1>3, <2>1 DEF TypeOK, Stores
  <2>3. users[t].ver \in Nat /\ users'[t].ver \in Nat
    BY <2>2 DEF UserRecord
  <2>4. tokens[k].ver[1] <= users[t].ver
    BY <2>1 DEF Stamped
  <2>5. QED
    BY <1>2, <2>1, <2>3, <2>4
<1>4. ASSUME m # None, members'[m] # None PROVE tokens[k].ver[2] <= members'[m].ver
  <2>1. m \in born \cap Member /\ members[m] # None /\ members[m].ver <= members'[m].ver
    BY <1>1, <1>4
  <2>2. members[m] \in MemberRecord /\ members'[m] \in MemberRecord
    BY <1>4, <2>1 DEF TypeOK, Roster
  <2>3. members[m].ver \in Nat /\ members'[m].ver \in Nat
    BY <2>2 DEF MemberRecord
  <2>4. tokens[k].ver[2] <= members[m].ver
    BY <1>4, <2>1 DEF Stamped
  <2>5. QED
    BY <1>2, <2>1, <2>3, <2>4
<1>5. QED
  BY <1>3, <1>4 DEF Stamped

-----------------------------------------------------------------------------
(* A new team's record. *)
LEMMA UserMade ==
  ASSUME NEW addr \in DOMAIN Mailbox
  PROVE  User(addr) \in UserRecord /\ User(addr) # None /\ User(addr).addr = addr
         /\ User(addr).ver = 0
<1>1. User(addr) \in UserRecord
  BY DEF User, UserRecord
<1>2. QED
  BY <1>1, AccountsAssumption DEF User

(* A team takes its address: nothing of it was known. *)
LEMMA ReserveInv ==
  ASSUME AppInv, ~Overtake, NEW n \in Newcomer, NEW addr \in Address, Reserve(n, addr)
  PROVE  AppInv'
<1> USE DEF AppInv
<1>1. PICK t \in Fresh(Team) :
         /\ users' = [users EXCEPT ![t] = User(addr)]
         /\ reg' = [reg EXCEPT ![n] = [op |-> "signup", team |-> t, addr |-> addr]]
         /\ born' = born \cup {t}
  BY DEF Reserve
<1>2. t \in Team /\ t \notin born
  BY FreshIds
<1>3. /\ members' = members /\ revoked' = revoked /\ disk' = disk
      /\ tokens' = tokens /\ desk' = desk /\ reg[n] = Idle
  BY DEF Reserve
<1>4. ~Dropping /\ \A a \in Actor : ~Clears(desk[a])
  BY NotResetting DEF Reserve, MayRegister
<1>5. addr \in DOMAIN Mailbox
  BY AccountsAssumption
<1>6. /\ User(addr) \in UserRecord /\ User(addr) # None /\ User(addr).addr = addr
      /\ User(addr).ver = 0
  BY <1>5, UserMade
<1>7. /\ users'[t] = User(addr)
      /\ \A o \in Team \ {t} : users'[o] = users[o]
      /\ reg'[n] = [op |-> "signup", team |-> t, addr |-> addr]
      /\ \A o \in Newcomer \ {n} : reg'[o] = reg[o]
  BY <1>1, <1>2 DEF TypeOK, Stores
<1>8. users[t] = None /\ disk.users[t] = None
  BY <1>2 DEF Given
<1>9. TypeOK'
  <2>1. users' \in Stores
    BY <1>1, <1>6 DEF TypeOK, Stores
  <2>2. reg' \in [Newcomer -> Request]
    BY <1>1, <1>2 DEF TypeOK, Request
  <2>3. born' \in SUBSET (Team \cup Member)
    BY <1>1, <1>2 DEF TypeOK
  <2>4. QED
    BY <1>3, <2>1, <2>2, <2>3 DEF TypeOK
<1>10. Given'
  <2>1. IsFiniteSet(born')
    BY <1>1, FS_AddElement DEF Given
  <2>2. \A o \in Team : users'[o] # None \/ disk'.users[o] # None => o \in born'
    BY <1>1, <1>3, <1>7 DEF Given
  <2>3. \A o \in Newcomer : reg'[o] # Idle => reg'[o].team \in born'
    BY <1>1, <1>7 DEF Given
  <2>4. QED
    BY <1>1, <1>3, <2>1, <2>2, <2>3 DEF Given
<1>11. \A o \in Newcomer \ {n} : reg[o].op = "signup" => reg[o].team \in Team /\ reg[o].team # t
  BY <1>2 DEF Given, TypeOK, Request, Idle
<1>12. Unshared'
  BY <1>7, <1>11 DEF Unshared
<1>13. \A o \in Team : Unstored(o)' <=> Unstored(o) \/ o = t
  BY <1>3, <1>7 DEF Unstored, Idle
<1>14. Apart'
  <2>1. /\ \A o \in Team \ {t} : users[o] # None => Mailbox[addr] # Mailbox[users[o].addr]
        /\ \A m \in Member : Current(m) => Mailbox[addr] # Mailbox[members[m].addr]
    BY DEF Reserve, UserMailboxes, MemberMailboxes, Teams
  <2>2. QED
    BY <1>3, <1>6, <1>7, <2>1 DEF Apart, Current
<1>15. Roomy'
  BY <1>3, RoomyStays DEF OfTeam, Current
<1>16. Match'
  <2>1. ~Dropping'
    BY <1>3, <1>4 DEF Dropping
  <2>2. \A o \in Team : disk.users[o] = IF Unstored(o)' THEN None ELSE users'[o]
    BY <1>4, <1>7, <1>8, <1>13 DEF Match
  <2>3. QED
    BY <1>3, <1>4, <2>1, <2>2 DEF Match
<1>17. AimsKept
  BY <1>1, <1>2, <1>3, <1>13 DEF AimsKept, TypeOK, Unstored
<1>18. Desks'
  BY <1>3, <1>4, <1>17, DesksStay
<1>19. Stamped'
  <2>1. \A o \in born \cap Team : users'[o] = users[o]
    BY <1>2, <1>7
  <2>2. \A o \in Team : users[o] # None => users[o].ver \in Nat
    BY DEF TypeOK, Stores, UserRecord
  <2>3. \A m \in Member : members[m] # None => members[m].ver \in Nat
    BY DEF TypeOK, Roster, MemberRecord
  <2>4. \A o \in born \cap Team : users'[o] # None => users[o] # None /\ users[o].ver <= users'[o].ver
    BY <2>1, <2>2
  <2>5. \A m \in born \cap Member : members'[m] # None
             => members[m] # None /\ members[m].ver <= members'[m].ver
    BY <1>3, <2>3
  <2>6. QED
    BY <1>3, <1>9, <2>4, <2>5, StampedStays
<1>20. QED
  BY <1>9, <1>10, <1>12, <1>14, <1>15, <1>16, <1>18, <1>19

(* A step that leaves the stores and the ids alone. *)
LEMMA StoresStay ==
  ASSUME AppInv, UNCHANGED <<users, members, born>>
  PROVE  /\ Apart' /\ Roomy'
         /\ \A t \in born \cap Team : users'[t] # None => users[t] # None /\ users[t].ver <= users'[t].ver
         /\ \A m \in born \cap Member : members'[m] # None
              => members[m] # None /\ members[m].ver <= members'[m].ver
<1> USE DEF AppInv
<1>1. Apart'
  BY DEF Apart, Current
<1>2. Roomy'
  BY RoomyStays DEF OfTeam, Current
<1>3. \A o \in Team : users[o] # None => users[o].ver \in Nat
  BY DEF TypeOK, Stores, UserRecord
<1>4. \A m \in Member : members[m] # None => members[m].ver \in Nat
  BY DEF TypeOK, Roster, MemberRecord
<1>5. QED
  BY <1>1, <1>2, <1>3, <1>4

(* Somebody who shared the code is on the way to join. *)
LEMMA FindInv ==
  ASSUME AppInv, ~Overtake, NEW n \in Newcomer, NEW t \in Team, NEW addr \in Address,
         Find(n, t, addr)
  PROVE  AppInv'
<1> USE DEF AppInv
<1>1. /\ users' = users /\ members' = members /\ revoked' = revoked /\ disk' = disk
      /\ tokens' = tokens /\ desk' = desk /\ born' = born /\ reg[n] = Idle
      /\ reg' = [reg EXCEPT ![n] = [op |-> "join", team |-> t, addr |-> addr]]
      /\ users[t] # None
  BY DEF Find, Coded, Teams
<1>2. ~Dropping /\ \A a \in Actor : ~Clears(desk[a])
  BY NotResetting DEF Find, MayRegister
<1>3. /\ reg'[n] = [op |-> "join", team |-> t, addr |-> addr]
      /\ \A o \in Newcomer \ {n} : reg'[o] = reg[o]
  BY <1>1 DEF TypeOK
<1>4. TypeOK'
  <2>1. reg' \in [Newcomer -> Request]
    BY <1>1 DEF TypeOK, Request
  <2>2. QED
    BY <1>1, <2>1 DEF TypeOK
<1>5. Given'
  <2>1. \A o \in Newcomer : reg'[o] # Idle => reg'[o].team \in born'
    BY <1>1, <1>3 DEF Given
  <2>2. QED
    BY <1>1, <2>1 DEF Given
<1>6. Unshared'
  BY <1>1, <1>3 DEF Unshared
<1>7. \A o : Unstored(o)' <=> Unstored(o)
  BY <1>1, <1>3 DEF Unstored, Idle
<1>8. Match'
  BY <1>1, <1>7 DEF Match, Dropping
<1>9. AimsKept
  BY <1>1, <1>7 DEF AimsKept
<1>10. Desks'
  BY <1>1, <1>2, <1>9, DesksStay
<1>11. Apart' /\ Roomy' /\ Stamped'
  BY <1>1, <1>4, StoresStay, StampedStays
<1>12. QED
  BY <1>4, <1>5, <1>6, <1>8, <1>10, <1>11

(* The request is over: its team, if it was a sign-up, is settled. *)
LEMMA RequestOver ==
  ASSUME AppInv, NEW n \in Newcomer, reg[n] # Idle, reg' = [reg EXCEPT ![n] = Idle]
  PROVE  /\ reg' \in [Newcomer -> Request]
         /\ reg'[n] = Idle /\ \A o \in Newcomer \ {n} : reg'[o] = reg[o]
         /\ reg[n].team \in born \cap Team /\ reg[n].addr \in Address
         /\ reg[n].addr \in DOMAIN Mailbox
         /\ \A t : Unstored(t)' => Unstored(t)
         /\ reg[n].op = "join" => \A t : Unstored(t)' <=> Unstored(t)
         /\ reg[n].op = "signup" => /\ \A t : Unstored(t)' <=> Unstored(t) /\ t # reg[n].team
                                    /\ Unstored(reg[n].team)
         /\ ~Dropping /\ \A a \in Actor : ~Clears(desk[a])
<1> USE DEF AppInv
<1>1. reg[n] \in Request
  BY DEF TypeOK
<1>2. reg[n].team \in born \cap Team /\ reg[n].addr \in Address /\ reg[n].op \in {"signup", "join"}
  BY <1>1 DEF Given, Request
<1>3. reg' \in [Newcomer -> Request]
  BY DEF TypeOK, Request
<1>4. reg'[n] = Idle /\ \A o \in Newcomer \ {n} : reg'[o] = reg[o]
  BY DEF TypeOK
<1>5. /\ \A t : Unstored(t)' => Unstored(t)
      /\ reg[n].op = "join" => \A t : Unstored(t)' <=> Unstored(t)
  BY <1>2, <1>4 DEF Unstored, Idle
<1>6. ASSUME reg[n].op = "signup"
      PROVE  /\ \A t : Unstored(t)' <=> Unstored(t) /\ t # reg[n].team
             /\ Unstored(reg[n].team)
  BY <1>4, <1>6 DEF Unstored, Idle, Unshared
<1>7. ~Dropping /\ \A a \in Actor : ~Clears(desk[a])
  BY NotQuiet
<1>8. QED
  BY <1>2, <1>3, <1>4, <1>5, <1>6, <1>7, AccountsAssumption

(* The sign-up is stored as it was made, or taken out again. *)
LEMMA StoreInv ==
  ASSUME AppInv, ~Overtake, NEW n \in Newcomer, Store(n)
  PROVE  AppInv'
<1> USE DEF AppInv
<1> DEFINE t == reg[n].team
           u == User(reg[n].addr)
<1>1. /\ members' = members /\ revoked' = revoked /\ tokens' = tokens /\ desk' = desk
      /\ born' = born /\ reg[n].op = "signup" /\ reg' = [reg EXCEPT ![n] = Idle]
  BY DEF Store
<1>2. reg[n] # Idle
  BY <1>1 DEF Idle
<1>3. /\ reg' \in [Newcomer -> Request]
      /\ reg'[n] = Idle /\ \A o \in Newcomer \ {n} : reg'[o] = reg[o]
      /\ t \in born \cap Team /\ reg[n].addr \in DOMAIN Mailbox
      /\ \A o : Unstored(o)' <=> Unstored(o) /\ o # t
      /\ Unstored(t)
      /\ ~Dropping /\ \A a \in Actor : ~Clears(desk[a])
  BY <1>1, <1>2, RequestOver
<1>4. u \in UserRecord /\ u # None /\ users[t] = u
  BY <1>1, <1>3, UserMade DEF Unshared
<1>5. \A o \in Newcomer \ {n} : reg[o].op = "signup" => reg[o].team # t
  BY <1>1 DEF Unshared
<1>6. disk.users[t] = None
  BY <1>3 DEF Match
<1> HIDE DEF t, u
<1>7. \/ disk' = ReplayUser(t, u) /\ users' = users
      \/ disk' = disk /\ users' = [users EXCEPT ![t] = None]
  BY DEF Store, TakenOut, t, u
<1>8. /\ \A o \in Team \ {t} : users'[o] = users[o]
      /\ users' \in Stores
      /\ users'[t] = u \/ users'[t] = None
  BY <1>3, <1>4, <1>7 DEF TypeOK, Stores
<1>9. /\ disk' \in [users : Stores, members : Roster, revoked : SUBSET Token, loads : BOOLEAN]
      /\ disk'.members = disk.members /\ disk'.revoked = disk.revoked
      /\ \A o \in Team \ {t} : disk'.users[o] = disk.users[o]
      /\ disk'.users[t] = users'[t]
      /\ disk'.loads = disk.loads
  <2>1. CASE disk' = ReplayUser(t, u) /\ users' = users
    <3>1. disk.loads
      BY DEF Match
    <3>2. ASSUME NEW o \in Team \ {t}, disk.users[o] # None PROVE disk.users[o].addr # u.addr
      <4>1. users[o] # None /\ disk.users[o] = users[o]
        BY <1>3, <3>2 DEF Match
      <4>2. QED
        BY <1>3, <1>4, <4>1 DEF Apart
    <3>3. disk' = [disk EXCEPT !.users[t] = u, !.loads = TRUE]
      BY <2>1, <3>1, <3>2 DEF ReplayUser
    <3>4. disk \in [users : Stores, members : Roster, revoked : SUBSET Token, loads : BOOLEAN]
      BY DEF TypeOK
    <3>5. disk'.users = [disk.users EXCEPT ![t] = u]
      BY <3>3, <3>4
    <3>6. disk'.users \in Stores
      BY <1>3, <1>4, <3>4, <3>5 DEF Stores
    <3>7. /\ disk' \in [users : Stores, members : Roster, revoked : SUBSET Token, loads : BOOLEAN]
          /\ disk'.members = disk.members /\ disk'.revoked = disk.revoked /\ disk'.loads = TRUE
      BY <3>3, <3>4, <3>6
    <3>8. /\ \A o \in Team \ {t} : disk'.users[o] = disk.users[o]
          /\ disk'.users[t] = u
      BY <1>3, <3>4, <3>5 DEF Stores
    <3>9. QED
      BY <1>4, <2>1, <3>1, <3>7, <3>8
  <2>2. CASE disk' = disk /\ users' = [users EXCEPT ![t] = None]
    BY <1>3, <1>6, <2>2 DEF TypeOK, Stores
  <2>3. QED
    BY <1>7, <2>1, <2>2
<1>10. TypeOK'
  BY <1>1, <1>3, <1>8, <1>9 DEF TypeOK
<1>11. Given'
  <2>1. \A o \in Team : users'[o] # None \/ disk'.users[o] # None => o \in born'
    BY <1>1, <1>3, <1>8, <1>9 DEF Given
  <2>2. \A o \in Newcomer : reg'[o] # Idle => reg'[o].team \in born'
    BY <1>1, <1>3 DEF Given
  <2>3. QED
    BY <1>1, <1>9, <2>1, <2>2 DEF Given
<1>12. Unshared'
  <2>1. \A o \in Newcomer : reg'[o].op = "signup" => o # n /\ reg'[o] = reg[o]
    BY <1>3 DEF Idle
  <2>2. \A o \in Newcomer : reg[o].op = "signup" => reg[o].team \in Team
    BY DEF TypeOK, Request, Idle
  <2>3. QED
    BY <1>5, <1>8, <2>1, <2>2 DEF Unshared
<1>13. Apart'
  <2>1. \A o \in Team : users'[o] # None => users[o] # None /\ users'[o].addr = users[o].addr
    BY <1>3, <1>4, <1>8
  <2>2. \A m \in Member : Current(m)' => Current(m) /\ members'[m].addr = members[m].addr
    BY <1>1 DEF Current
  <2>3. QED
    BY <2>1, <2>2, ApartStays
<1>14. Roomy'
  BY <1>1, RoomyStays DEF OfTeam, Current
<1>15. Match'
  <2>1. ~Dropping'
    BY <1>1, <1>3 DEF Dropping
  <2>2. \A o \in Team : disk'.users[o] = IF Unstored(o)' THEN None ELSE users'[o]
    BY <1>3, <1>8, <1>9 DEF Match
  <2>3. disk'.members = members' /\ disk'.revoked = revoked' /\ disk'.loads
    BY <1>1, <1>3, <1>9 DEF Match
  <2>4. QED
    BY <2>1, <2>2, <2>3 DEF Match
<1>16. AimsKept
  BY <1>1, <1>3 DEF AimsKept
<1>17. Desks'
  BY <1>1, <1>3, <1>16, DesksStay
<1>18. Stamped'
  <2>1. \A o \in Team : users[o] # None => users[o].ver \in Nat
    BY DEF TypeOK, Stores, UserRecord
  <2>2. \A o \in born \cap Team : users'[o] # None => users[o] # None /\ users[o].ver <= users'[o].ver
    BY <1>4, <1>8, <2>1
  <2>3. \A m \in Member : members[m] # None => members[m].ver \in Nat
    BY DEF TypeOK, Roster, MemberRecord
  <2>4. \A m \in born \cap Member : members'[m] # None
             => members[m] # None /\ members[m].ver <= members'[m].ver
    BY <1>1, <2>3
  <2>5. QED
    BY <1>1, <1>10, <2>2, <2>4, StampedStays
<1>19. QED
  BY <1>10, <1>11, <1>12, <1>13, <1>14, <1>15, <1>17, <1>18

(* A teammate is let in if the address is free and there is room. *)
LEMMA JoinInv ==
  ASSUME AppInv, ~Overtake, NEW n \in Newcomer, Join(n)
  PROVE  AppInv'
<1> USE DEF AppInv
<1>1. /\ users' = users /\ revoked' = revoked /\ tokens' = tokens /\ desk' = desk
      /\ reg[n].op = "join" /\ reg' = [reg EXCEPT ![n] = Idle]
  BY DEF Join
<1>2. reg[n] # Idle
  BY <1>1 DEF Idle
<1>3. /\ reg' \in [Newcomer -> Request]
      /\ reg'[n] = Idle /\ \A o \in Newcomer \ {n} : reg'[o] = reg[o]
      /\ reg[n].team \in born \cap Team /\ reg[n].addr \in Address
      /\ \A o : Unstored(o)' <=> Unstored(o)
      /\ ~Dropping /\ \A a \in Actor : ~Clears(desk[a])
  BY <1>1, <1>2, RequestOver
<1>4. Unshared'
  BY <1>1, <1>3 DEF Unshared, Idle
<1>5. CASE disk' = disk /\ members' = members /\ born' = born
  <2>1. TypeOK'
    BY <1>1, <1>3, <1>5 DEF TypeOK
  <2>2. Given'
    <3>1. \A o \in Newcomer : reg'[o] # Idle => reg'[o].team \in born'
      BY <1>1, <1>3, <1>5 DEF Given
    <3>2. QED
      BY <1>1, <1>5, <3>1 DEF Given
  <2>3. Match'
    BY <1>1, <1>3, <1>5 DEF Match, Dropping
  <2>4. AimsKept
    BY <1>1, <1>3, <1>5 DEF AimsKept
  <2>5. Desks'
    BY <1>1, <1>3, <2>4, DesksStay
  <2>6. Apart' /\ Roomy' /\ Stamped'
    BY <1>1, <1>5, <2>1, StoresStay, StampedStays
  <2>7. QED
    BY <1>4, <2>1, <2>2, <2>3, <2>5, <2>6
<1>6. CASE ~(disk' = disk /\ members' = members /\ born' = born)
  <2> DEFINE rec == [team |-> reg[n].team, addr |-> reg[n].addr, removed |-> FALSE, ver |-> 0]
  <2>1. PICK m \in Fresh(Member) :
           /\ disk' = [disk EXCEPT !.members[m] = rec]
           /\ members' = [members EXCEPT ![m] = rec]
           /\ born' = born \cup {m}
           /\ Mailbox[reg[n].addr] \notin MemberMailboxes \cup UserMailboxes
           /\ Cardinality(OfTeam(reg[n].team)) + 1 < TeamSize
    BY <1>6 DEF Join, ReplayMember, HasRoom
  <2>2. m \in Member /\ m \notin born
    BY FreshIds
  <2>3. rec \in MemberRecord /\ rec # None
    <3>1. rec \in MemberRecord
      BY <1>3 DEF MemberRecord
    <3>2. QED
      BY <3>1, AccountsAssumption
  <2>4. /\ rec.team = reg[n].team /\ rec.addr = reg[n].addr
        /\ rec.removed = FALSE /\ rec.ver = 0
    OBVIOUS
  <2> HIDE DEF rec
  <2>5. /\ members' \in Roster /\ members'[m] = rec
        /\ \A o \in Member \ {m} : members'[o] = members[o]
    BY <2>1, <2>2, <2>3 DEF TypeOK, Roster
  <2>6. /\ disk' \in [users : Stores, members : Roster, revoked : SUBSET Token, loads : BOOLEAN]
        /\ disk'.members = [disk.members EXCEPT ![m] = rec]
        /\ disk'.users = disk.users /\ disk'.revoked = disk.revoked /\ disk'.loads = disk.loads
    <3>1. disk \in [users : Stores, members : Roster, revoked : SUBSET Token, loads : BOOLEAN]
      BY DEF TypeOK
    <3>2. disk'.members = [disk.members EXCEPT ![m] = rec]
      BY <2>1, <3>1
    <3>3. disk'.members \in Roster
      BY <2>2, <2>3, <3>1, <3>2 DEF Roster
    <3>4. QED
      BY <2>1, <3>1, <3>2, <3>3
  <2>7. members[m] = None
    BY <2>2 DEF Given
  <2>8. TypeOK'
    BY <1>1, <1>3, <2>1, <2>2, <2>5, <2>6 DEF TypeOK
  <2>9. Given'
    <3>1. IsFiniteSet(born')
      BY <2>1, FS_AddElement DEF Given
    <3>2. \A o \in Newcomer : reg'[o] # Idle => reg'[o].team \in born'
      BY <1>3, <2>1 DEF Given
    <3>3. \A o \in Member : members'[o] # None \/ disk'.members[o] # None => o \in born'
      BY <2>1, <2>2, <2>5, <2>6 DEF Given, TypeOK, Roster
    <3>4. \A o \in Team : users'[o] # None \/ disk'.users[o] # None => o \in born'
      BY <1>1, <2>1, <2>6 DEF Given
    <3>5. QED
      BY <1>1, <2>1, <3>1, <3>2, <3>3, <3>4 DEF Given
  <2>10. Apart'
    <3>1. /\ \A o \in Team : users[o] # None => Mailbox[rec.addr] # Mailbox[users[o].addr]
          /\ \A o \in Member : Current(o) => Mailbox[rec.addr] # Mailbox[members[o].addr]
      BY <2>1, <2>4 DEF UserMailboxes, MemberMailboxes, Teams
    <3>2. \A o \in Member : Current(o)' => o = m \/ (o # m /\ Current(o) /\ members'[o] = members[o])
      BY <2>5 DEF Current
    <3>3. QED
      BY <1>1, <2>5, <3>1, <3>2 DEF Apart
  <2>11. Roomy'
    <3> SUFFICES ASSUME NEW t \in Team PROVE Cardinality(OfTeam(t)') < TeamSize
      BY DEF Roomy
    <3>1. OfTeam(t) \subseteq born
      BY DEF OfTeam, Current, Given
    <3>2. IsFiniteSet(OfTeam(t)) /\ Cardinality(OfTeam(t)) \in Nat
      BY <3>1, FS_Subset, FS_CardinalityType DEF Given
    <3>3. CASE t = reg[n].team
      <4>1. OfTeam(t)' \subseteq OfTeam(t) \cup {m}
        BY <2>5 DEF OfTeam, Current
      <4>2. /\ IsFiniteSet(OfTeam(t) \cup {m})
            /\ Cardinality(OfTeam(t) \cup {m}) <= Cardinality(OfTeam(t)) + 1
        <5>1. /\ IsFiniteSet(OfTeam(t) \cup {m})
              /\ Cardinality(OfTeam(t) \cup {m})
                    = IF m \in OfTeam(t) THEN Cardinality(OfTeam(t)) ELSE Cardinality(OfTeam(t)) + 1
          BY <3>2, FS_AddElement, Zenon
        <5>2. QED
          BY <3>2, <5>1
      <4>3. /\ Cardinality(OfTeam(t)') <= Cardinality(OfTeam(t) \cup {m})
            /\ Cardinality(OfTeam(t)') \in Nat
            /\ Cardinality(OfTeam(t) \cup {m}) \in Nat
        BY <4>1, <4>2, FS_Subset, FS_CardinalityType
      <4>4. Cardinality(OfTeam(t)) + 1 < TeamSize
        BY <2>1, <3>3
      <4>5. QED
        BY <3>2, <4>2, <4>3, <4>4, AccountsAssumption
    <3>4. CASE t # reg[n].team
      <4>1. OfTeam(t)' \subseteq OfTeam(t)
        BY <2>4, <2>5, <3>4 DEF OfTeam, Current
      <4>2. Cardinality(OfTeam(t)') <= Cardinality(OfTeam(t)) /\ Cardinality(OfTeam(t)') \in Nat
        BY <3>2, <4>1, FS_Subset, FS_CardinalityType
      <4>3. Cardinality(OfTeam(t)) < TeamSize
        BY DEF Roomy
      <4>4. QED
        BY <3>2, <4>2, <4>3, AccountsAssumption
    <3>5. QED
      BY <3>3, <3>4
  <2>12. Match'
    <3>1. ~Dropping'
      BY <1>1, <1>3 DEF Dropping
    <3>2. disk'.members = members'
      BY <1>3, <2>1, <2>6 DEF Match
    <3>3. QED
      BY <1>1, <1>3, <2>6, <3>1, <3>2 DEF Match
  <2>13. AimsKept
    BY <1>1, <1>3, <2>1, <2>2, <2>5 DEF AimsKept
  <2>14. Desks'
    BY <1>1, <1>3, <2>13, DesksStay
  <2>15. Stamped'
    <3>1. \A o \in Team : users[o] # None => users[o].ver \in Nat
      BY DEF TypeOK, Stores, UserRecord
    <3>2. \A o \in Member : members[o] # None => members[o].ver \in Nat
      BY DEF TypeOK, Roster, MemberRecord
    <3>3. \A o \in born \cap Member : members'[o] # None
              => members[o] # None /\ members[o].ver <= members'[o].ver
      BY <2>2, <2>5, <3>2
    <3>4. \A o \in born \cap Team : users'[o] # None => users[o] # None /\ users[o].ver <= users'[o].ver
      BY <1>1, <3>1
    <3>5. QED
      BY <1>1, <2>8, <3>3, <3>4, StampedStays
  <2>16. QED
    BY <1>4, <2>8, <2>9, <2>10, <2>11, <2>12, <2>14, <2>15
<1>7. QED
  BY <1>5, <1>6

-----------------------------------------------------------------------------
(* A sign-in cancelled: on disk first. *)
LEMMA SignOutTokenInv ==
  ASSUME AppInv, NEW k \in Token, SignOutToken(k)
  PROVE  AppInv'
<1> USE DEF AppInv
<1>1. /\ users' = users /\ members' = members /\ tokens' = tokens /\ desk' = desk
      /\ born' = born /\ reg' = reg
  BY DEF SignOutToken
<1>2. \/ disk' = disk /\ revoked' = revoked
      \/ disk' = [disk EXCEPT !.revoked = @ \cup {k}] /\ revoked' = revoked \cup {k}
  BY DEF SignOutToken, Cancelled
<1>3. /\ disk' \in [users : Stores, members : Roster, revoked : SUBSET Token, loads : BOOLEAN]
      /\ disk'.users = disk.users /\ disk'.members = disk.members
      /\ disk'.revoked = revoked' /\ disk'.loads = disk.loads /\ revoked' \in SUBSET Token
  BY <1>2 DEF TypeOK, Match
<1>4. TypeOK'
  BY <1>1, <1>3 DEF TypeOK
<1>5. Given' /\ Unshared'
  BY <1>1, <1>3 DEF Given, Unshared
<1>6. \A o : Unstored(o)' <=> Unstored(o)
  BY <1>1 DEF Unstored
<1>7. Match'
  BY <1>1, <1>3, <1>6 DEF Match, Dropping
<1>8. AimsKept
  BY <1>1, <1>6 DEF AimsKept
<1>9. Desks'
  <2>1. (\E a \in Actor : Clears(desk[a])) => Quiet'
    BY <1>1 DEF Desks, Quiet
  <2>2. QED
    BY <1>1, <1>8, <2>1, DesksStay
<1>10. Apart' /\ Roomy' /\ Stamped'
  BY <1>1, <1>4, StoresStay, StampedStays
<1>11. QED
  BY <1>4, <1>5, <1>7, <1>9, <1>10

(* A new sign-in is stamped with the versions of the moment. *)
LEMMA SignInInv ==
  ASSUME AppInv, NEW k \in Token, NEW t \in Team, NEW m \in Who, SignIn(k, t, m)
  PROVE  AppInv'
<1> USE DEF AppInv
<1>1. /\ users' = users /\ members' = members /\ revoked' = revoked /\ disk' = disk
      /\ desk' = desk /\ born' = born /\ reg' = reg
      /\ tokens' = [tokens EXCEPT ![k] = Issue(t, m)]
      /\ users[t] # None
      /\ m # None => Current(m) /\ members[m].team = t
  BY DEF SignIn, Welcome, MemberLogin, Login, Teams
<1>2. users[t].ver \in Nat
  BY <1>1 DEF TypeOK, Stores, UserRecord
<1>3. m # None => m \in Member /\ members[m] # None /\ members[m].ver \in Nat
  BY <1>1 DEF TypeOK, Roster, MemberRecord, Current, Who
<1> DEFINE x == Issue(t, m)
<1>4. /\ x.team = t /\ x.login = m /\ x.ver[1] = users[t].ver
      /\ x.ver[2] = IF m = None THEN 0 ELSE members[m].ver
      /\ x \in TokenRecord
  BY <1>2, <1>3 DEF Issue, Version, TokenRecord
<1> HIDE DEF x
<1>5. /\ tokens'[k] = x
      /\ \A o \in Token \ {k} : tokens'[o] = tokens[o]
      /\ tokens' \in [Token -> TokenRecord \cup {None}]
  BY <1>1, <1>4 DEF TypeOK, x
<1>6. TypeOK'
  BY <1>1, <1>5 DEF TypeOK
<1>7. Given'
  <2>1. t \in born /\ (m # None => m \in born)
    BY <1>1, <1>3 DEF Given
  <2>2. \A o \in Token : tokens'[o] # None =>
            tokens'[o].team \in born' /\ tokens'[o].login \in born' \cup {None}
    BY <1>1, <1>4, <1>5, <2>1 DEF Given
  <2>3. QED
    BY <1>1, <2>2 DEF Given
<1>8. \A o : Unstored(o)' <=> Unstored(o)
  BY <1>1 DEF Unstored
<1>9. Unshared' /\ Match'
  BY <1>1, <1>8 DEF Unshared, Match, Dropping
<1>10. AimsKept
  BY <1>1, <1>8 DEF AimsKept
<1>11. Desks'
  <2>1. (\E a \in Actor : Clears(desk[a])) => Quiet'
    BY <1>1 DEF Desks, Quiet
  <2>2. QED
    BY <1>1, <1>10, <2>1, DesksStay
<1>12. Stamped'
  <2>1. Stamped!(k)'
    BY <1>1, <1>2, <1>3, <1>4, <1>5
  <2>2. \A o \in Token \ {k} : Stamped!(o)'
    BY <1>1, <1>5 DEF Stamped
  <2>3. QED
    BY <2>1, <2>2 DEF Stamped
<1>13. Apart' /\ Roomy'
  BY <1>1, StoresStay
<1>14. QED
  BY <1>6, <1>7, <1>9, <1>11, <1>12, <1>13

-----------------------------------------------------------------------------
(* A finite set in some order: every member has its place. *)
LEMMA InOrder ==
  ASSUME NEW S, IsFiniteSet(S)
  PROVE  /\ Cardinality(S) \in Nat
         /\ SetToSeq(S) \in [1 .. Cardinality(S) -> S]
         /\ \A x \in S : \E i \in 1 .. Cardinality(S) : SetToSeq(S)[i] = x
<1> DEFINE n == Cardinality(S)
<1>1. n \in Nat /\ ExistsBijection(1 .. n, S)
  BY FS_CardinalityType
<1>2. \E f \in [1 .. n -> S] : IsInjective(f)
  BY <1>1 DEF ExistsBijection, Bijection, Injection
<1>3. SetToSeq(S) \in [1 .. n -> S] /\ IsInjective(SetToSeq(S))
  BY <1>2 DEF SetToSeq
<1>4. SetToSeq(S) \in Injection(1 .. n, S)
  BY <1>3 DEF Injection
<1>5. IsFiniteSet(1 .. n) /\ Cardinality(1 .. n) = n
  BY <1>1, FS_Interval
<1>6. SetToSeq(S) \in Surjection(1 .. n, S)
  BY <1>4, <1>5, FS_Injection
<1>7. QED
  BY <1>1, <1>3, <1>6 DEF Surjection

(* The same step for every team, in some order. *)
LEMMA ForEachTeam ==
  ASSUME TypeOK, Given, NEW does \in [Team -> Step]
  PROVE  /\ EachTeam(does) \in Seq(Step)
         /\ \A i \in 1 .. Len(EachTeam(does)) : \E t \in Teams : EachTeam(does)[i] = does[t]
         /\ \A t \in Teams : \E i \in 1 .. Len(EachTeam(does)) : EachTeam(does)[i] = does[t]
<1> DEFINE n == Cardinality(Teams)
           f == SetToSeq(Teams)
<1>1. Teams \subseteq born /\ Teams \subseteq Team
  BY DEF Teams, Given
<1>2. IsFiniteSet(Teams)
  BY <1>1, FS_Subset DEF Given
<1>3. n \in Nat /\ f \in [1 .. n -> Teams] /\ \A t \in Teams : \E i \in 1 .. n : f[i] = t
  BY <1>2, InOrder
<1> HIDE DEF n, f
<1>4. EachTeam(does) = [i \in 1 .. n |-> does[f[i]]]
  BY DEF EachTeam, n, f
<1>5. \A i \in 1 .. n : f[i] \in Teams /\ does[f[i]] \in Step
  BY <1>1, <1>3
<1>6. EachTeam(does) \in Seq(Step) /\ Len(EachTeam(does)) = n
  BY <1>3, <1>4, <1>5
<1>7. QED
  BY <1>3, <1>4, <1>5, <1>6

(* Two steps for every team, the one right after the other. *)
LEMMA ForEachTeamTwo ==
  ASSUME TypeOK, Given, NEW does \in [Team -> Step], NEW then \in [Team -> Step]
  PROVE  /\ EachTeamThen(does, then) \in Seq(Step)
         /\ \A i \in 1 .. Len(EachTeamThen(does, then)) : \E t \in Teams :
               \/ /\ EachTeamThen(does, then)[i] = does[t]
                  /\ i + 1 \in 1 .. Len(EachTeamThen(does, then))
                  /\ EachTeamThen(does, then)[i + 1] = then[t]
               \/ EachTeamThen(does, then)[i] = then[t]
<1> DEFINE n == Cardinality(Teams)
           f == SetToSeq(Teams)
           e == EachTeamThen(does, then)
<1>1. Teams \subseteq born /\ Teams \subseteq Team
  BY DEF Teams, Given
<1>2. IsFiniteSet(Teams)
  BY <1>1, FS_Subset DEF Given
<1>3. n \in Nat /\ f \in [1 .. n -> Teams]
  BY <1>2, InOrder
<1> HIDE DEF n, f
<1>4. e = [i \in 1 .. 2 * n |-> IF i % 2 = 1 THEN does[f[(i + 1) \div 2]] ELSE then[f[(i + 1) \div 2]]]
  BY DEF EachTeamThen, n, f
<1> HIDE DEF e
<1>5. ASSUME NEW i \in 1 .. 2 * n
      PROVE  /\ (i + 1) \div 2 \in 1 .. n
             /\ i % 2 = 1 => /\ i + 1 \in 1 .. 2 * n /\ (i + 1) % 2 # 1
                             /\ ((i + 1) + 1) \div 2 = (i + 1) \div 2
  BY <1>3
<1>6. \A i \in 1 .. 2 * n : f[(i + 1) \div 2] \in Teams
  BY <1>3, <1>5
<1>7. e \in Seq(Step) /\ Len(e) = 2 * n
  <2>1. \A i \in 1 .. 2 * n : does[f[(i + 1) \div 2]] \in Step /\ then[f[(i + 1) \div 2]] \in Step
    BY <1>1, <1>6
  <2>2. 2 * n \in Nat
    BY <1>3
  <2>3. e \in [1 .. 2 * n -> Step]
    BY <1>4, <2>1
  <2>4. QED
    BY <2>2, <2>3
<1>8. ASSUME NEW i \in 1 .. Len(e)
      PROVE  \E t \in Teams : \/ e[i] = does[t] /\ i + 1 \in 1 .. Len(e) /\ e[i + 1] = then[t]
                              \/ e[i] = then[t]
  <2>1. i \in 1 .. 2 * n /\ f[(i + 1) \div 2] \in Teams
    BY <1>6, <1>7
  <2>2. CASE i % 2 = 1
    <3>1. e[i] = does[f[(i + 1) \div 2]]
      BY <1>4, <2>1, <2>2
    <3>2. i + 1 \in 1 .. 2 * n /\ e[i + 1] = then[f[((i + 1) + 1) \div 2]]
      BY <1>4, <1>5, <2>1, <2>2
    <3>3. QED
      BY <1>5, <1>7, <2>1, <2>2, <3>1, <3>2
  <2>3. CASE i % 2 # 1
    BY <1>4, <2>1, <2>3
  <2>4. QED
    BY <2>2, <2>3
<1>9. QED
  BY <1>7, <1>8 DEF e

-----------------------------------------------------------------------------
(* A step of the hub alone. *)
LEMMA AppStays ==
  ASSUME AppInv, UNCHANGED <<users, members, revoked, disk, tokens, reg, desk, born>>
  PROVE  AppInv'
<1> USE DEF AppInv
<1>1. TypeOK' /\ Given' /\ Unshared'
  BY DEF TypeOK, Given, Unshared
<1>2. \A o : Unstored(o)' <=> Unstored(o)
  BY DEF Unstored
<1>3. Match'
  BY <1>2 DEF Match, Dropping
<1>4. AimsKept
  BY <1>2 DEF AimsKept
<1>5. Desks'
  <2>1. (\E a \in Actor : Clears(desk[a])) => Quiet'
    BY DEF Desks, Quiet
  <2>2. QED
    BY <1>4, <2>1, DesksStay
<1>6. Apart' /\ Roomy' /\ Stamped'
  BY <1>1, StoresStay, StampedStays
<1>7. QED
  BY <1>1, <1>3, <1>5, <1>6

(* A call of one step or two that changes one team or one teammate, ... *)
LEMMA OneStep ==
  ASSUME NEW e \in Step, e.do = "user", ~Cutting(e.what)
  PROVE  /\ <<e>> \in Seq(Step) /\ Len(<<e>>) = 1 /\ <<e>>[1] = e
         /\ Shaped(<<e>>) /\ ~Clears(<<e>>)
<1> DEFINE d == <<e>>
<1>1. d \in Seq(Step) /\ Len(d) = 1 /\ d[1] = e
  OBVIOUS
<1> HIDE DEF d
<1>2. Shaped(d) /\ ~Clears(d)
  BY <1>1 DEF Shaped, Clears
<1>3. QED
  BY <1>1, <1>2 DEF d

(* An update, followed by the cut of the team's pages. *)
LEMMA StepAndCut ==
  ASSUME NEW e \in Step, e.do \in {"user", "member"}, NEW d \in Seq(Step),
         d = <<e, Cut(e.team)>> \/ d = <<e>> \o <<Cut(e.team)>>
  PROVE  /\ Len(d) = 2 /\ d[1] = e /\ d[2] = Cut(e.team)
         /\ Shaped(d) /\ ~Clears(d)
<1> DEFINE c == Cut(e.team)
<1>1. c \in Step /\ c.do = "cut"
  BY DEF Cut, Step
<1>2. Len(d) = 2 /\ d[1] = e /\ d[2] = c
  <2>1. CASE d = <<e, c>>
    BY <2>1
  <2>2. CASE d = <<e>> \o <<c>>
    <3>1. <<c>> \in Seq(Step) /\ Len(<<c>>) = 1 /\ <<c>>[1] = c
      BY <1>1
    <3>2. Len(d) = 1 + 1 /\ d[1] = e /\ \A i \in 1 .. 1 : d[i + 1] = <<c>>[i]
      BY <2>2, <3>1, Before
    <3>3. QED
      BY <3>1, <3>2
  <2>3. QED
    BY <2>1, <2>2
<1>3. Shaped(d)
  <2>1. \A i \in 1 .. Len(d) : i = 1 \/ i = 2
    BY <1>2
  <2>2. 1 + 1 = 2 /\ 2 \in 1 .. Len(d)
    BY <1>2
  <2>3. QED
    BY <1>1, <1>2, <2>1, <2>2 DEF Shaped
<1>4. ~Clears(d)
  BY <1>1, <1>2 DEF Clears
<1>5. QED
  BY <1>2, <1>3, <1>4

(* ... or of all teams. *)
LEMMA AllSignedOut ==
  ASSUME AppInv, \A o \in Teams : ~Unstored(o), NEW m \in Who, NEW t \in Team,
         NEW d, d = Plan("SignOutAll", t, m)
  PROVE  /\ d \in Seq(Step) /\ Shaped(d) /\ ~Clears(d)
         /\ \A i \in 1 .. Len(d) : Aimed(d[i])
<1> USE DEF AppInv
<1> DEFINE does == [o \in Team |-> Edit("SignOut", o, None)]
           then == [o \in Team |-> Cut(o)]
<1>1. d = EachTeamThen(does, then)
  BY DEF Plan, OneTeam
<1>2. does \in [Team -> Step] /\ then \in [Team -> Step]
  BY DEF Edit, Cut, Step, What, OneTeam, Who
<1>3. \A o \in Team : does[o].do = "user" /\ does[o].team = o /\ then[o] = Cut(o)
                       /\ then[o].do = "cut"
  BY DEF Edit, Cut
<1> HIDE DEF does, then
<1>4. /\ d \in Seq(Step)
      /\ \A i \in 1 .. Len(d) : \E o \in Teams :
            \/ d[i] = does[o] /\ i + 1 \in 1 .. Len(d) /\ d[i + 1] = then[o]
            \/ d[i] = then[o]
  BY <1>1, <1>2, ForEachTeamTwo
<1>5. Teams \subseteq Team /\ Teams \subseteq born
  BY DEF Teams, Given
<1>6. \A i \in 1 .. Len(d) :
         \/ d[i].do = "user" /\ d[i].team \in Teams
                /\ i + 1 \in 1 .. Len(d) /\ d[i + 1] = Cut(d[i].team)
         \/ d[i].do = "cut"
  BY <1>3, <1>4, <1>5
<1>7. Shaped(d)
  BY <1>6 DEF Shaped
<1>8. ~Clears(d)
  BY <1>6 DEF Clears
<1>9. \A i \in 1 .. Len(d) : Aimed(d[i])
  BY <1>5, <1>6 DEF Aimed
<1>10. QED
  BY <1>4, <1>7, <1>8, <1>9

(* Every call starts with steps in order, about what is settled. *)
LEMMA PlanOK ==
  ASSUME AppInv, NEW what \in Call, NEW t \in Team, NEW m \in Who, May(what, t, m),
         what \notin {"Reset", "Fresh"} => ~Unstored(t),
         what = "SignOutAll" => \A o \in Teams : ~Unstored(o),
         NEW d, d = Plan(what, t, m)
  PROVE  /\ d \in Seq(Step) /\ Shaped(d)
         /\ \A i \in 1 .. Len(d) : Aimed(d[i])
         /\ Clears(d) => what \in {"Reset", "Fresh"}
<1> USE DEF AppInv
<1>0. t \in born /\ (m # None => m \in Member)
  BY DEF May, Teams, Given, Who
<1> DEFINE e == Edit(what, t, m)
           g == EditMember(what, t, m)
           s == Edit("SetTrader", t, None)
<1>c. Cut(t) \in Step /\ Cut(t).do = "cut" /\ Aimed(Cut(t))
  BY DEF Cut, Step, Aimed
<1>1. CASE what \in OneTeam
  <2>1. e \in Step /\ e.do = "user" /\ e.what = what /\ e.team = t
    BY <1>1 DEF Edit, Step, What
  <2>2. Aimed(e)
    BY <1>0, <1>1, <2>1 DEF Aimed, OneTeam
  <2>3. CASE Cutting(what)
    <3>1. d = <<e>> \o <<Cut(e.team)>>
      BY <1>1, <2>1, <2>3 DEF Plan, OneTeam
    <3>0. d \in Seq(Step)
      <4>1. Cut(e.team) \in Step
        BY <1>c, <2>1
      <4>2. <<e>> \in Seq(Step) /\ <<Cut(e.team)>> \in Seq(Step)
        BY <2>1, <4>1
      <4>3. QED
        BY <3>1, <4>2
    <3> HIDE DEF e
    <3>2. Len(d) = 2 /\ d[1] = e /\ d[2] = Cut(e.team) /\ Shaped(d) /\ ~Clears(d)
      BY <2>1, <3>0, <3>1, StepAndCut
    <3>3. QED
      BY <1>c, <2>1, <2>2, <3>0, <3>2
  <2>4. CASE ~Cutting(what)
    <3>1. d = <<e>>
      <4>1. d = <<e>> \o <<>>
        BY <1>1, <2>4 DEF Plan, OneTeam
      <4>2. QED
        BY <2>1, <4>1
    <3> HIDE DEF e
    <3>2. d \in Seq(Step) /\ Len(d) = 1 /\ d[1] = e /\ Shaped(d) /\ ~Clears(d)
      BY <2>1, <2>4, <3>1, OneStep
    <3>3. QED
      BY <2>2, <3>2
  <2>5. QED
    BY <2>3, <2>4
<1>2. CASE what = "SetTrader"
  <2>1. e \in Step /\ e.do = "user" /\ e.team = t /\ ~Cutting(e.what) /\ d = <<e>>
    BY <1>2 DEF Edit, Step, What, Plan, OneTeam, Cutting
  <2>2. Aimed(e)
    BY <1>0, <1>2, <2>1 DEF Aimed
  <2> HIDE DEF e
  <2>3. d \in Seq(Step) /\ Len(d) = 1 /\ d[1] = e /\ Shaped(d) /\ ~Clears(d)
    BY <2>1, OneStep
  <2>4. QED
    BY <2>2, <2>3
<1>3. CASE what \in {"Remove", "SignOutMember"}
  <2>1. /\ g \in Step /\ g.do = "member" /\ g.team = t /\ g.member = m
        /\ m \in Member /\ members[m] # None /\ members[m].team = t
    BY <1>0, <1>3 DEF EditMember, Step, May, OfTeam, Current
  <2>2. Aimed(g)
    BY <2>1 DEF Aimed, Given
  <2> HIDE DEF g
  <2> DEFINE r == <<g, Cut(g.team)>>
  <2>0. r \in Seq(Step)
    BY <1>c, <2>1
  <2>3. /\ r \in Seq(Step) /\ Len(r) = 2 /\ r[1] = g /\ r[2] = Cut(t)
        /\ Shaped(r) /\ ~Clears(r)
    BY <2>0, <2>1, StepAndCut
  <2>4. CASE d = r
    BY <1>c, <2>2, <2>3, <2>4
  <2>5. CASE d = <<s>> \o r
    <3>1. s \in Step /\ s.do = "user" /\ s.team = t /\ ~Cutting(s.what)
      BY DEF Edit, Step, What, Who, Cutting
    <3>2. Aimed(s)
      BY <1>0, <1>3, <3>1 DEF Aimed
    <3> HIDE DEF s, r
    <3>3. /\ d \in Seq(Step) /\ Len(d) = 3 /\ d[1] = s /\ d[2] = g /\ d[3] = Cut(t)
      <4>1. /\ d \in Seq(Step) /\ Len(d) = 2 + 1 /\ d[1] = s
            /\ \A i \in 1 .. 2 : d[i + 1] = r[i]
        BY <2>3, <2>5, <3>1, Before
      <4>2. d[1 + 1] = r[1] /\ d[2 + 1] = r[2]
        BY <4>1
      <4>3. QED
        BY <2>3, <4>1, <4>2
    <3>4. \A i \in 1 .. Len(d) : i = 1 \/ i = 2 \/ i = 3
      BY <3>3
    <3>5. 2 + 1 = 3 /\ 3 \in 1 .. Len(d)
      BY <3>3
    <3>6. Shaped(d) /\ ~Clears(d)
      BY <1>c, <2>1, <3>1, <3>3, <3>4, <3>5 DEF Shaped, Clears
    <3>7. QED
      BY <1>c, <2>2, <3>2, <3>3, <3>4, <3>6
  <2>6. d = r \/ d = <<s>> \o r
    <3>1. r = <<g, Cut(t)>>
      BY <2>1
    <3>2. CASE what = "SignOutMember"
      <4>1. d = <<EditMember(what, t, m), Cut(t)>>
        BY <3>2 DEF Plan, OneTeam
      <4>2. QED
        BY <3>1, <4>1 DEF g
    <3>3. CASE what = "Remove"
      <4>1. d = (IF users[t].trader = m THEN <<s>> ELSE <<>>) \o <<EditMember(what, t, m), Cut(t)>>
        BY <3>3, Zenon DEF Plan, OneTeam
      <4>2. d = (IF users[t].trader = m THEN <<s>> ELSE <<>>) \o r
        BY <3>1, <4>1, Zenon DEF g
      <4>3. <<>> \o r = r
        BY <2>3
      <4>4. QED
        BY <4>2, <4>3
    <3>4. QED
      BY <1>3, <3>2, <3>3
  <2>7. QED
    BY <2>4, <2>5, <2>6
<1>4. CASE what = "SignOutAll"
  BY <1>4, AllSignedOut
<1>5. CASE what = "Reset"
  <2> DEFINE x == Do("reset", FALSE)
             y == Do("clear", FALSE)
  <2>1. d = <<x, y>>
    BY <1>5 DEF Plan, OneTeam
  <2>2. x \in Step /\ y \in Step /\ x.do = "reset" /\ x.fresh = FALSE /\ y.do = "clear"
    BY DEF Do, Step
  <2> HIDE DEF x, y
  <2>3. d \in Seq(Step) /\ Len(d) = 2 /\ d[1] = x /\ d[2] = y
    BY <2>1, <2>2
  <2>4. \A i \in 1 .. Len(d) : i = 1 \/ i = 2
    BY <2>3
  <2>5. Shaped(d) /\ \A i \in 1 .. Len(d) : Aimed(d[i])
    BY <2>2, <2>3, <2>4 DEF Shaped, Aimed
  <2>6. QED
    BY <1>5, <2>3, <2>5
<1>6. CASE what = "Fresh"
  <2> DEFINE x == Do("reset", TRUE)
             y == Do("drop", TRUE)
             z == Do("clear", TRUE)
  <2>1. d = <<x, y, z>>
    BY <1>6 DEF Plan, OneTeam
  <2>2. /\ x \in Step /\ y \in Step /\ z \in Step
        /\ x.do = "reset" /\ x.fresh = TRUE /\ y.do = "drop" /\ z.do = "clear"
    BY DEF Do, Step
  <2> HIDE DEF x, y, z
  <2>3. d \in Seq(Step) /\ Len(d) = 3 /\ d[1] = x /\ d[2] = y /\ d[3] = z
    BY <2>1, <2>2
  <2>4. \A i \in 1 .. Len(d) : i = 1 \/ i = 2 \/ i = 3
    BY <2>3
  <2>5. Shaped(d) /\ \A i \in 1 .. Len(d) : Aimed(d[i])
    BY <2>2, <2>3, <2>4 DEF Shaped, Aimed
  <2>6. QED
    BY <1>6, <2>3, <2>5
<1>7. QED
  BY <1>1, <1>2, <1>3, <1>4, <1>5, <1>6, AccountsAssumption

(* An organiser makes a call. *)
LEMMA BeginInv ==
  ASSUME AppInv, ~Overtake, NEW a \in Actor, NEW what \in Call, NEW t \in Team, NEW m \in Who,
         Begin(a, what, t, m)
  PROVE  AppInv'
<1> USE DEF AppInv
<1>d. PICK d : d = Plan(what, t, m)
  OBVIOUS
<1>1. /\ users' = users /\ members' = members /\ revoked' = revoked /\ disk' = disk
      /\ tokens' = tokens /\ reg' = reg /\ born' = born
      /\ desk' = [desk EXCEPT ![a] = d] /\ desk[a] = <<>>
      /\ May(what, t, m) /\ Settled(what, t)
  BY <1>d DEF Begin
<1>2. /\ what \notin {"Reset", "Fresh"} => ~Unstored(t) /\ ~Resetting
      /\ what = "SignOutAll" => \A o \in Teams : ~Unstored(o)
      /\ what \in {"Reset", "Fresh"} => Quiet /\ \A b \in Actor : desk[b] = <<>>
  <2>1. what = "SignOutAll" => t \in Teams
    BY <1>1 DEF May
  <2>2. QED
    BY <1>1, <2>1 DEF Settled
<1>3. /\ d \in Seq(Step) /\ Shaped(d)
      /\ \A i \in 1 .. Len(d) : Aimed(d[i])
      /\ Clears(d) => what \in {"Reset", "Fresh"}
  BY <1>d, <1>1, <1>2, PlanOK
<1>4. TypeOK'
  BY <1>1, <1>3 DEF TypeOK
<1>5. Given' /\ Unshared'
  BY <1>1 DEF Given, Unshared
<1>6. \A o : Unstored(o)' <=> Unstored(o)
  BY <1>1 DEF Unstored
<1>7. AimsKept
  BY <1>1, <1>6 DEF AimsKept
<1>8. \A b \in Actor \ {a} : Clears(desk[b]) => d = <<>>
  <2>1. ~Resetting => \A b \in Actor : ~Clears(desk[b])
    BY NotResetting
  <2>2. what \in {"Reset", "Fresh"} => \A b \in Actor : ~Clears(desk[b])
    BY <1>2 DEF Clears
  <2>3. QED
    BY <1>2, <2>1, <2>2
<1>9. Desks'
  <2>1. \A i \in 1 .. Len(d) : Aimed(d[i])'
    BY <1>1, <1>3 DEF Aimed, Unstored
  <2>2. Clears(d) => Quiet' /\ \A b \in Actor \ {a} : desk[b] = <<>>
    BY <1>1, <1>2, <1>3 DEF Quiet
  <2>3. \A b \in Actor \ {a} : Clears(desk[b]) => Quiet'
    BY <1>1 DEF Desks, Quiet
  <2>4. QED
    BY <1>1, <1>3, <1>7, <1>8, <2>1, <2>2, <2>3, DesksMove
<1>10. ~Dropping /\ ~Dropping'
  <2>1. ~Dropping
    <3>1. ~Resetting => ~Dropping
      BY NotResetting
    <3>2. what \in {"Reset", "Fresh"} => ~Dropping
      BY <1>2 DEF Dropping
    <3>3. QED
      BY <1>2, <3>1, <3>2
  <2>2. d = <<>> \/ d[1].do # "drop"
    <3>1. SUFFICES ASSUME d # <<>>, d[1].do = "drop" PROVE FALSE
      OBVIOUS
    <3>2. 1 \in 1 .. Len(d)
      BY <1>3, <3>1
    <3>3. what \in {"Reset", "Fresh"}
      BY <1>3, <3>1, <3>2 DEF Clears
    <3>4. d[1].do = "reset"
      BY <1>d, <3>3 DEF Plan, OneTeam, Do
    <3>5. QED
      BY <3>1, <3>4
  <2>3. QED
    BY <1>1, <2>1, <2>2 DEF Dropping, TypeOK
<1>11. Match'
  BY <1>1, <1>6, <1>10 DEF Match
<1>12. Apart' /\ Roomy' /\ Stamped'
  BY <1>1, <1>4, StoresStay, StampedStays
<1>13. QED
  BY <1>4, <1>5, <1>9, <1>11, <1>12

-----------------------------------------------------------------------------
(* While one call is made no other resets anything. *)
LEMMA Busy ==
  ASSUME TypeOK, Desks, NEW a \in Actor, desk[a] # <<>>
  PROVE  /\ \A b \in Actor \ {a} : ~Clears(desk[b])
         /\ Dropping <=> Now(a).do = "drop"
<1>1. \A b \in Actor \ {a} : ~Clears(desk[b])
  BY DEF Desks
<1>2. ASSUME NEW b \in Actor \ {a}, desk[b] # <<>>, desk[b][1].do = "drop" PROVE FALSE
  <2>1. 1 \in 1 .. Len(desk[b])
    BY <1>2, DeskParts
  <2>2. Clears(desk[b])
    BY <1>2, <2>1 DEF Clears
  <2>3. QED
    BY <1>1, <2>2
<1>3. Now(a) = desk[a][1]
  BY DeskParts
<1>4. QED
  BY <1>1, <1>2, <1>3 DEF Dropping

(* A call goes on to its next step, or ends. *)
LEMMA MovesOn ==
  ASSUME TypeOK, Desks, AimsKept, reg' = reg, NEW a \in Actor, desk[a] # <<>>,
         NEW d \in Seq(Step), desk' = [desk EXCEPT ![a] = d],
         \/ d = <<>>
         \/ d = Rest(a)
         \/ /\ Now(a).do = "user"
            /\ \E x \in Step : x.do = "role" /\ d = <<x>> \o Rest(a)
  PROVE  Desks' /\ (Now(a).do # "reset" \/ d = <<>> \/ d[1].do # "drop" => ~Dropping')
<1>1. /\ desk[a] \in Seq(Step) /\ Len(desk[a]) \in Nat /\ Len(desk[a]) >= 1
      /\ Now(a) = desk[a][1]
      /\ Rest(a) \in Seq(Step) /\ Len(Rest(a)) = Len(desk[a]) - 1
      /\ \A i \in 1 .. Len(desk[a]) - 1 : Rest(a)[i] = desk[a][i + 1]
      /\ \A i \in 1 .. Len(desk[a]) : desk[a][i] \in Step
  BY DeskParts
<1>2. Shaped(desk[a]) /\ \A i \in 1 .. Len(desk[a]) : Aimed(desk[a][i])
  BY DEF Desks
<1>3. \A s \in Step : Aimed(s) => Aimed(s)'
  BY AimedKept
<1>4. \A i \in 1 .. Len(d) :
         \/ d[i].do = "role"
         \/ \E j \in 1 .. Len(desk[a]) : j # 1 /\ d[i] = desk[a][j]
  <2>1. ASSUME NEW i \in 1 .. Len(Rest(a))
        PROVE  i + 1 \in 1 .. Len(desk[a]) /\ i + 1 # 1 /\ Rest(a)[i] = desk[a][i + 1]
    BY <1>1
  <2>2. CASE d = <<>>
    BY <2>2
  <2>3. CASE d = Rest(a)
    BY <2>1, <2>3
  <2>4. ASSUME NEW x \in Step, x.do = "role", d = <<x>> \o Rest(a)
        PROVE  \A i \in 1 .. Len(d) :
                  \/ d[i].do = "role"
                  \/ \E j \in 1 .. Len(desk[a]) : j # 1 /\ d[i] = desk[a][j]
    <3> SUFFICES ASSUME NEW i \in 1 .. Len(d), i # 1
                 PROVE  \E j \in 1 .. Len(desk[a]) : j # 1 /\ d[i] = desk[a][j]
      BY <1>1, <2>4, Before
    <3>1. /\ Len(d) = Len(Rest(a)) + 1 /\ Len(Rest(a)) \in Nat
          /\ \A k \in 1 .. Len(Rest(a)) : d[k + 1] = Rest(a)[k]
      BY <1>1, <2>4, Before
    <3>2. i - 1 \in 1 .. Len(Rest(a)) /\ (i - 1) + 1 = i
      BY <3>1
    <3>3. d[(i - 1) + 1] = Rest(a)[i - 1]
      BY <3>1, <3>2
    <3>4. QED
      BY <2>1, <3>2, <3>3
  <2>5. QED
    BY <2>2, <2>3, <2>4
<1>5. Shaped(d)
  <2>1. CASE d = <<>>
    BY <2>1 DEF Shaped
  <2>2. QED
    BY <1>2, <2>1, RestShaped, RoleShaped
<1>6. \A i \in 1 .. Len(d) : Aimed(d[i])'
  <2> SUFFICES ASSUME NEW i \in 1 .. Len(d) PROVE Aimed(d[i])'
    OBVIOUS
  <2>1. CASE d[i].do = "role"
    BY <2>1 DEF Aimed
  <2>2. ASSUME NEW j \in 1 .. Len(desk[a]), d[i] = desk[a][j] PROVE Aimed(d[i])'
    <3>1. d[i] \in Step /\ Aimed(d[i])
      BY <1>1, <1>2, <2>2 DEF Aimed, Unstored
    <3>2. QED
      BY <1>3, <3>1
  <2>3. QED
    BY <1>4, <2>1, <2>2
<1>7. Clears(d) => Clears(desk[a])
  BY <1>4 DEF Clears
<1>8. \A b \in Actor \ {a} : ~Clears(desk[b])
  BY Busy
<1>9. Clears(d) => Quiet' /\ \A b \in Actor \ {a} : desk[b] = <<>>
  BY <1>7 DEF Desks, Quiet
<1>10. Desks'
  BY <1>5, <1>6, <1>8, <1>9, DesksMove
<1>11. ASSUME Now(a).do # "reset" \/ d = <<>> \/ d[1].do # "drop" PROVE ~Dropping'
  <2>1. d # <<>> => d[1].do # "drop"
    <3> SUFFICES ASSUME d # <<>>, d[1].do = "drop" PROVE FALSE
      OBVIOUS
    <3>1. 1 \in 1 .. Len(d)
      OBVIOUS
    <3>2. PICK j \in 1 .. Len(desk[a]) : j # 1 /\ d[1] = desk[a][j]
      BY <1>4, <3>1
    <3>3. QED
      BY <1>1, <1>2, <1>11, <3>2 DEF Shaped
  <2>2. \A b \in Actor \ {a} : desk'[b] = desk[b] /\ ~(desk[b] # <<>> /\ desk[b][1].do = "drop")
    <3> SUFFICES ASSUME NEW b \in Actor \ {a}, desk[b] # <<>>, desk[b][1].do = "drop" PROVE FALSE
      BY DEF TypeOK
    <3>1. 1 \in 1 .. Len(desk[b])
      BY DeskParts
    <3>2. QED
      BY <1>8, <3>1 DEF Clears
  <2>3. desk'[a] = d
    BY DEF TypeOK
  <2>4. QED
    BY <2>1, <2>2, <2>3 DEF Dropping
<1>12. QED
  BY <1>10, <1>11

(* An edit leaves the address as it is, and the version no lower. *)
LEMMA EditedOK ==
  ASSUME NEW e \in Step, e.do = "user", NEW u \in UserRecord
  PROVE  /\ Edited(e, u) \in UserRecord
         /\ Edited(e, u).addr = u.addr
         /\ Edited(e, u).ver \in Nat /\ u.ver \in Nat /\ u.ver <= Edited(e, u).ver
<1>1. e.what \in What /\ e.member \in Member \cup {None}
  BY DEF Step, Who
<1>2. /\ u.ver \in Nat /\ u.warnings \in Nat
      /\ u \in [addr : DOMAIN Mailbox, role : {"investor", "fund_manager"},
                status : {"active", "warned", "disqualified"}, warnings : Nat, locked : BOOLEAN,
                ver : Nat, trader : Member \cup {None}, code : BOOLEAN]
  BY DEF UserRecord
<1> DEFINE Fine(v) == v \in UserRecord /\ v.addr = u.addr /\ (v.ver = u.ver \/ v.ver = u.ver + 1)
<1> SUFFICES Fine(Edited(e, u))
  BY <1>2
<1>0. /\ u.ver + 1 \in Nat /\ u.warnings + 1 \in Nat /\ 0 \in Nat
      /\ (IF u.warnings > 0 THEN "warned" ELSE "active") \in {"warned", "active"}
  BY <1>2
<1>3. CASE e.what = "SignOut"
  <2>1. Edited(e, u) = SignedOut(u)
    BY <1>3 DEF Edited
  <2>2. Fine(SignedOut(u))
    BY <1>0, <1>1, <1>2, ZenonT(30) DEF UserRecord, SignedOut
  <2>3. QED
    BY <2>1, <2>2
<1>4. CASE e.what = "Lock"
  <2>1. Edited(e, u) = Locks(u, TRUE)
    BY <1>4 DEF Edited
  <2>2. Fine(Locks(u, TRUE))
    BY <1>0, <1>1, <1>2, ZenonT(30) DEF UserRecord, Locks
  <2>3. QED
    BY <2>1, <2>2
<1>5. CASE e.what = "Unlock"
  <2>1. Edited(e, u) = Locks(u, FALSE)
    BY <1>5 DEF Edited
  <2>2. Fine(Locks(u, FALSE))
    BY <1>0, <1>1, <1>2, ZenonT(30) DEF UserRecord, Locks
  <2>3. QED
    BY <2>1, <2>2
<1>6. CASE e.what = "Eject"
  <2>1. Edited(e, u) = Ejected(u)
    BY <1>6 DEF Edited
  <2>2. Fine(Ejected(u))
    BY <1>0, <1>1, <1>2, ZenonT(30) DEF UserRecord, Ejected, SignedOut, Locks
  <2>3. QED
    BY <2>1, <2>2
<1>7. CASE e.what = "Readmit"
  <2>1. Edited(e, u) = Readmitted(u)
    BY <1>7 DEF Edited
  <2>2. Fine(Readmitted(u))
    BY <1>0, <1>1, <1>2, ZenonT(30) DEF UserRecord, Readmitted, Reinstated, Locks
  <2>3. QED
    BY <2>1, <2>2
<1>8. CASE e.what = "Reinstate"
  <2>1. Edited(e, u) = Reinstated(u)
    BY <1>8 DEF Edited
  <2>2. Fine(Reinstated(u))
    BY <1>0, <1>1, <1>2, ZenonT(30) DEF UserRecord, Reinstated
  <2>3. QED
    BY <2>1, <2>2
<1>9. CASE e.what = "Promote"
  <2>1. Edited(e, u) = [u EXCEPT !.role = "fund_manager"]
    BY <1>9 DEF Edited
  <2>2. Fine([u EXCEPT !.role = "fund_manager"])
    BY <1>0, <1>1, <1>2, ZenonT(30) DEF UserRecord
  <2>3. QED
    BY <2>1, <2>2
<1>10. CASE e.what = "SetRole"
  <2>1. Edited(e, u) = Moved(u)
    BY <1>10 DEF Edited
  <2>2. Fine(Moved(u))
    BY <1>0, <1>1, <1>2, ZenonT(30) DEF UserRecord, Moved
  <2>3. QED
    BY <2>1, <2>2
<1>11. CASE e.what = "Warn"
  <2>1. Edited(e, u) = Warned(u)
    BY <1>11 DEF Edited
  <2>2. Fine(Warned(u))
    BY <1>0, <1>1, <1>2, ZenonT(30) DEF UserRecord, Warned
  <2>3. QED
    BY <2>1, <2>2
<1>12. CASE e.what = "Disqualify"
  <2>1. Edited(e, u) = [u EXCEPT !.status = "disqualified"]
    BY <1>12 DEF Edited
  <2>2. Fine([u EXCEPT !.status = "disqualified"])
    BY <1>0, <1>1, <1>2, ZenonT(30) DEF UserRecord
  <2>3. QED
    BY <2>1, <2>2
<1>13. CASE e.what = "NewTeamCode"
  <2>1. Edited(e, u) = [u EXCEPT !.code = TRUE]
    BY <1>13 DEF Edited
  <2>2. Fine([u EXCEPT !.code = TRUE])
    BY <1>0, <1>1, <1>2, ZenonT(30) DEF UserRecord
  <2>3. QED
    BY <2>1, <2>2
<1>14. CASE e.what = "SetTrader"
  <2>1. Edited(e, u) = [u EXCEPT !.trader = e.member]
    BY <1>14 DEF Edited
  <2>2. Fine([u EXCEPT !.trader = e.member])
    BY <1>0, <1>1, <1>2, ZenonT(30) DEF UserRecord
  <2>3. QED
    BY <2>1, <2>2
<1>15. CASE e.what = "Clear"
  <2>1. Edited(e, u) = Cleared(u)
    BY <1>15 DEF Edited
  <2>2. Fine(Cleared(u))
    BY <1>0, <1>1, <1>2, ZenonT(30) DEF UserRecord, Cleared
  <2>3. QED
    BY <2>1, <2>2
<1>16. QED
  BY <1>1, <1>3, <1>4, <1>5, <1>6, <1>7, <1>8, <1>9, <1>10, <1>11, <1>12, <1>13, <1>14, <1>15 DEF What, OneTeam

(* A team's record is replayed: nobody else holds its address. *)
LEMMA UserReplayed ==
  ASSUME TypeOK, Match, NEW t \in Team, NEW u \in UserRecord,
         \A o \in Team \ {t} : disk.users[o] # None => disk.users[o].addr # u.addr,
         disk' = ReplayUser(t, u)
  PROVE  /\ disk' \in [users : Stores, members : Roster, revoked : SUBSET Token, loads : BOOLEAN]
         /\ disk'.members = disk.members /\ disk'.revoked = disk.revoked /\ disk'.loads
         /\ disk'.users[t] = u /\ \A o \in Team \ {t} : disk'.users[o] = disk.users[o]
<1>1. disk \in [users : Stores, members : Roster, revoked : SUBSET Token, loads : BOOLEAN]
  BY DEF TypeOK
<1>2. disk' = [disk EXCEPT !.users[t] = u, !.loads = TRUE]
  BY DEF ReplayUser, Match
<1>3. disk'.users = [disk.users EXCEPT ![t] = u]
  BY <1>1, <1>2
<1>4. disk'.users \in Stores
  BY <1>1, <1>3 DEF Stores
<1>5. /\ disk' \in [users : Stores, members : Roster, revoked : SUBSET Token, loads : BOOLEAN]
      /\ disk'.members = disk.members /\ disk'.revoked = disk.revoked /\ disk'.loads
  BY <1>1, <1>2, <1>4
<1>6. disk'.users[t] = u /\ \A o \in Team \ {t} : disk'.users[o] = disk.users[o]
  BY <1>1, <1>3 DEF Stores
<1>7. QED
  BY <1>5, <1>6

(* A step that changes only what calls have left to do. *)
LEMMA DeskStep ==
  ASSUME AppInv, UNCHANGED <<users, members, revoked, disk, tokens, reg, born>>,
         NEW a \in Actor, desk[a] # <<>>, Now(a).do \notin {"reset", "drop"},
         NEW d \in Seq(Step), desk' = [desk EXCEPT ![a] = d], d = <<>> \/ d = Rest(a)
  PROVE  AppInv'
<1> USE DEF AppInv
<1>1. TypeOK'
  BY DEF TypeOK
<1>2. Given' /\ Unshared'
  BY DEF Given, Unshared
<1>3. \A o : Unstored(o)' <=> Unstored(o)
  BY DEF Unstored
<1>4. AimsKept
  BY <1>3 DEF AimsKept
<1>5. Desks' /\ ~Dropping'
  BY <1>4, MovesOn
<1>6. ~Dropping
  BY Busy
<1>7. Match'
  BY <1>3, <1>5, <1>6 DEF Match
<1>8. Apart' /\ Roomy' /\ Stamped'
  BY <1>1, StoresStay, StampedStays
<1>9. QED
  BY <1>1, <1>2, <1>5, <1>7, <1>8

(* The calls to the hub leave the application as it is. *)
LEMMA PagesInv ==
  ASSUME AppInv, NEW a \in Actor, SetPagesRole(a) \/ Disconnect(a)
  PROVE  AppInv'
<1>1. /\ desk[a] # <<>> /\ Now(a).do \in {"role", "cut"}
      /\ UNCHANGED <<users, members, revoked, disk, tokens, reg, born>>
      /\ desk' = [desk EXCEPT ![a] = Rest(a)]
  BY DEF SetPagesRole, Disconnect, Doing
<1>2. PICK d : d = Rest(a)
  OBVIOUS
<1>3. d \in Seq(Step)
  BY <1>1, <1>2, DeskParts DEF AppInv
<1>4. QED
  BY <1>1, <1>2, <1>3, DeskStep

(* A team's record is changed, on disk first. *)
LEMMA UpdateUserInv ==
  ASSUME AppInv, NEW a \in Actor, UpdateUser(a)
  PROVE  AppInv'
<1> USE DEF AppInv
<1>e. PICK e : e = Now(a)
  OBVIOUS
<1>1. desk[a] # <<>> /\ e.do = "user"
  BY <1>e DEF UpdateUser, Doing
<1>2. e \in Step /\ Aimed(e) /\ Rest(a) \in Seq(Step)
  <2>1. 1 \in 1 .. Len(desk[a]) /\ e = desk[a][1]
    BY <1>e, <1>1, DeskParts
  <2>2. QED
    BY <1>e, <1>1, <2>1, DeskParts DEF Desks, Aimed, Unstored
<1>3. UNCHANGED <<members, revoked, tokens, reg, born>>
  BY DEF UpdateUser
<1>4. ~Dropping
  BY <1>e, <1>1, Busy
<1>5. PICK f : f = IF e.what = "Clear" THEN Rest(a) ELSE <<>>
  OBVIOUS
<1> DEFINE t == e.team
<1>6. PICK u : u = Edited(e, users[t])
  OBVIOUS
<1>7. PICK g : g = <<Role(t, u.role)>> \o Rest(a)
  OBVIOUS
<1>8. \/ users' = users /\ disk' = disk /\ desk' = [desk EXCEPT ![a] = f]
      \/ /\ t \in Teams
         /\ users' = [users EXCEPT ![t] = u] /\ disk' = ReplayUser(t, u)
         /\ desk' = [desk EXCEPT ![a] = g]
  BY <1>e, <1>5, <1>6, <1>7 DEF UpdateUser
<1>9. CASE users' = users /\ disk' = disk /\ desk' = [desk EXCEPT ![a] = f]
  <2>1. f \in Seq(Step) /\ (f = <<>> \/ f = Rest(a))
    BY <1>2, <1>5
  <2>2. QED
    BY <1>e, <1>1, <1>3, <1>9, <2>1, DeskStep
<1>10. CASE /\ t \in Teams
            /\ users' = [users EXCEPT ![t] = u] /\ disk' = ReplayUser(t, u)
            /\ desk' = [desk EXCEPT ![a] = g]
  <2>1. t \in Team /\ t \in born /\ ~Unstored(t) /\ users[t] # None /\ users[t] \in UserRecord
    BY <1>1, <1>2, <1>10 DEF Aimed, Teams, TypeOK, Stores
  <2>2. /\ u \in UserRecord /\ u # None /\ u.addr = users[t].addr
        /\ u.ver \in Nat /\ users[t].ver \in Nat /\ users[t].ver <= u.ver
    BY <1>1, <1>2, <1>6, <2>1, EditedOK, AccountsAssumption
  <2>3. /\ users' \in Stores /\ users'[t] = u
        /\ \A o \in Team \ {t} : users'[o] = users[o]
    BY <1>10, <2>1, <2>2 DEF TypeOK, Stores
  <2>4. /\ disk' \in [users : Stores, members : Roster, revoked : SUBSET Token, loads : BOOLEAN]
        /\ disk'.members = disk.members /\ disk'.revoked = disk.revoked /\ disk'.loads
        /\ disk'.users[t] = u /\ \A o \in Team \ {t} : disk'.users[o] = disk.users[o]
    <3>1. ASSUME NEW o \in Team \ {t}, disk.users[o] # None PROVE disk.users[o].addr # u.addr
      <4>1. users[o] # None /\ disk.users[o] = users[o]
        BY <1>4, <3>1 DEF Match
      <4>2. QED
        BY <2>1, <2>2, <4>1 DEF Apart
    <3>2. QED
      BY <1>10, <2>1, <2>2, <3>1, UserReplayed
  <2>5. Role(t, u.role) \in Step /\ Role(t, u.role).do = "role"
    BY <2>1, <2>2 DEF Role, Step, UserRecord
  <2>6. g \in Seq(Step)
    BY <1>2, <1>7, <2>5, Before
  <2>7. TypeOK'
    BY <1>3, <1>10, <2>3, <2>4, <2>6 DEF TypeOK
  <2>8. Given'
    BY <1>3, <2>1, <2>3, <2>4 DEF Given
  <2>9. Unshared'
    <3>1. \A n \in Newcomer : reg[n].op = "signup" => reg[n].team # t /\ reg[n].team \in Team
      BY <2>1 DEF Unstored, TypeOK, Request, Idle
    <3>2. QED
      BY <1>3, <2>3, <3>1 DEF Unshared
  <2>10. Apart'
    BY <1>3, <2>1, <2>2, <2>3, ApartStays DEF Current
  <2>11. Roomy'
    BY <1>3, RoomyStays DEF OfTeam, Current
  <2>12. \A o : Unstored(o)' <=> Unstored(o)
    BY <1>3 DEF Unstored
  <2>13. AimsKept
    BY <1>3, <2>12 DEF AimsKept
  <2>14. Desks' /\ ~Dropping'
    BY <1>e, <1>1, <1>3, <1>7, <1>10, <2>5, <2>6, <2>13, MovesOn
  <2>15. Match'
    BY <1>3, <1>4, <2>1, <2>3, <2>4, <2>12, <2>14 DEF Match
  <2>16. Stamped'
    <3>1. \A o \in Team : users[o] # None => users[o].ver \in Nat
      BY DEF TypeOK, Stores, UserRecord
    <3>2. \A o \in born \cap Team : users'[o] # None => users[o] # None /\ users[o].ver <= users'[o].ver
      BY <2>1, <2>2, <2>3, <3>1
    <3>3. \A m \in Member : members[m] # None => members[m].ver \in Nat
      BY DEF TypeOK, Roster, MemberRecord
    <3>4. \A m \in born \cap Member : members'[m] # None
              => members[m] # None /\ members[m].ver <= members'[m].ver
      BY <1>3, <3>3
    <3>5. QED
      BY <1>3, <2>7, <3>2, <3>4, StampedStays
  <2>17. QED
    BY <2>7, <2>8, <2>9, <2>10, <2>11, <2>14, <2>15, <2>16
<1>11. QED
  BY <1>8, <1>9, <1>10

(* A teammate's record is changed, on disk first. *)
LEMMA UpdateMemberInv ==
  ASSUME AppInv, NEW a \in Actor, UpdateMember(a)
  PROVE  AppInv'
<1> USE DEF AppInv
<1>e. PICK e : e = Now(a)
  OBVIOUS
<1>1. desk[a] # <<>> /\ e.do = "member"
  BY <1>e DEF UpdateMember, Doing
<1>2. e \in Step /\ Aimed(e) /\ Rest(a) \in Seq(Step)
  <2>1. 1 \in 1 .. Len(desk[a]) /\ e = desk[a][1]
    BY <1>e, <1>1, DeskParts
  <2>2. QED
    BY <1>e, <1>1, <2>1, DeskParts DEF Desks, Aimed, Unstored
<1>3. UNCHANGED <<users, revoked, tokens, reg, born>>
  BY DEF UpdateMember
<1>4. ~Dropping
  BY <1>e, <1>1, Busy
<1>5. PICK f : f = Rest(a)
  OBVIOUS
<1> DEFINE m == e.member
<1>6. PICK r : r = EditedMember(e, members[m])
  OBVIOUS
<1>7. \/ members' = members /\ disk' = disk /\ desk' = [desk EXCEPT ![a] = <<>>]
      \/ /\ members[m] # None
         /\ members' = [members EXCEPT ![m] = r] /\ disk' = ReplayMember(m, r)
         /\ desk' = [desk EXCEPT ![a] = f]
  BY <1>e, <1>5, <1>6 DEF UpdateMember
<1>8. CASE members' = members /\ disk' = disk /\ desk' = [desk EXCEPT ![a] = <<>>]
  <2>1. <<>> \in Seq(Step)
    OBVIOUS
  <2>2. QED
    BY <1>e, <1>1, <1>3, <1>8, <2>1, DeskStep
<1>9. CASE /\ members[m] # None
           /\ members' = [members EXCEPT ![m] = r] /\ disk' = ReplayMember(m, r)
           /\ desk' = [desk EXCEPT ![a] = f]
  <2>1. m \in born \cap Member /\ members[m] # None /\ members[m] \in MemberRecord
    BY <1>1, <1>2, <1>9 DEF Aimed, TypeOK, Roster
  <2>2. /\ r \in MemberRecord /\ r # None /\ r.addr = members[m].addr
        /\ r.team = members[m].team /\ (members[m].removed => r.removed)
        /\ r.ver = members[m].ver + 1 /\ members[m].ver \in Nat
    <3>0. members[m].ver \in Nat /\ members[m].ver + 1 \in Nat
      BY <2>1 DEF MemberRecord
    <3>1. r \in MemberRecord
      BY <1>6, <2>1, <3>0, ZenonT(30) DEF EditedMember, MemberRecord
    <3>2. QED
      BY <1>6, <2>1, <3>0, <3>1, AccountsAssumption DEF EditedMember, MemberRecord
  <2>3. /\ members' \in Roster /\ members'[m] = r
        /\ \A o \in Member \ {m} : members'[o] = members[o]
    BY <1>9, <2>1, <2>2 DEF TypeOK, Roster
  <2>4. /\ disk' \in [users : Stores, members : Roster, revoked : SUBSET Token, loads : BOOLEAN]
        /\ disk'.members = members' /\ disk'.users = disk.users
        /\ disk'.revoked = disk.revoked /\ disk'.loads = disk.loads
    <3>1. /\ disk \in [users : Stores, members : Roster, revoked : SUBSET Token, loads : BOOLEAN]
          /\ disk.members = members
      BY <1>4 DEF TypeOK, Match
    <3>2. disk' = [disk EXCEPT !.members[m] = r]
      BY <1>9 DEF ReplayMember
    <3>3. QED
      BY <1>9, <2>3, <3>1, <3>2
  <2>5. TypeOK'
    BY <1>2, <1>3, <1>5, <1>9, <2>3, <2>4 DEF TypeOK
  <2>6. Given'
    <3>1. \A o \in Member : members'[o] # None => o \in born
      BY <2>1, <2>3 DEF Given
    <3>2. QED
      BY <1>3, <2>4, <3>1 DEF Given
  <2>7. Unshared'
    BY <1>3 DEF Unshared
  <2>8. \A o \in Member : Current(o)' => Current(o) /\ members'[o].addr = members[o].addr
                                          /\ members'[o].team = members[o].team
    BY <2>1, <2>2, <2>3 DEF Current
  <2>9. Apart'
    BY <1>3, <2>8, ApartStays DEF TypeOK, Stores
  <2>10. Roomy'
    BY <2>8, RoomyStays DEF OfTeam
  <2>11. \A o : Unstored(o)' <=> Unstored(o)
    BY <1>3 DEF Unstored
  <2>12. AimsKept
    BY <1>3, <2>1, <2>2, <2>3, <2>11 DEF AimsKept
  <2>13. Desks' /\ ~Dropping'
    BY <1>2, <1>e, <1>1, <1>3, <1>5, <1>9, <2>12, MovesOn
  <2>14. Match'
    BY <1>3, <1>4, <2>4, <2>11, <2>13 DEF Match
  <2>15. Stamped'
    <3>1. \A o \in Team : users[o] # None => users[o].ver \in Nat
      BY DEF TypeOK, Stores, UserRecord
    <3>2. \A o \in born \cap Team : users'[o] # None => users[o] # None /\ users[o].ver <= users'[o].ver
      BY <1>3, <3>1
    <3>3. \A o \in Member : members[o] # None => members[o].ver \in Nat
      BY DEF TypeOK, Roster, MemberRecord
    <3>4. \A o \in born \cap Member : members'[o] # None
              => members[o] # None /\ members[o].ver <= members'[o].ver
      BY <2>1, <2>2, <2>3, <3>3
    <3>5. QED
      BY <1>3, <2>5, <3>2, <3>4, StampedStays
  <2>16. QED
    BY <2>5, <2>6, <2>7, <2>9, <2>10, <2>13, <2>14, <2>15
<1>10. QED
  BY <1>7, <1>8, <1>9

-----------------------------------------------------------------------------
(* Two lists of steps without a reset or a drop, one after the other. *)
LEMMA Joined ==
  ASSUME NEW p \in Seq(Step), NEW q \in Seq(Step), Shaped(p), Shaped(q),
         \A i \in 1 .. Len(p) : p[i].do \notin {"reset", "drop"},
         \A i \in 1 .. Len(q) : q[i].do \notin {"reset", "drop"}
  PROVE  /\ p \o q \in Seq(Step) /\ Shaped(p \o q)
         /\ \A i \in 1 .. Len(p \o q) :
               \/ \E j \in 1 .. Len(p) : (p \o q)[i] = p[j]
               \/ \E j \in 1 .. Len(q) : (p \o q)[i] = q[j]
<1> DEFINE r == p \o q
<1>1. /\ r \in Seq(Step) /\ Len(r) = Len(p) + Len(q) /\ Len(p) \in Nat /\ Len(q) \in Nat
      /\ \A i \in 1 .. Len(p) + Len(q) : r[i] = IF i <= Len(p) THEN p[i] ELSE q[i - Len(p)]
  BY ConcatProperties
<1> HIDE DEF r
<1>2. ASSUME NEW i \in 1 .. Len(r)
      PROVE  \/ i \in 1 .. Len(p) /\ r[i] = p[i]
             \/ /\ i - Len(p) \in 1 .. Len(q) /\ r[i] = q[i - Len(p)]
                /\ (i + 1) - Len(p) = (i - Len(p)) + 1
  BY <1>1
<1>3. ASSUME NEW i \in 1 .. Len(p) PROVE i \in 1 .. Len(r) /\ r[i] = p[i]
  BY <1>1
<1>4. ASSUME NEW i \in 1 .. Len(q) PROVE i + Len(p) \in 1 .. Len(r) /\ r[i + Len(p)] = q[i]
  BY <1>1
<1>5. ASSUME NEW i \in 1 .. Len(r)
      PROVE  \/ \E j \in 1 .. Len(p) : r[i] = p[j]
             \/ \E j \in 1 .. Len(q) : r[i] = q[j]
  BY <1>2
<1>6. Shaped(r)
  <2> SUFFICES ASSUME NEW i \in 1 .. Len(r) PROVE Shaped(r)!(i)
    BY DEF Shaped
  <2>1. r[i].do \notin {"reset", "drop"}
    BY <1>5
  <2>2. ASSUME (r[i].do = "user" /\ Cutting(r[i].what)) \/ r[i].do = "member"
        PROVE  i + 1 \in 1 .. Len(r) /\ r[i + 1] = Cut(r[i].team)
    <3>1. CASE i \in 1 .. Len(p) /\ r[i] = p[i]
      <4>1. i + 1 \in 1 .. Len(p) /\ p[i + 1] = Cut(p[i].team)
        BY <2>2, <3>1 DEF Shaped
      <4>2. QED
        BY <1>3, <3>1, <4>1
    <3>2. CASE i - Len(p) \in 1 .. Len(q) /\ r[i] = q[i - Len(p)]
      <4>1. /\ (i - Len(p)) + 1 \in 1 .. Len(q)
            /\ q[(i - Len(p)) + 1] = Cut(q[i - Len(p)].team)
        BY <2>2, <3>2 DEF Shaped
      <4>2. ((i - Len(p)) + 1) + Len(p) = i + 1
        BY <1>1
      <4>3. QED
        BY <1>4, <3>2, <4>1, <4>2
    <3>3. QED
      BY <1>2, <3>1, <3>2
  <2>3. QED
    BY <2>1, <2>2
<1>7. QED
  BY <1>1, <1>5, <1>6 DEF r

(* Steps for every team join a call that resets. *)
LEMMA Expands ==
  ASSUME TypeOK, Desks, AimsKept, reg' = reg, NEW a \in Actor, desk[a] # <<>>,
         Now(a).do \in {"drop", "clear"}, NEW p \in Seq(Step),
         \A i \in 1 .. Len(p) :
            p[i].do = "cut" \/ (p[i].do = "user" /\ p[i].what = "Clear" /\ p[i].team \in born),
         NEW d, d = Rest(a) \o p \/ d = p \o Rest(a), desk' = [desk EXCEPT ![a] = d]
  PROVE  d \in Seq(Step) /\ Desks' /\ ~Dropping'
<1>1. /\ Now(a) = desk[a][1] /\ Len(desk[a]) \in Nat /\ Len(desk[a]) >= 1
      /\ Rest(a) \in Seq(Step) /\ Len(Rest(a)) = Len(desk[a]) - 1
      /\ \A i \in 1 .. Len(desk[a]) - 1 : Rest(a)[i] = desk[a][i + 1]
      /\ \A i \in 1 .. Len(desk[a]) : desk[a][i] \in Step
  BY DeskParts
<1>2. /\ Shaped(desk[a]) /\ \A i \in 1 .. Len(desk[a]) : Aimed(desk[a][i])
      /\ Shaped(Rest(a))
  BY RestShaped DEF Desks
<1>3. ASSUME NEW i \in 1 .. Len(Rest(a))
      PROVE  /\ Rest(a)[i].do \notin {"reset", "drop"}
             /\ Rest(a)[i] \in Step /\ Aimed(Rest(a)[i])
  <2>1. i + 1 \in 1 .. Len(desk[a]) /\ i + 1 # 1 /\ Rest(a)[i] = desk[a][i + 1]
    BY <1>1
  <2>2. desk[a][i + 1].do \notin {"reset", "drop"}
    BY <1>1, <1>2, <2>1 DEF Shaped
  <2>3. QED
    BY <1>1, <1>2, <2>1, <2>2 DEF Aimed, Unstored
<1>4. Shaped(p)
  BY DEF Shaped, Cutting
<1>5. /\ d \in Seq(Step) /\ Shaped(d)
      /\ \A i \in 1 .. Len(d) : \/ \E j \in 1 .. Len(p) : d[i] = p[j]
                                \/ \E j \in 1 .. Len(Rest(a)) : d[i] = Rest(a)[j]
  <2> DEFINE e == Rest(a)
  <2>1. e \in Seq(Step) /\ Shaped(e) /\ \A i \in 1 .. Len(e) : e[i].do \notin {"reset", "drop"}
    BY <1>1, <1>2, <1>3
  <2>2. d = e \o p \/ d = p \o e
    OBVIOUS
  <2>3. \A i \in 1 .. Len(p) : p[i].do \notin {"reset", "drop"}
    OBVIOUS
  <2> HIDE DEF e
  <2>4. CASE d = e \o p
    <3>1. /\ e \o p \in Seq(Step) /\ Shaped(e \o p)
          /\ \A i \in 1 .. Len(e \o p) : \/ \E j \in 1 .. Len(e) : (e \o p)[i] = e[j]
                                         \/ \E j \in 1 .. Len(p) : (e \o p)[i] = p[j]
      BY <1>4, <2>1, <2>3, Joined
    <3>2. QED
      BY <2>4, <3>1 DEF e
  <2>5. CASE d = p \o e
    <3>1. /\ p \o e \in Seq(Step) /\ Shaped(p \o e)
          /\ \A i \in 1 .. Len(p \o e) : \/ \E j \in 1 .. Len(p) : (p \o e)[i] = p[j]
                                         \/ \E j \in 1 .. Len(e) : (p \o e)[i] = e[j]
      BY <1>4, <2>1, <2>3, Joined
    <3>2. QED
      BY <2>5, <3>1 DEF e
  <2>6. QED
    BY <2>2, <2>4, <2>5
<1>6. Clears(desk[a])
  <2>1. 1 \in 1 .. Len(desk[a])
    BY <1>1
  <2>2. QED
    BY <1>1, <2>1 DEF Clears
<1>7. Quiet /\ Quiet' /\ \A b \in Actor \ {a} : desk[b] = <<>>
  BY <1>6 DEF Desks, Quiet
<1>8. \A o : ~Unstored(o)'
  BY <1>7 DEF Quiet, Unstored, Idle
<1>9. \A s \in Step : Aimed(s) => Aimed(s)'
  BY AimedKept
<1>10. \A i \in 1 .. Len(d) : Aimed(d[i])'
  <2> SUFFICES ASSUME NEW i \in 1 .. Len(d) PROVE Aimed(d[i])'
    OBVIOUS
  <2>1. ASSUME NEW j \in 1 .. Len(p), d[i] = p[j] PROVE Aimed(d[i])'
    BY <1>8, <2>1 DEF Aimed, AimsKept, Unstored
  <2>2. ASSUME NEW j \in 1 .. Len(Rest(a)), d[i] = Rest(a)[j] PROVE Aimed(d[i])'
    <3>1. d[i] \in Step /\ Aimed(d[i])
      BY <1>3, <2>2 DEF Aimed, Unstored
    <3>2. QED
      BY <1>9, <3>1
  <2>3. QED
    BY <1>5, <2>1, <2>2
<1>11. Desks'
  <2>1. \A b \in Actor \ {a} : ~Clears(desk[b])
    BY <1>7 DEF Clears
  <2>2. QED
    BY <1>5, <1>7, <1>10, <2>1, DesksMove
<1>12. ~Dropping'
  <2>1. desk'[a] = d /\ \A b \in Actor \ {a} : desk'[b] = <<>>
    BY <1>7 DEF TypeOK
  <2>2. \A i \in 1 .. Len(d) : d[i].do # "drop"
    BY <1>3, <1>5
  <2>3. d # <<>> => 1 \in 1 .. Len(d)
    BY <1>5
  <2>4. QED
    BY <2>1, <2>2, <2>3 DEF Dropping
<1>13. QED
  BY <1>5, <1>11, <1>12

(* Every team that is left is to be cleared, one by one. *)
LEMMA ClearTeamsInv ==
  ASSUME AppInv, NEW a \in Actor, ClearTeams(a)
  PROVE  AppInv'
<1> USE DEF AppInv
<1>1. /\ desk[a] # <<>> /\ Now(a).do = "clear"
      /\ UNCHANGED <<users, members, revoked, disk, tokens, reg, born>>
  BY DEF ClearTeams, Doing
<1> DEFINE does == [t \in Team |-> Edit("Clear", t, None)]
<1>2. PICK p : p = EachTeam(does)
  OBVIOUS
<1>3. PICK d : d = p \o Rest(a)
  OBVIOUS
<1>4. does \in [Team -> Step]
  BY DEF Edit, Step, What, Who
<1>5. \A t \in Team : does[t].do = "user" /\ does[t].what = "Clear" /\ does[t].team = t
  BY DEF Edit
<1>6. desk' = [desk EXCEPT ![a] = d]
  BY <1>2, <1>3 DEF ClearTeams
<1> HIDE DEF does
<1>7. /\ p \in Seq(Step)
      /\ \A i \in 1 .. Len(p) : \E t \in Teams : p[i] = does[t]
  BY <1>2, <1>4, ForEachTeam
<1>8. \A i \in 1 .. Len(p) : p[i].do = "user" /\ p[i].what = "Clear" /\ p[i].team \in born
  BY <1>5, <1>7 DEF Teams, Given
<1>9. \A o : Unstored(o)' <=> Unstored(o)
  BY <1>1 DEF Unstored
<1>10. AimsKept
  BY <1>1, <1>9 DEF AimsKept
<1>11. d \in Seq(Step) /\ Desks' /\ ~Dropping'
  BY <1>1, <1>3, <1>6, <1>7, <1>8, <1>10, Expands
<1>12. TypeOK'
  BY <1>1, <1>6, <1>11 DEF TypeOK
<1>13. Given' /\ Unshared'
  BY <1>1 DEF Given, Unshared
<1>14. ~Dropping
  BY <1>1, Busy
<1>15. Match'
  BY <1>1, <1>9, <1>11, <1>14 DEF Match
<1>16. Apart' /\ Roomy' /\ Stamped'
  BY <1>1, <1>12, StoresStay, StampedStays
<1>17. QED
  BY <1>11, <1>12, <1>13, <1>15, <1>16

(* The teams of a fresh start are dropped, and their pages are to be cut. *)
LEMMA DropTeamsInv ==
  ASSUME AppInv, NEW a \in Actor, DropTeams(a)
  PROVE  AppInv'
<1> USE DEF AppInv
<1>1. /\ desk[a] # <<>> /\ Now(a).do = "drop"
      /\ UNCHANGED <<revoked, disk, tokens, reg, born>>
      /\ users' = [t \in Team |-> None] /\ members' = [m \in Member |-> None]
  BY DEF DropTeams, Doing, RemoveTeams
<1> DEFINE does == [t \in Team |-> Cut(t)]
<1>2. PICK p : p = EachTeam(does)
  OBVIOUS
<1>3. PICK d : d = Rest(a) \o p
  OBVIOUS
<1>4. does \in [Team -> Step]
  BY DEF Cut, Step
<1>5. \A t \in Team : does[t].do = "cut"
  BY DEF Cut
<1>6. desk' = [desk EXCEPT ![a] = d]
  BY <1>2, <1>3 DEF DropTeams
<1> HIDE DEF does
<1>7. /\ p \in Seq(Step)
      /\ \A i \in 1 .. Len(p) : \E t \in Teams : p[i] = does[t]
  BY <1>2, <1>4, ForEachTeam
<1>8. \A i \in 1 .. Len(p) : p[i].do = "cut"
  BY <1>5, <1>7 DEF Teams
<1>9. \A o : Unstored(o)' <=> Unstored(o)
  BY <1>1 DEF Unstored
<1>10. AimsKept
  BY <1>1, <1>9 DEF AimsKept
<1>11. d \in Seq(Step) /\ Desks' /\ ~Dropping'
  BY <1>1, <1>3, <1>6, <1>7, <1>8, <1>10, Expands
<1>12. TypeOK'
  BY <1>1, <1>6, <1>11 DEF TypeOK, Stores, Roster
<1>13. Given'
  BY <1>1 DEF Given
<1>14. Dropping
  BY <1>1, Busy
<1>15. /\ \A t \in Team : disk.users[t] = None
       /\ disk.members = members'
  <2>1. \A m \in Member : disk.members[m] = None
    BY <1>14 DEF Match
  <2>2. disk.members \in Roster
    BY DEF TypeOK
  <2>3. disk.members = [m \in Member |-> None]
    BY <2>1, <2>2 DEF Roster
  <2>4. QED
    BY <1>1, <1>14, <2>3 DEF Match
<1>16. Match'
  BY <1>1, <1>11, <1>15 DEF Match
<1>17. Unshared'
  <2>1. 1 \in 1 .. Len(desk[a]) /\ Now(a) = desk[a][1]
    BY <1>1, DeskParts
  <2>2. Clears(desk[a])
    BY <1>1, <2>1 DEF Clears
  <2>3. Quiet
    BY <2>2 DEF Desks
  <2>4. QED
    BY <1>1, <2>3 DEF Unshared, Quiet, Idle
<1>18. \A m \in Member : ~Current(m)'
  BY <1>1 DEF Current
<1>19. Apart' /\ Roomy' /\ Stamped'
  <2>1. Apart'
    BY <1>1, <1>18 DEF Apart
  <2>2. Roomy'
    BY <1>18, RoomyStays DEF OfTeam
  <2>3. Stamped'
    BY <1>1, <1>12, StampedStays
  <2>4. QED
    BY <2>1, <2>2, <2>3
<1>20. QED
  BY <1>11, <1>12, <1>13, <1>16, <1>17, <1>19

(* The reset is recorded; a fresh start drops all teams from what a       *)
(* restart would find, and next from the stores.                           *)
LEMMA ResetRecordInv ==
  ASSUME AppInv, NEW a \in Actor, ResetRecord(a)
  PROVE  AppInv'
<1> USE DEF AppInv
<1>e. PICK e : e = Now(a)
  OBVIOUS
<1>1. /\ desk[a] # <<>> /\ e.do = "reset"
      /\ UNCHANGED <<users, members, revoked, tokens, reg, born>>
  BY <1>e DEF ResetRecord, Doing
<1>2. /\ e = desk[a][1] /\ e \in Step /\ Len(desk[a]) \in Nat /\ Len(desk[a]) >= 1
      /\ Rest(a) \in Seq(Step) /\ Len(Rest(a)) = Len(desk[a]) - 1
      /\ \A i \in 1 .. Len(desk[a]) - 1 : Rest(a)[i] = desk[a][i + 1]
  BY <1>e, <1>1, DeskParts
<1>3. e.fresh \in BOOLEAN
  BY <1>1, <1>2 DEF Step
<1>4. PICK d : \/ d = <<>> /\ disk' = disk
               \/ d = Rest(a) /\ disk' = ReplayReset(e.fresh)
      /\ desk' = [desk EXCEPT ![a] = d]
  BY <1>e DEF ResetRecord
<1>5. d \in Seq(Step) /\ (d = <<>> \/ d = Rest(a)) /\ desk' = [desk EXCEPT ![a] = d]
  <2>1. <<>> \in Seq(Step)
    OBVIOUS
  <2>2. QED
    BY <1>2, <1>4, <2>1
<1>6. \A o : Unstored(o)' <=> Unstored(o)
  BY <1>1 DEF Unstored
<1>7. AimsKept
  BY <1>1, <1>6 DEF AimsKept
<1>8. Desks' /\ (d = <<>> \/ d[1].do # "drop" => ~Dropping')
  BY <1>e, <1>1, <1>5, <1>7, MovesOn
<1>9. ~Dropping
  BY <1>e, <1>1, Busy
<1>10. Shaped(desk[a]) /\ 1 \in 1 .. Len(desk[a])
  BY <1>2 DEF Desks
<1>11. /\ disk' \in [users : Stores, members : Roster, revoked : SUBSET Token, loads : BOOLEAN]
       /\ disk'.revoked = disk.revoked /\ disk'.loads = disk.loads
       /\ \/ disk' = disk
          \/ /\ \A t \in Team : disk'.users[t] = None
             /\ \A m \in Member : disk'.members[m] = None
  <2> DEFINE gone == [disk EXCEPT !.users = [t \in Team |-> None],
                                   !.members = [m \in Member |-> None]]
  <2>1. disk' = disk \/ disk' = gone
    BY <1>4, Zenon DEF ReplayReset
  <2>2. disk \in [users : Stores, members : Roster, revoked : SUBSET Token, loads : BOOLEAN]
    BY DEF TypeOK
  <2>3. [t \in Team |-> None] \in Stores /\ [m \in Member |-> None] \in Roster
    BY DEF Stores, Roster
  <2>4. gone \in [users : Stores, members : Roster, revoked : SUBSET Token, loads : BOOLEAN]
    BY <2>2, <2>3, Zenon
  <2>5. gone.revoked = disk.revoked /\ gone.loads = disk.loads
    BY <2>2, Zenon
  <2>6. /\ gone.users = [t \in Team |-> None]
        /\ gone.members = [m \in Member |-> None]
    BY <2>2, Zenon
  <2> HIDE DEF gone
  <2>7. QED
    BY <2>1, <2>2, <2>4, <2>5, <2>6
<1>12. TypeOK'
  BY <1>1, <1>5, <1>11 DEF TypeOK
<1>13. Given' /\ Unshared'
  BY <1>1, <1>11 DEF Given, Unshared
<1>14. Match'
  <2>1. CASE d = <<>> \/ ~e.fresh
    <3>1. disk' = disk
      <4>1. d = Rest(a) /\ disk' = ReplayReset(e.fresh) /\ ~e.fresh => disk' = disk
        BY DEF ReplayReset
      <4>2. d = <<>> /\ disk' # disk => e.fresh
        BY <1>3, <1>4 DEF ReplayReset
      <4>3. d = <<>> /\ e.fresh => disk' = disk
        <5>1. e.fresh => Len(Rest(a)) >= 1
          BY <1>1, <1>2, <1>10 DEF Shaped
        <5>2. e.fresh => Rest(a) # <<>>
          BY <1>2, <5>1
        <5>3. QED
          BY <1>4, <5>2
      <4>4. QED
        BY <1>3, <1>4, <2>1, <4>1, <4>2, <4>3
    <3>2. d # <<>> => d[1].do # "drop"
      <4> SUFFICES ASSUME d # <<>>, d[1].do = "drop" PROVE FALSE
        OBVIOUS
      <4>1. d = Rest(a) /\ 1 \in 1 .. Len(Rest(a))
        BY <1>2, <1>5
      <4>2. 2 \in 1 .. Len(desk[a]) /\ desk[a][2].do = "drop"
        BY <1>2, <4>1
      <4>3. desk[a][1].fresh
        BY <1>10, <4>2 DEF Shaped
      <4>4. QED
        BY <1>2, <2>1, <4>3
    <3>3. QED
      BY <1>1, <1>6, <1>8, <1>9, <3>1, <3>2 DEF Match
  <2>2. CASE d # <<>> /\ e.fresh
    <3>1. d = Rest(a) /\ disk' = ReplayReset(TRUE)
      BY <1>3, <1>4, <2>2
    <3>2. Len(desk[a]) > 1 /\ desk[a][2].do = "drop"
      BY <1>1, <1>2, <1>10, <2>2 DEF Shaped
    <3>3. d[1].do = "drop" /\ desk'[a] = d
      <4>1. 1 \in 1 .. Len(desk[a]) - 1 /\ 1 + 1 = 2
        BY <1>2, <3>2
      <4>2. d[1] = desk[a][2]
        BY <1>2, <3>1, <4>1
      <4>3. desk'[a] = d
        BY <1>5 DEF TypeOK
      <4>4. QED
        BY <3>2, <4>2, <4>3
    <3>4. Dropping'
      BY <2>2, <3>3 DEF Dropping
    <3>5. /\ \A t \in Team : disk'.users[t] = None
          /\ \A m \in Member : disk'.members[m] = None
      BY <3>1 DEF ReplayReset, TypeOK
    <3>6. QED
      BY <1>1, <1>11, <3>4, <3>5 DEF Match
  <2>3. QED
    BY <2>1, <2>2
<1>15. Apart' /\ Roomy' /\ Stamped'
  BY <1>1, <1>12, StoresStay, StampedStays
<1>16. QED
  BY <1>8, <1>12, <1>13, <1>14, <1>15

(* A kill leaves what the disk has: no more than there was. *)
LEMMA KillInv ==
  ASSUME AppInv, Kill
  PROVE  AppInv'
<1> USE DEF AppInv
<1>1. /\ users' = disk.users /\ members' = disk.members /\ revoked' = disk.revoked
      /\ reg' = [n \in Newcomer |-> Idle] /\ desk' = [a \in Actor |-> <<>>]
      /\ disk' = disk /\ tokens' = tokens /\ born' = born
  BY DEF Kill
<1>2. TypeOK'
  <2>1. /\ disk.users \in Stores /\ disk.members \in Roster /\ disk.revoked \in SUBSET Token
        /\ <<>> \in Seq(Step) /\ Idle \in Request
    BY DEF TypeOK, Request
  <2>2. QED
    BY <1>1, <2>1 DEF TypeOK
<1>3. Given' /\ Unshared'
  BY <1>1 DEF Given, Unshared, Idle
<1>4. \A o : ~Unstored(o)'
  BY <1>1 DEF Unstored, Idle
<1>5. ~Dropping'
  BY <1>1 DEF Dropping
<1>6. Match'
  BY <1>1, <1>4, <1>5 DEF Match
<1>7. Desks'
  BY <1>1 DEF Desks, Shaped, Clears
<1>8. /\ \A t \in Team : users'[t] # None => users[t] # None /\ users'[t] = users[t]
      /\ \A m \in Member : members'[m] # None => members[m] # None /\ members'[m] = members[m]
  BY <1>1 DEF Match
<1>9. \A m \in Member : Current(m)' => Current(m) /\ members'[m] = members[m]
  BY <1>8 DEF Current
<1>10. Apart'
  BY <1>8, <1>9, ApartStays
<1>11. Roomy'
  BY <1>9, RoomyStays DEF OfTeam
<1>12. Stamped'
  <2>1. \A t \in Team : users[t] # None => users[t].ver \in Nat
    BY DEF TypeOK, Stores, UserRecord
  <2>2. \A m \in Member : members[m] # None => members[m].ver \in Nat
    BY DEF TypeOK, Roster, MemberRecord
  <2>3. /\ \A t \in born \cap Team : users'[t] # None => users[t] # None /\ users[t].ver <= users'[t].ver
        /\ \A m \in born \cap Member : members'[m] # None
              => members[m] # None /\ members[m].ver <= members'[m].ver
    BY <1>8, <2>1, <2>2
  <2>4. QED
    BY <1>1, <1>2, <2>3, StampedStays
<1>13. QED
  BY <1>2, <1>3, <1>6, <1>7, <1>10, <1>11, <1>12

-----------------------------------------------------------------------------
(* At the start there are no accounts. *)
LEMMA InitApp == Init => AppInv
<1> SUFFICES ASSUME Init PROVE AppInv
  OBVIOUS
<1>1. /\ users = [t \in Team |-> IF t \in DOMAIN Founder
                                 THEN [User(Founder[t]) EXCEPT !.code = TRUE] ELSE None]
      /\ members = [m \in Member |-> None] /\ revoked = {}
      /\ disk = [users |-> users, members |-> members, revoked |-> {}, loads |-> TRUE]
      /\ tokens = [k \in Token |-> None] /\ reg = [n \in Newcomer |-> Idle]
      /\ desk = [a \in Actor |-> <<>>] /\ born = DOMAIN Founder
  BY DEF Init
<1>2. \A t \in DOMAIN Founder : Founder[t] \in DOMAIN Mailbox /\ t \in Team
  BY AccountsAssumption
<1>3. \A t \in DOMAIN Founder :
         /\ [User(Founder[t]) EXCEPT !.code = TRUE] \in UserRecord
         /\ [User(Founder[t]) EXCEPT !.code = TRUE].addr = Founder[t]
         /\ [User(Founder[t]) EXCEPT !.code = TRUE] # None
  <2> SUFFICES ASSUME NEW t \in DOMAIN Founder
               PROVE  /\ [User(Founder[t]) EXCEPT !.code = TRUE] \in UserRecord
                      /\ [User(Founder[t]) EXCEPT !.code = TRUE].addr = Founder[t]
                      /\ [User(Founder[t]) EXCEPT !.code = TRUE] # None
    OBVIOUS
  <2> DEFINE u == User(Founder[t])
             v == [u EXCEPT !.code = TRUE]
  <2>1. u \in UserRecord /\ u.addr = Founder[t]
    BY <1>2, UserMade
  <2> HIDE DEF u
  <2>2. v \in UserRecord
    BY <2>1, ZenonT(30) DEF UserRecord
  <2>3. v.addr = Founder[t]
    BY <2>1 DEF UserRecord
  <2>4. v # None
    BY <2>2, AccountsAssumption
  <2>5. QED
    BY <2>2, <2>3, <2>4 DEF u
<1>4. /\ users \in Stores
      /\ \A t \in Team : users[t] # None => t \in DOMAIN Founder /\ users[t].addr = Founder[t]
  BY <1>1, <1>3 DEF Stores
<1>5. members \in Roster /\ \A m \in Member : ~Current(m)
  BY <1>1 DEF Roster, Current
<1>6. /\ disk \in [users : Stores, members : Roster, revoked : SUBSET Token, loads : BOOLEAN]
      /\ disk.users = users /\ disk.members = members /\ disk.revoked = {} /\ disk.loads
  BY <1>1, <1>4, <1>5
<1>7. TypeOK
  <2>1. <<>> \in Seq(Step) /\ Idle \in Request
    BY DEF Request
  <2>2. born \in SUBSET (Team \cup Member)
    BY <1>1, <1>2
  <2>3. QED
    BY <1>1, <1>4, <1>5, <1>6, <2>1, <2>2 DEF TypeOK
<1>8. Given
  BY <1>1, <1>4, <1>6, AccountsAssumption DEF Given
<1>9. Unshared /\ \A o : ~Unstored(o)
  BY <1>1 DEF Unshared, Unstored, Idle
<1>10. Apart
  BY <1>4, <1>5, AccountsAssumption DEF Apart
<1>11. Roomy
  <2> SUFFICES ASSUME NEW t \in Team PROVE Cardinality(OfTeam(t)) < TeamSize
    BY DEF Roomy
  <2>1. OfTeam(t) = {}
    BY <1>5 DEF OfTeam
  <2>2. Cardinality(OfTeam(t)) = 0
    BY <2>1, FS_EmptySet
  <2>3. QED
    BY <2>2, AccountsAssumption
<1>12. Match
  BY <1>1, <1>6, <1>9 DEF Match, Dropping
<1>13. Desks
  BY <1>1 DEF Desks, Shaped, Clears
<1>14. Stamped
  BY <1>1 DEF Stamped
<1>15. QED
  BY <1>7, <1>8, <1>9, <1>10, <1>11, <1>12, <1>13, <1>14 DEF AppInv

(* As long as calls leave sign-ups under way alone. *)
LEMMA NextApp == ~Overtake /\ AppInv /\ [Next]_vars => AppInv'
<1> SUFFICES ASSUME ~Overtake, AppInv, [Next]_vars PROVE AppInv'
  OBVIOUS
<1>1. ASSUME NEW n \in Newcomer, NEW addr \in Address,
             Reserve(n, addr) \/ \E t \in Team : Find(n, t, addr)
      PROVE  AppInv'
  BY <1>1, ReserveInv, FindInv
<1>2. ASSUME NEW n \in Newcomer, Store(n) \/ Join(n) PROVE AppInv'
  BY <1>2, StoreInv, JoinInv
<1>3. ASSUME NEW k \in Token, SignOutToken(k) PROVE AppInv'
  BY <1>3, SignOutTokenInv
<1>4. ASSUME NEW k \in Token, NEW t \in Team, NEW m \in Member \cup {None}, SignIn(k, t, m)
      PROVE  AppInv'
  BY <1>4, SignInInv DEF Who
<1>5. ASSUME NEW k \in Token, NEW c \in Socket, Connect(c, k) PROVE AppInv'
  <2>1. UNCHANGED <<users, members, revoked, disk, tokens, reg, desk, born>>
    BY <1>5 DEF Connect
  <2>2. QED
    BY <2>1, AppStays
<1>6. ASSUME NEW c \in Socket, Page(c) PROVE AppInv'
  <2>1. UNCHANGED <<users, members, revoked, disk, tokens, reg, desk, born>>
    BY <1>6 DEF Page, appVars
  <2>2. QED
    BY <2>1, AppStays
<1>7. ASSUME NEW a \in Actor, NEW what \in Call, NEW t \in Team, NEW m \in Member \cup {None},
             Begin(a, what, t, m)
      PROVE  AppInv'
  BY <1>7, BeginInv DEF Who
<1>8. ASSUME NEW a \in Actor,
             \/ UpdateUser(a) \/ UpdateMember(a) \/ SetPagesRole(a) \/ Disconnect(a)
             \/ ResetRecord(a) \/ DropTeams(a) \/ ClearTeams(a)
      PROVE  AppInv'
  BY <1>8, UpdateUserInv, UpdateMemberInv, PagesInv, ResetRecordInv, DropTeamsInv, ClearTeamsInv
<1>9. CASE Kill
  BY <1>9, KillInv
<1>10. CASE UNCHANGED vars
  <2>1. UNCHANGED <<users, members, revoked, disk, tokens, reg, desk, born>>
    BY <1>10 DEF vars, appVars
  <2>2. QED
    BY <2>1, AppStays
<1>11. QED
  BY <1>1, <1>2, <1>3, <1>4, <1>5, <1>6, <1>7, <1>8, <1>9, <1>10 DEF Next

-----------------------------------------------------------------------------
(* What no step takes back: ids and sign-ins given, sign-ins cancelled,    *)
(* the versions of the records, teams and teammates that are gone.         *)
Onward ==
    /\ born \subseteq born' /\ revoked \subseteq revoked'
    /\ \A k \in Token : tokens[k] # None => tokens'[k] = tokens[k]
    /\ \A t \in born \cap Team : users'[t] # None
          => users[t] # None /\ users[t].ver <= users'[t].ver
    /\ \A m \in born \cap Member : members'[m] # None
          => members[m] # None /\ members[m].ver <= members'[m].ver /\ (Current(m)' => Current(m))

(* The versions of the records are numbers. *)
LEMMA Versions ==
  ASSUME TypeOK
  PROVE  /\ \A t \in Team : users[t] # None => users[t] \in UserRecord /\ users[t].ver \in Nat
         /\ \A m \in Member : members[m] # None
               => members[m] \in MemberRecord /\ members[m].ver \in Nat
BY DEF TypeOK, Stores, Roster, UserRecord, MemberRecord

(* A step that leaves the records takes no version back. *)
LEMMA OnwardStays ==
  ASSUME TypeOK, UNCHANGED <<users, members, tokens>>, born \subseteq born', revoked \subseteq revoked'
  PROVE  Onward
BY Versions DEF Onward, Current

(* Nor does one that takes a team's version on ... *)
LEMMA OnwardUsers ==
  ASSUME TypeOK, UNCHANGED <<members, tokens, revoked>>, born \subseteq born',
         NEW t \in Team, \A o \in Team \ {t} : users'[o] = users[o],
         t \in born /\ users'[t] # None => users[t] # None /\ users[t].ver <= users'[t].ver
  PROVE  Onward
BY Versions DEF Onward, Current

(* ... or a member's. *)
LEMMA OnwardMembers ==
  ASSUME TypeOK, UNCHANGED <<users, tokens, revoked>>, born \subseteq born',
         NEW m \in Member, \A o \in Member \ {m} : members'[o] = members[o],
         m \in born /\ members'[m] # None
            => members[m] # None /\ members[m].ver <= members'[m].ver /\ (Current(m)' => Current(m))
  PROVE  Onward
<1>1. \A o \in Member \ {m} : Current(o)' <=> Current(o)
  BY DEF Current
<1>2. QED
  BY <1>1, Versions DEF Onward

(* No step takes a version back. *)
LEMMA NextOnward == AppInv /\ [Next]_vars => Onward
<1> SUFFICES ASSUME AppInv, [Next]_vars PROVE Onward
  OBVIOUS
<1> USE DEF AppInv
<1>1. ASSUME NEW n \in Newcomer, NEW addr \in Address, Reserve(n, addr) PROVE Onward
  <2>1. PICK t \in Fresh(Team) : users' = [users EXCEPT ![t] = User(addr)] /\ born' = born \cup {t}
    BY <1>1 DEF Reserve
  <2>2. t \in Team /\ t \notin born
    BY FreshIds
  <2>3. \A o \in Team \ {t} : users'[o] = users[o]
    BY <2>1 DEF TypeOK, Stores
  <2>4. UNCHANGED <<members, tokens, revoked>>
    BY <1>1 DEF Reserve
  <2>5. QED
    BY <2>1, <2>2, <2>3, <2>4, OnwardUsers
<1>2. ASSUME NEW n \in Newcomer, Store(n) PROVE Onward
  <2>1. reg[n].op = "signup" /\ UNCHANGED <<members, tokens, revoked, born>>
    BY <1>2 DEF Store
  <2>2. reg[n].team \in Team
    BY <2>1 DEF TypeOK, Request, Idle
  <2>3. users' = users \/ users' = [users EXCEPT ![reg[n].team] = None]
    BY <1>2 DEF Store, TakenOut
  <2>4. /\ \A o \in Team \ {reg[n].team} : users'[o] = users[o]
        /\ users'[reg[n].team] = users[reg[n].team] \/ users'[reg[n].team] = None
    BY <2>2, <2>3 DEF TypeOK, Stores
  <2>5. QED
    BY <2>1, <2>2, <2>4, OnwardUsers, Versions
<1>3. ASSUME NEW n \in Newcomer, Join(n) PROVE Onward
  <2>1. UNCHANGED <<users, tokens, revoked>>
    BY <1>3 DEF Join
  <2>2. CASE members' = members /\ born' = born
    BY <2>1, <2>2, OnwardStays
  <2>3. CASE ~(members' = members /\ born' = born)
    <3>1. PICK m \in Fresh(Member) : \E r : members' = [members EXCEPT ![m] = r] /\ born' = born \cup {m}
      BY <1>3, <2>3 DEF Join
    <3>2. m \in Member /\ m \notin born
      BY FreshIds
    <3>3. \A o \in Member \ {m} : members'[o] = members[o]
      BY <3>1 DEF TypeOK, Roster
    <3>4. QED
      BY <2>1, <3>1, <3>2, <3>3, OnwardMembers
  <2>4. QED
    BY <2>2, <2>3
<1>4. ASSUME NEW k \in Token, NEW t \in Team, NEW m \in Member \cup {None}, SignIn(k, t, m)
      PROVE  Onward
  <2>1. /\ UNCHANGED <<users, members, revoked, born>>
        /\ \A o \in Token : tokens[o] # None => tokens'[o] = tokens[o]
    BY <1>4 DEF SignIn, TypeOK
  <2>2. QED
    BY <2>1, Versions DEF Onward, Current
<1>5. ASSUME NEW a \in Actor, UpdateUser(a) PROVE Onward
  <2> DEFINE t == Now(a).team
  <2>1. desk[a] # <<>> /\ Now(a).do = "user" /\ UNCHANGED <<members, tokens, revoked, born>>
    BY <1>5 DEF UpdateUser, Doing
  <2>2. Now(a) \in Step
    BY <2>1, DeskParts
  <2>3. users' = users \/ (users' = [users EXCEPT ![t] = Edited(Now(a), users[t])] /\ t \in Teams)
    BY <1>5 DEF UpdateUser
  <2>4. CASE users' = users
    BY <2>1, <2>4, OnwardStays
  <2>5. CASE users' = [users EXCEPT ![t] = Edited(Now(a), users[t])] /\ t \in Teams
    <3>1. t \in Team /\ users[t] # None /\ users[t] \in UserRecord
      BY <2>5, Versions DEF Teams
    <3>2. users[t].ver <= Edited(Now(a), users[t]).ver
      BY <2>1, <2>2, <3>1, EditedOK
    <3>3. /\ \A o \in Team \ {t} : users'[o] = users[o]
          /\ users'[t] = Edited(Now(a), users[t])
      BY <2>5, <3>1 DEF TypeOK, Stores
    <3>4. QED
      BY <2>1, <3>1, <3>2, <3>3, OnwardUsers
  <2>6. QED
    BY <2>3, <2>4, <2>5
<1>6. ASSUME NEW a \in Actor, UpdateMember(a) PROVE Onward
  <2>m. PICK m : m = Now(a).member
    OBVIOUS
  <2>1. desk[a] # <<>> /\ Now(a).do = "member" /\ UNCHANGED <<users, tokens, revoked, born>>
    BY <1>6 DEF UpdateMember, Doing
  <2>2. \/ members' = members
        \/ members' = [members EXCEPT ![m] = EditedMember(Now(a), members[m])] /\ members[m] # None
    BY <1>6, <2>m DEF UpdateMember
  <2>3. CASE members' = members
    BY <2>1, <2>3, OnwardStays
  <2>4. CASE members' = [members EXCEPT ![m] = EditedMember(Now(a), members[m])] /\ members[m] # None
    <3>1. m \in Member
      <4>1. 1 \in 1 .. Len(desk[a]) /\ Now(a) = desk[a][1]
        BY <2>1, DeskParts
      <4>2. Aimed(desk[a][1])
        BY <4>1 DEF Desks
      <4>3. QED
        BY <2>m, <2>1, <4>1, <4>2 DEF Aimed
    <3>2. members[m] \in MemberRecord /\ members[m].ver \in Nat
      BY <2>4, <3>1, Versions
    <3>3. PICK r : r = EditedMember(Now(a), members[m])
      OBVIOUS
    <3>4. r.ver = members[m].ver + 1 /\ (members[m].removed => r.removed)
      BY <3>2, <3>3 DEF EditedMember, MemberRecord
    <3>5. /\ \A o \in Member \ {m} : members'[o] = members[o]
          /\ members'[m] = r
      BY <2>4, <3>1, <3>3 DEF TypeOK, Roster
    <3>6. members[m].ver <= members'[m].ver /\ (Current(m)' => Current(m))
      BY <2>4, <3>2, <3>4, <3>5 DEF Current
    <3>7. QED
      BY <2>1, <2>4, <3>1, <3>5, <3>6, OnwardMembers
  <2>5. QED
    BY <2>2, <2>3, <2>4
<1>7. ASSUME NEW a \in Actor, DropTeams(a) PROVE Onward
  <2>1. /\ users' = [t \in Team |-> None] /\ members' = [m \in Member |-> None]
        /\ UNCHANGED <<tokens, revoked, born>>
    BY <1>7 DEF DropTeams, RemoveTeams
  <2>2. QED
    BY <2>1 DEF Onward
<1>8. CASE Kill
  <2>1. /\ \A t \in Team : users'[t] = users[t] \/ users'[t] = None
        /\ \A m \in Member : members'[m] = members[m] \/ members'[m] = None
        /\ UNCHANGED <<tokens, revoked, born>>
    BY <1>8 DEF Kill, Match
  <2>2. QED
    BY <2>1, Versions DEF Onward, Current
<1>9. CASE /\ UNCHANGED <<users, members, tokens>> /\ born \subseteq born' /\ revoked \subseteq revoked'
  BY <1>9, OnwardStays
<1>10. ASSUME NEW n \in Newcomer, NEW addr \in Address, NEW t \in Team, Find(n, t, addr)
       PROVE  Onward
  BY <1>9, <1>10 DEF Find
<1>11. ASSUME NEW k \in Token, SignOutToken(k) PROVE Onward
  BY <1>9, <1>11 DEF SignOutToken, Cancelled
<1>12. ASSUME NEW k \in Token, NEW c \in Socket, Connect(c, k) PROVE Onward
  BY <1>9, <1>12 DEF Connect
<1>13. ASSUME NEW c \in Socket, Page(c) PROVE Onward
  BY <1>9, <1>13 DEF Page, appVars
<1>14. ASSUME NEW a \in Actor, NEW what \in Call, NEW t \in Team, NEW m \in Member \cup {None},
              Begin(a, what, t, m)
       PROVE  Onward
  BY <1>9, <1>14 DEF Begin
<1>15. ASSUME NEW a \in Actor,
              SetPagesRole(a) \/ Disconnect(a) \/ ResetRecord(a) \/ ClearTeams(a)
       PROVE  Onward
  BY <1>9, <1>15 DEF SetPagesRole, Disconnect, ResetRecord, ClearTeams
<1>16. CASE UNCHANGED vars
  BY <1>9, <1>16 DEF vars, appVars
<1>17. QED
  BY <1>1, <1>2, <1>3, <1>4, <1>5, <1>6, <1>7, <1>8, <1>10, <1>11, <1>12, <1>13, <1>14, <1>15, <1>16
     DEF Next

(* A sign-in that was ended stays ended. *)
LEMMA EndedOnward ==
  ASSUME AppInv, Onward, NEW k \in Token, Ended(k)
  PROVE  Ended(k)'
<1> USE DEF AppInv
<1> DEFINE t == tokens[k].team
           m == tokens[k].login
           v == tokens[k].ver
<1>1. /\ tokens[k] # None /\ tokens'[k] = tokens[k]
      /\ tokens[k] \in TokenRecord /\ t \in born \cap Team /\ m \in (born \cap Member) \cup {None}
  BY AccountsAssumption DEF Ended, Onward, TypeOK, Given, TokenRecord, Who
<1>2. v \in Nat \X Nat /\ v = <<v[1], v[2]>> /\ v[1] \in Nat /\ v[2] \in Nat
  BY <1>1 DEF TokenRecord
<1>3. CASE k \in revoked
  BY <1>1, <1>3 DEF Ended, Onward
<1>4. CASE users[t] = None
  <2>1. users'[t] = None
    BY <1>1, <1>4 DEF Onward
  <2>2. QED
    BY <1>1, <2>1 DEF Ended
<1>5. CASE m # None /\ ~Current(m)
  <2>1. ~Current(m)'
    BY <1>1, <1>5 DEF Onward, Current
  <2>2. QED
    BY <1>1, <1>5, <2>1 DEF Ended, Current
<1>6. CASE /\ users[t] # None /\ (m # None => Current(m)) /\ v # Version(t, m)
  <2> SUFFICES ASSUME users'[t] # None, m # None => members'[m] # None, v = Version(t, m)'
               PROVE  FALSE
    BY <1>1 DEF Ended, Version, Current
  <2>1. /\ users[t].ver \in Nat /\ users'[t].ver = v[1] /\ users[t].ver <= users'[t].ver
        /\ v[1] <= users[t].ver
    BY <1>1, <1>2, <1>6, Versions DEF Onward, Version, Stamped
  <2>2. v[1] = users[t].ver
    BY <1>2, <2>1
  <2>3. v[2] = IF m = None THEN 0 ELSE members[m].ver
    <3>1. CASE m = None
      BY <1>1, <3>1 DEF Stamped
    <3>2. CASE m # None
      <4>1. m \in born \cap Member /\ members[m] # None
        BY <1>1, <1>6, <3>2 DEF Current
      <4>2. members[m].ver \in Nat /\ v[2] <= members[m].ver
        BY <1>1, <3>2, <4>1, Versions DEF Stamped
      <4>3. members'[m].ver = v[2] /\ members[m].ver <= members'[m].ver
        BY <1>1, <1>2, <3>2, <4>1 DEF Onward, Version
      <4>4. QED
        BY <1>2, <3>2, <4>2, <4>3
    <3>3. QED
      BY <3>1, <3>2
  <2>4. QED
    BY <1>2, <1>6, <2>2, <2>3 DEF Version
<1>7. QED
  BY <1>1, <1>3, <1>4, <1>5, <1>6 DEF Ended

-----------------------------------------------------------------------------
(* The inductive invariant holds for ever: the stores keep their types,    *)
(* the log tells what they hold, mailboxes are apart, teams have room, and *)
(* what each call has left to do is about accounts that are settled.       *)
THEOREM AccountsStand == ~Overtake /\ Spec => []AppInv
<1> SUFFICES ASSUME ~Overtake PROVE Spec => []AppInv
  OBVIOUS
<1>1. Init => AppInv
  BY InitApp
<1>2. AppInv /\ [Next]_vars => AppInv'
  BY NextApp
<1>3. QED
  BY <1>1, <1>2, PTL DEF Spec

(* No mailbox has two logins and no team more people than the rules allow, *)
(* however sign-ups, joins, removals, failing disks and kills interleave   *)
(* (members.go:257-264), as long as calls leave sign-ups under way alone.  *)
THEOREM LoginsApart == ~Overtake /\ Spec => []OneMailbox
<1>1. AppInv => OneMailbox
  <2> SUFFICES ASSUME AppInv PROVE OneMailbox
    OBVIOUS
  <2>1. \A t \in Team : Cardinality(OfTeam(t)) < TeamSize
    BY DEF AppInv, Roomy
  <2>2. /\ \A t \in Teams, o \in Teams : t # o => Mailbox[users[t].addr] # Mailbox[users[o].addr]
        /\ \A m \in Member, o \in Member :
              m # o /\ Current(m) /\ Current(o) => Mailbox[members[m].addr] # Mailbox[members[o].addr]
    BY DEF AppInv, Apart, Teams
  <2>3. UserMailboxes \cap MemberMailboxes = {}
    BY DEF AppInv, Apart, Teams, UserMailboxes, MemberMailboxes
  <2>4. QED
    BY <2>1, <2>2, <2>3 DEF OneMailbox
<1>2. QED
  BY <1>1, AccountsStand, PTL

(* A restart finds the accounts as they were, but for the team whose       *)
(* sign-up is under way (app.go restore, users.go updateUser).             *)
THEOREM RestartFinds == ~Overtake /\ Spec => []RestartMatches
<1>1. AppInv => RestartMatches
  <2> SUFFICES ASSUME AppInv, ~Resetting
               PROVE  /\ disk.loads
                      /\ \A t \in Team : ~Unstored(t) => disk.users[t] = users[t]
                      /\ disk.members = members /\ disk.revoked = revoked
    BY DEF RestartMatches
  <2>1. ~Dropping
    BY NotResetting DEF AppInv
  <2>2. QED
    BY <2>1 DEF AppInv, Match
<1>2. QED
  BY <1>1, AccountsStand, PTL

(* A sign-in that was ended is never accepted again (auth.go claims,       *)
(* members.go memberVer).                                                  *)
THEOREM EndedForGood == ~Overtake /\ Spec => EndedStays
<1>1. AppInv /\ [Next]_vars => [\A k \in Token : Ended(k) => Ended(k)']_vars
  <2> SUFFICES ASSUME AppInv, [Next]_vars, NEW k \in Token, Ended(k) PROVE Ended(k)'
    OBVIOUS
  <2>1. Onward
    BY NextOnward
  <2>2. QED
    BY <2>1, EndedOnward
<1>2. QED
  BY <1>1, AccountsStand, PTL DEF Spec, EndedStays
-----------------------------------------------------------------------------
(* The pages. *)

(* What is known of a connection, and where its Serve may be. *)
Connection ==
    {Unserved} \cup [stage : {"known", "evict", "ask", "tell", "read"}, team : Account, login : Who,
                     role : {"investor", "fund_manager"}, evict : SUBSET Socket, first : BOOLEAN,
                     saw : BOOLEAN, cut : BOOLEAN, token : Token, late : BOOLEAN]

HubOK ==
    /\ clients \in SUBSET Socket /\ IsFiniteSet(clients)
    /\ serve \in [Socket -> Connection]
    /\ \A c \in Socket :
          /\ c \in clients => serve[c].stage \in {"evict", "ask", "tell", "read"}
          /\ serve[c].stage \in {"evict", "read"} => c \in clients
          /\ serve[c].stage \in {"ask", "tell"} => c \in clients \/ serve[c].cut
          /\ serve[c].stage # "none" => serve[c].evict \subseteq clients
                 /\ (serve[c].stage # "evict" => serve[c].evict = {})

(* Steps that a call always gets past: they end no sign-in and need no     *)
(* Append to succeed for the steps after them to be made.                  *)
Passing(s) == s.do \in {"role", "cut", "clear"} \/ (s.do = "user" /\ s.what = "Clear")

(* A cut of the team that nothing before it can make a call forget. *)
Through(d, t) ==
    \E i \in 1 .. Len(d) : d[i] = Cut(t) /\ \A j \in 1 .. i - 1 : Passing(d[j])

Due(t) == \E a \in Actor : Through(desk[a], t)

(* A person's pages that are not to be replaced by a newer one. *)
Staying(team, login) ==
    {o \in clients : Open(o) /\ serve[o].team = team /\ serve[o].login = login
                     /\ \A d \in clients : o \notin serve[d].evict}

Few == \A c \in clients : Cardinality(Staying(serve[c].team, serve[c].login)) <= PerAccount

(* A page's sign-in stands, or its cut is on its way. *)
Linked ==
    \A c \in Socket : serve[c] # Unserved =>
        /\ tokens[serve[c].token] # None
        /\ tokens[serve[c].token].team = serve[c].team
        /\ ~serve[c].late /\ ~serve[c].cut =>
              Resolves(serve[c].token) \/ Due(serve[c].team)

HubInv == HubOK /\ Few /\ Linked

-----------------------------------------------------------------------------
(* A connection goes on as the same person's, with the same sign-in. *)
Continues(c) ==
    /\ serve[c] # Unserved
    /\ serve'[c].token = serve[c].token /\ serve'[c].team = serve[c].team
    /\ serve'[c].login = serve[c].login
    /\ (serve[c].late => serve'[c].late) /\ (serve[c].cut => serve'[c].cut)

(* Connections are marked, and none comes or goes. *)
Marked ==
    /\ clients' = clients /\ serve' \in [Socket -> Connection]
    /\ \A c \in Socket :
          /\ serve[c] = Unserved => serve'[c] = Unserved
          /\ serve[c] # Unserved =>
                serve'[c].stage = serve[c].stage /\ serve'[c].evict = serve[c].evict /\ Continues(c)

(* A connection that is served has a place in the hub's code. *)
LEMMA Served ==
  ASSUME HubOK, NEW c \in Socket, serve[c] # Unserved
  PROVE  /\ serve[c].stage \in {"known", "evict", "ask", "tell", "read"}
         /\ serve[c] \in Connection /\ serve[c].evict \subseteq clients
         /\ serve[c].team \in Account /\ serve[c].login \in Who /\ serve[c].token \in Token
BY DEF HubOK, Connection, Unserved

(* A client of the hub is served. *)
LEMMA ClientServed ==
  ASSUME HubOK, NEW c \in clients
  PROVE  c \in Socket /\ serve[c] # Unserved
BY DEF HubOK, Unserved

(* With the connections the same and no page marked less, no more stay. *)
LEMMA FewStay ==
  ASSUME HubOK, Few, clients' \subseteq clients,
         \A c \in clients' : Continues(c),
         \A o \in clients', d \in clients : o \in serve[d].evict =>
            (d \in clients' /\ o \in serve'[d].evict) \/ serve'[o].cut
  PROVE  Few'
<1> SUFFICES ASSUME NEW c \in clients'
             PROVE  Cardinality(Staying(serve[c].team, serve[c].login)') <= PerAccount
  BY DEF Few
<1>1. serve'[c].team = serve[c].team /\ serve'[c].login = serve[c].login
  BY DEF Continues
<1> DEFINE S == Staying(serve[c].team, serve[c].login)
           T == {o \in clients' : Open(o)' /\ serve'[o].team = serve'[c].team
                                  /\ serve'[o].login = serve'[c].login
                                  /\ \A d \in clients' : o \notin serve'[d].evict}
<1>2. T \subseteq S
  <2> SUFFICES ASSUME NEW o \in T PROVE o \in S
    OBVIOUS
  <2>1. o \in clients /\ Continues(o) /\ ~serve'[o].cut
    BY DEF Open
  <2>2. \A d \in clients : o \notin serve[d].evict
    BY <2>1
  <2>3. QED
    BY <1>1, <2>1, <2>2 DEF Staying, Open, Continues
<1>3. S \subseteq clients /\ IsFiniteSet(S) /\ Cardinality(S) <= PerAccount
  <2>1. S \subseteq clients
    BY DEF Staying
  <2>2. IsFiniteSet(S)
    BY <2>1, FS_Subset DEF HubOK
  <2>3. QED
    BY <2>1, <2>2 DEF Few
<1>4. Cardinality(T) <= Cardinality(S) /\ Cardinality(T) \in Nat /\ Cardinality(S) \in Nat
  BY <1>2, <1>3, FS_Subset, FS_CardinalityType
<1>5. Cardinality(T) <= PerAccount
  BY <1>3, <1>4, HubAssumption
<1>6. QED
  BY <1>5 DEF Staying, Open

(* Marking pages leaves the hub sound. *)
LEMMA MarkedOK ==
  ASSUME HubOK, Few, Marked
  PROVE  HubOK' /\ Few' /\ \A c \in Socket : serve'[c] # Unserved => Continues(c)
<1>1. HubOK'
  <2>1. \A c \in Socket : HubOK!3!(c)'
    <3> SUFFICES ASSUME NEW c \in Socket PROVE HubOK!3!(c)'
      OBVIOUS
    <3>1. CASE serve[c] = Unserved
      BY <3>1 DEF HubOK, Marked, Unserved
    <3>2. CASE serve[c] # Unserved
      BY <3>2 DEF HubOK, Marked, Continues
    <3>3. QED
      BY <3>1, <3>2
  <2>2. QED
    BY <2>1 DEF HubOK, Marked
<1>2. \A c \in clients : c \in Socket /\ serve[c] # Unserved
  BY ClientServed
<1>3. Few'
  <2>1. \A c \in clients' : Continues(c)
    BY <1>2 DEF Marked
  <2>2. \A o \in clients', d \in clients : o \in serve[d].evict =>
            (d \in clients' /\ o \in serve'[d].evict) \/ serve'[o].cut
    BY <1>2 DEF Marked
  <2>3. clients' \subseteq clients
    BY DEF Marked
  <2>4. QED
    BY <2>1, <2>2, <2>3, FewStay
<1>4. QED
  BY <1>1, <1>3 DEF Marked

(* Who marks connections: a sign-up that failed marks those of its team,   *)
LEMMA ExcusedMarks ==
  ASSUME HubOK, NEW team, Excused(team)
  PROVE  /\ Marked
         /\ \A c \in Socket : serve'[c] # Unserved /\ serve[c].team = team => serve'[c].late
<1>1. serve' = [c \in Socket |->
         IF serve[c] # Unserved /\ serve[c].team = team
         THEN [serve[c] EXCEPT !.late = TRUE] ELSE serve[c]]
  BY DEF Excused
<1>2. \A x \in Connection \ {Unserved} :
         LET y == [x EXCEPT !.late = TRUE]
         IN  /\ y \in Connection /\ y # Unserved
             /\ y.stage = x.stage /\ y.evict = x.evict /\ y.token = x.token /\ y.team = x.team
             /\ y.login = x.login /\ y.late /\ (x.cut => y.cut)
  BY DEF Connection, Unserved
<1>3. QED
  BY <1>1, <1>2 DEF HubOK, Marked, Continues, Excused

(* a change of role (SetRole) leaves the marks, ...                        *)
LEMMA RoleMarks ==
  ASSUME HubOK, NEW team, NEW role \in {"investor", "fund_manager"}, SetRole(team, role)
  PROVE  Marked
<1>1. serve' = [c \in Socket |-> IF c \in Sockets(team) THEN [serve[c] EXCEPT !.role = role]
                                                        ELSE serve[c]]
  BY DEF SetRole
<1>2. \A c \in Sockets(team) : serve[c] # Unserved
  BY ClientServed DEF Sockets
<1>3. \A x \in Connection \ {Unserved} :
         LET y == [x EXCEPT !.role = role]
         IN  /\ y \in Connection /\ y # Unserved
             /\ y.stage = x.stage /\ y.evict = x.evict /\ y.token = x.token /\ y.team = x.team
             /\ y.login = x.login /\ y.late = x.late /\ y.cut = x.cut
  BY DEF Connection, Unserved
<1>4. QED
  BY <1>1, <1>2, <1>3 DEF HubOK, Marked, Continues, SetRole

(* ... and a cut reaches every page of the team whose sign-in has ended:   *)
(* it closes it, or it marks it as one that it has missed.                 *)
LEMMA CutMarks ==
  ASSUME HubOK, NEW team, NEW ended, DisconnectAccount(team, ended)
  PROVE  /\ Marked
         /\ \A c \in Socket :
               /\ serve[c] # Unserved /\ serve[c].team = team /\ serve[c].token \in ended
               => serve'[c].cut \/ serve'[c].late
<1> DEFINE closed(x) == [x EXCEPT !.cut = TRUE]
           missed(x) == [x EXCEPT !.late = TRUE]
<1>1. \A c \in Socket :
         /\ c \in Sockets(team) => serve'[c] = closed(serve[c])
         /\ c \notin Sockets(team) /\ c \in Missed(team, ended) => serve'[c] = missed(serve[c])
         /\ c \notin Sockets(team) /\ c \notin Missed(team, ended) => serve'[c] = serve[c]
  BY DEF DisconnectAccount
<1>2. /\ \A c \in Sockets(team) : serve[c] # Unserved
      /\ \A c \in Missed(team, ended) : serve[c] # Unserved
  BY ClientServed DEF Sockets, Missed, Unserved
<1>3. \A x \in Connection \ {Unserved} :
         /\ closed(x) \in Connection /\ closed(x) # Unserved
         /\ closed(x).stage = x.stage /\ closed(x).evict = x.evict /\ closed(x).token = x.token
         /\ closed(x).team = x.team /\ closed(x).login = x.login
         /\ (x.late => closed(x).late) /\ closed(x).cut
  BY DEF Connection, Unserved
<1>4. \A x \in Connection \ {Unserved} :
         /\ missed(x) \in Connection /\ missed(x) # Unserved
         /\ missed(x).stage = x.stage /\ missed(x).evict = x.evict /\ missed(x).token = x.token
         /\ missed(x).team = x.team /\ missed(x).login = x.login
         /\ missed(x).late /\ (x.cut => missed(x).cut)
  BY DEF Connection, Unserved
<1> HIDE DEF closed, missed
<1>5. /\ clients' = clients /\ serve' \in [Socket -> Connection]
      /\ \A c \in Socket : serve[c] \in Connection
  <2>1. \A c \in Socket : serve[c] \in Connection /\ serve'[c] \in Connection
    BY <1>1, <1>2, <1>3, <1>4 DEF HubOK
  <2>2. QED
    BY <2>1 DEF HubOK, DisconnectAccount
<1>6. ASSUME NEW c \in Socket
      PROVE  /\ serve[c] = Unserved => serve'[c] = Unserved
             /\ serve[c] # Unserved =>
                  serve'[c].stage = serve[c].stage /\ serve'[c].evict = serve[c].evict /\ Continues(c)
             /\ c \in Sockets(team) => serve'[c].cut
             /\ c \notin Sockets(team) /\ c \in Missed(team, ended) => serve'[c].late
  <2>1. CASE c \in Sockets(team)
    BY <1>1, <1>2, <1>3, <1>5, <2>1 DEF Continues
  <2>2. CASE c \notin Sockets(team) /\ c \in Missed(team, ended)
    BY <1>1, <1>2, <1>4, <1>5, <2>2 DEF Continues
  <2>3. CASE c \notin Sockets(team) /\ c \notin Missed(team, ended)
    BY <1>1, <2>3 DEF Continues
  <2>4. QED
    BY <2>1, <2>2, <2>3
<1>7. Marked
  BY <1>5, <1>6 DEF Marked
<1>8. ASSUME NEW c \in Socket, serve[c] # Unserved, serve[c].team = team, serve[c].token \in ended
      PROVE  serve'[c].cut \/ serve'[c].late
  <2>1. CASE serve[c].stage = "known"
    BY <1>6, <1>8, <2>1 DEF Missed
  <2>2. CASE serve[c].stage # "known" /\ c \in clients
    BY <1>6, <1>8, <2>2 DEF Sockets
  <2>3. CASE serve[c].stage # "known" /\ c \notin clients
    <3>1. serve[c].cut
      BY <1>8, <2>3, Served DEF HubOK
    <3>2. QED
      BY <1>6, <1>8, <3>1 DEF Continues
  <2>4. QED
    BY <2>1, <2>2, <2>3
<1>9. QED
  BY <1>7, <1>8

(* A step beside the hub marks nothing. *)
LEMMA NoMarks ==
  ASSUME HubOK, UNCHANGED <<clients, serve>>
  PROVE  Marked
BY DEF Marked, HubOK, Continues

(* A connection that is admitted. *)
LEMMA AdmitOK ==
  ASSUME HubOK, Few, NEW c \in Socket, NEW team \in Account, NEW login \in Who,
         NEW role \in {"investor", "fund_manager"}, NEW k \in Token, Admit(c, team, login, role, k)
  PROVE  /\ HubOK' /\ Few' /\ clients' = clients /\ c \notin clients
         /\ serve'[c] = Known(team, login, role, k)
         /\ \A o \in Socket \ {c} : serve'[o] = serve[o]
<1>1. /\ clients' = clients /\ serve' = [serve EXCEPT ![c] = Known(team, login, role, k)]
      /\ serve[c] = Unserved
  BY DEF Admit
<1>2. Known(team, login, role, k) \in Connection
  BY DEF Known, Connection
<1>3. /\ serve' \in [Socket -> Connection] /\ serve'[c] = Known(team, login, role, k)
      /\ \A o \in Socket \ {c} : serve'[o] = serve[o]
  BY <1>1, <1>2 DEF HubOK
<1>4. c \notin clients
  BY <1>1, ClientServed
<1>5. HubOK'
  <2>1. HubOK!3!(c)'
    BY <1>1, <1>3, <1>4 DEF HubOK, Known
  <2>2. \A o \in Socket \ {c} : HubOK!3!(o)'
    BY <1>1, <1>3 DEF HubOK
  <2>3. QED
    BY <1>1, <1>3, <2>1, <2>2 DEF HubOK
<1>6. \A o \in clients : serve'[o] = serve[o] /\ serve[o] # Unserved
  BY <1>3, <1>4, ClientServed
<1>7. Few'
  BY <1>1, <1>6, FewStay DEF Continues
<1>8. QED
  BY <1>1, <1>3, <1>4, <1>5, <1>7

(* A restart has no pages. *)
LEMMA KillOK ==
  ASSUME HubOK, HubKill
  PROVE  HubOK' /\ Few' /\ \A c \in Socket : serve'[c] = Unserved
<1>1. clients' = {} /\ serve' = [c \in Socket |-> Unserved]
  BY DEF HubKill
<1>2. HubOK'
  BY <1>1, FS_EmptySet DEF HubOK, Connection, Unserved
<1>3. QED
  BY <1>1, <1>2 DEF Few

-----------------------------------------------------------------------------
(* The steps of a connection's Serve. *)
GoesOn ==
    \A o \in Socket : serve'[o] # Unserved =>
        Continues(o) /\ (o \in clients /\ ~serve'[o].cut => o \in clients')

(* A connection ends. *)
LEMMA DropOK ==
  ASSUME HubOK, Few, NEW c \in Socket, Drop(c)
  PROVE  HubOK' /\ Few' /\ GoesOn
<1>1. clients' = clients /\ serve' = [serve EXCEPT ![c].cut = TRUE] /\ c \in clients
  BY DEF Drop, Open
<1>2. serve[c] # Unserved
  BY <1>1, ClientServed
<1>3. \A x \in Connection \ {Unserved} :
         LET y == [x EXCEPT !.cut = TRUE]
         IN  /\ y \in Connection /\ y # Unserved
             /\ y.stage = x.stage /\ y.evict = x.evict /\ y.token = x.token /\ y.team = x.team
             /\ y.login = x.login /\ y.late = x.late /\ y.cut
  BY DEF Connection, Unserved
<1>4. Marked
  BY <1>1, <1>2, <1>3 DEF HubOK, Marked, Continues
<1>5. QED
  BY <1>1, <1>4, MarkedOK DEF GoesOn

(* A page that came or left looks whether its team has pages ... *)
LEMMA AskOK ==
  ASSUME HubOK, Few, NEW c \in Socket, Ask(c)
  PROVE  HubOK' /\ Few' /\ GoesOn
<1> DEFINE x == serve[c]
<1>1. PICK b \in BOOLEAN :
         /\ clients' = clients /\ x.stage = "ask"
         /\ serve' = [serve EXCEPT ![c] = [x EXCEPT !.stage = "tell", !.saw = b]]
  BY DEF Ask
<1>2. x \in Connection /\ x # Unserved
  BY <1>1 DEF HubOK, Unserved
<1> DEFINE y == [x EXCEPT !.stage = "tell", !.saw = b]
<1>3. /\ y \in Connection /\ y.stage = "tell" /\ y.evict = x.evict /\ y.token = x.token
      /\ y.team = x.team /\ y.login = x.login /\ y.late = x.late /\ y.cut = x.cut
  BY <1>2, ZenonT(30) DEF Connection, Unserved
<1> HIDE DEF y
<1>4. /\ serve' \in [Socket -> Connection] /\ serve'[c] = y
      /\ \A o \in Socket \ {c} : serve'[o] = serve[o]
  BY <1>1, <1>3 DEF HubOK, y
<1>5. HubOK'
  <2>1. HubOK!3!(c)'
    BY <1>1, <1>2, <1>3, <1>4 DEF HubOK, Unserved
  <2>2. \A o \in Socket \ {c} : HubOK!3!(o)'
    BY <1>1, <1>4 DEF HubOK
  <2>3. QED
    BY <1>1, <1>4, <2>1, <2>2 DEF HubOK
<1>6. GoesOn
  BY <1>1, <1>2, <1>3, <1>4 DEF GoesOn, Continues
<1>7. \A o \in clients : o \in Socket /\ serve[o] # Unserved
  BY ClientServed
<1>8. Few'
  <2>1. \A o \in clients' : Continues(o)
    BY <1>1, <1>2, <1>3, <1>4, <1>7 DEF Continues
  <2>2. \A o \in clients', d \in clients : o \in serve[d].evict => o \in serve'[d].evict
    BY <1>3, <1>4, <1>7
  <2>3. QED
    BY <1>1, <2>1, <2>2, FewStay
<1>9. QED
  BY <1>5, <1>6, <1>8

(* ... and says so (presence). *)
LEMMA TellOK ==
  ASSUME HubOK, Few, NEW c \in Socket, Tell(c)
  PROVE  HubOK' /\ Few' /\ GoesOn
<1> DEFINE x == serve[c]
           z == IF c \in clients THEN [x EXCEPT !.stage = "read"] ELSE Unserved
<1>1. clients' = clients /\ x.stage = "tell" /\ serve' = [serve EXCEPT ![c] = z]
  BY DEF Tell
<1>2. x \in Connection /\ x # Unserved
  BY <1>1 DEF HubOK, Unserved
<1> DEFINE y == [x EXCEPT !.stage = "read"]
<1>3. /\ y \in Connection /\ y.stage = "read" /\ y.evict = x.evict /\ y.token = x.token
      /\ y.team = x.team /\ y.login = x.login /\ y.late = x.late /\ y.cut = x.cut
  BY <1>2, ZenonT(30) DEF Connection, Unserved
<1>4. z = IF c \in clients THEN y ELSE Unserved
  OBVIOUS
<1> HIDE DEF y, z
<1>5. /\ serve' \in [Socket -> Connection] /\ serve'[c] = z
      /\ \A o \in Socket \ {c} : serve'[o] = serve[o]
  BY <1>1, <1>3, <1>4 DEF HubOK, Connection
<1>6. HubOK'
  <2>1. HubOK!3!(c)'
    BY <1>1, <1>2, <1>3, <1>4, <1>5 DEF HubOK, Unserved
  <2>2. \A o \in Socket \ {c} : HubOK!3!(o)'
    BY <1>1, <1>5 DEF HubOK
  <2>3. QED
    BY <1>1, <1>5, <2>1, <2>2 DEF HubOK
<1>7. GoesOn
  BY <1>1, <1>2, <1>3, <1>4, <1>5 DEF GoesOn, Continues
<1>8. \A o \in clients : o \in Socket /\ serve[o] # Unserved
  BY ClientServed
<1>9. Few'
  <2>1. \A o \in clients' : Continues(o)
    BY <1>1, <1>2, <1>3, <1>4, <1>5, <1>8 DEF Continues
  <2>2. \A o \in clients', d \in clients : o \in serve[d].evict => o \in serve'[d].evict
    BY <1>3, <1>4, <1>5, <1>8
  <2>3. QED
    BY <1>1, <2>1, <2>2, FewStay
<1>10. QED
  BY <1>6, <1>7, <1>9

(* A page leaves the hub. *)
LEMMA LeaveOK ==
  ASSUME HubOK, Few, NEW c \in Socket, Leave(c)
  PROVE  HubOK' /\ Few' /\ GoesOn
<1> DEFINE x == serve[c]
<1>1. c \in clients /\ x.stage = "read" /\ x.cut /\ clients' = clients \ {c}
  BY DEF Leave
<1>2. x \in Connection /\ x # Unserved /\ x.evict = {}
  BY <1>1 DEF HubOK, Unserved
<1> DEFINE y == [x EXCEPT !.stage = "ask"]
           w(o) == [serve[o] EXCEPT !.evict = @ \ {c}]
<1>3. /\ y \in Connection /\ y.stage = "ask" /\ y.evict = {} /\ y.token = x.token
      /\ y.team = x.team /\ y.login = x.login /\ y.late = x.late /\ y.cut
  BY <1>1, <1>2, ZenonT(30) DEF Connection, Unserved
<1>4. PICK z \in {y, Unserved} : serve' = [o \in Socket |->
             IF o = c THEN z ELSE IF serve[o] = Unserved THEN Unserved ELSE w(o)]
  BY DEF Leave
<1>5. \A o \in Socket : serve[o] # Unserved =>
         /\ w(o) \in Connection /\ w(o) # Unserved /\ w(o).evict = serve[o].evict \ {c}
         /\ w(o).stage = serve[o].stage /\ w(o).token = serve[o].token
         /\ w(o).team = serve[o].team /\ w(o).login = serve[o].login
         /\ w(o).late = serve[o].late /\ w(o).cut = serve[o].cut
  BY DEF HubOK, Connection, Unserved
<1> HIDE DEF y, w
<1>6. /\ serve' \in [Socket -> Connection] /\ serve'[c] = z
      /\ \A o \in Socket \ {c} : serve'[o] = IF serve[o] = Unserved THEN Unserved ELSE w(o)
  <2>1. Unserved \in Connection
    BY DEF Connection
  <2>2. QED
    BY <1>3, <1>4, <1>5, <2>1
<1>7. HubOK'
  <2>1. HubOK!3!(c)'
    BY <1>1, <1>3, <1>4, <1>6 DEF Unserved
  <2>2. ASSUME NEW o \in Socket \ {c} PROVE HubOK!3!(o)'
    <3>1. CASE serve[o] = Unserved
      BY <1>1, <1>6, <3>1 DEF HubOK, Unserved
    <3>2. CASE serve[o] # Unserved
      BY <1>1, <1>5, <1>6, <3>2 DEF HubOK
    <3>3. QED
      BY <3>1, <3>2
  <2>3. IsFiniteSet(clients') /\ clients' \in SUBSET Socket
    BY <1>1, FS_Subset DEF HubOK
  <2>4. QED
    BY <1>6, <2>1, <2>2, <2>3 DEF HubOK
<1>8. GoesOn
  BY <1>1, <1>2, <1>3, <1>4, <1>5, <1>6 DEF GoesOn, Continues
<1>9. \A o \in clients : o \in Socket /\ serve[o] # Unserved
  BY ClientServed
<1>10. Few'
  <2>1. \A o \in clients' : Continues(o)
    BY <1>1, <1>5, <1>6, <1>9 DEF Continues
  <2>2. \A o \in clients', d \in clients : o \in serve[d].evict =>
            d \in clients' /\ o \in serve'[d].evict
    BY <1>1, <1>2, <1>5, <1>6, <1>9
  <2>3. QED
    BY <1>1, <2>1, <2>2, FewStay
<1>11. QED
  BY <1>7, <1>8, <1>10

(* The pages a new one replaces are closed. *)
LEMMA EvictOK ==
  ASSUME HubOK, Few, NEW c \in Socket, Evict(c)
  PROVE  HubOK' /\ Few' /\ GoesOn
<1> DEFINE x == serve[c]
<1>1. clients' = clients /\ x.stage = "evict"
  BY DEF Evict
<1>2. x \in Connection /\ x # Unserved /\ x.evict \subseteq clients /\ c \in clients
  BY <1>1 DEF HubOK, Unserved
<1>3. PICK s \in {"ask", "read"} :
         serve' = [o \in Socket |-> IF o \in x.evict THEN [serve[o] EXCEPT !.cut = TRUE]
                                    ELSE IF o = c THEN [x EXCEPT !.stage = s, !.evict = {}]
                                    ELSE serve[o]]
  BY DEF Evict
<1> DEFINE y == [x EXCEPT !.stage = s, !.evict = {}]
           w(o) == [serve[o] EXCEPT !.cut = TRUE]
<1>4. /\ y \in Connection /\ y.stage = s /\ y.evict = {} /\ y.token = x.token
      /\ y.team = x.team /\ y.login = x.login /\ y.late = x.late /\ y.cut = x.cut
  <2>1. {} \subseteq Socket /\ s \in {"known", "evict", "ask", "tell", "read"}
    OBVIOUS
  <2>2. QED
    BY <1>2, <2>1, ZenonT(30) DEF Connection, Unserved
<1>5. \A o \in Socket : serve[o] # Unserved =>
         /\ w(o) \in Connection /\ w(o) # Unserved /\ w(o).evict = serve[o].evict
         /\ w(o).stage = serve[o].stage /\ w(o).token = serve[o].token
         /\ w(o).team = serve[o].team /\ w(o).login = serve[o].login
         /\ w(o).late = serve[o].late /\ w(o).cut
  <2> SUFFICES ASSUME NEW o \in Socket, serve[o] # Unserved PROVE <1>5!(o)!2
    OBVIOUS
  <2>1. serve[o] \in Connection /\ serve[o] # Unserved
    BY DEF HubOK
  <2>2. QED
    BY <2>1, ZenonT(30) DEF Connection, Unserved
<1> HIDE DEF y, w
<1>6. \A o \in clients : o \in Socket /\ serve[o] # Unserved
  BY ClientServed
<1>7. /\ \A o \in x.evict : serve'[o] = w(o)
      /\ c \notin x.evict => serve'[c] = y
      /\ \A o \in Socket \ (x.evict \cup {c}) : serve'[o] = serve[o]
      /\ serve' \in [Socket -> Connection]
  BY <1>2, <1>3, <1>4, <1>5, <1>6 DEF HubOK, y, w
<1>8. HubOK'
  <2> SUFFICES ASSUME NEW o \in Socket PROVE HubOK!3!(o)'
    BY <1>1, <1>7 DEF HubOK
  <2>1. CASE o \in x.evict
    BY <1>1, <1>2, <1>5, <1>6, <1>7, <2>1 DEF HubOK
  <2>2. CASE o = c /\ c \notin x.evict
    BY <1>1, <1>2, <1>4, <1>7, <2>2 DEF HubOK
  <2>3. CASE o \notin x.evict \cup {c}
    BY <1>1, <1>7, <2>3 DEF HubOK
  <2>4. QED
    BY <2>1, <2>2, <2>3
<1>9. \A o \in Socket : serve'[o] # Unserved => Continues(o)
  <2> SUFFICES ASSUME NEW o \in Socket, serve'[o] # Unserved PROVE Continues(o)
    OBVIOUS
  <2>1. CASE o \in x.evict
    BY <1>2, <1>5, <1>6, <1>7, <2>1 DEF Continues
  <2>2. CASE o = c /\ c \notin x.evict
    BY <1>2, <1>4, <1>7, <2>2 DEF Continues
  <2>3. CASE o \notin x.evict \cup {c}
    BY <1>7, <2>3 DEF Continues
  <2>4. QED
    BY <2>1, <2>2, <2>3
<1>10. Few'
  <2>1. \A o \in clients' : serve'[o] # Unserved
    BY <1>8, ClientServed DEF HubOK, Unserved
  <2>2. ASSUME NEW o \in clients', NEW d \in clients, o \in serve[d].evict
        PROVE  o \in serve'[d].evict \/ serve'[o].cut
    <3>1. CASE d = c
      BY <1>2, <1>5, <1>6, <1>7, <2>2, <3>1
    <3>2. CASE d # c
      BY <1>2, <1>5, <1>6, <1>7, <2>2, <3>2
    <3>3. QED
      BY <3>1, <3>2
  <2>3. QED
    BY <1>1, <1>6, <1>9, <2>1, <2>2, FewStay
<1>11. QED
  BY <1>1, <1>8, <1>9, <1>10 DEF GoesOn

(* A page joins, and as many of the person's pages are to go as are too    *)
(* many.                                                                   *)
LEMMA AddOK ==
  ASSUME HubOK, Few, NEW c \in Socket, Add(c)
  PROVE  HubOK' /\ Few' /\ GoesOn
<1> DEFINE x == serve[c]
           P == Person(c)
<1>1. x.stage = "known" /\ clients' = clients \cup {c}
  BY DEF Add
<1>2. PICK old \in Replaced(P), b \in BOOLEAN :
         serve' = [serve EXCEPT ![c] = [x EXCEPT !.stage = "evict", !.evict = old, !.first = b]]
  <2>1. PICK old \in Replaced(P) :
           serve' = [serve EXCEPT ![c].stage = "evict", ![c].evict = old,
                                  ![c].first = Sockets(serve[c].team) = {}]
    BY DEF Add
  <2>2. PICK b \in BOOLEAN : b = (Sockets(serve[c].team) = {})
    OBVIOUS
  <2>3. serve \in [Socket -> Connection]
    BY DEF HubOK
  <2>4. serve' = [serve EXCEPT ![c] = [x EXCEPT !.stage = "evict", !.evict = old, !.first = b]]
    BY <2>1, <2>2, <2>3
  <2>5. QED
    BY <2>4
<1> DEFINE y == [x EXCEPT !.stage = "evict", !.evict = old, !.first = b]
<1>3. x \in Connection /\ x # Unserved /\ c \notin clients
  BY <1>1 DEF HubOK, Unserved
<1>4. old \subseteq P /\ P \subseteq clients /\ Cardinality(old) = Surplus(P)
  BY <1>2 DEF Replaced, Person
<1>5. /\ y \in Connection /\ y.stage = "evict" /\ y.evict = old /\ y.token = x.token
      /\ y.team = x.team /\ y.login = x.login /\ y.late = x.late /\ y.cut = x.cut
  <2>1. old \subseteq Socket
    BY <1>4 DEF HubOK
  <2>2. QED
    BY <1>3, <2>1, ZenonT(30) DEF Connection, Unserved
<1> HIDE DEF y
<1>6. /\ serve' \in [Socket -> Connection] /\ serve'[c] = y
      /\ \A o \in Socket \ {c} : serve'[o] = serve[o]
  BY <1>2, <1>5 DEF HubOK, y
<1>7. HubOK'
  <2>1. HubOK!3!(c)'
    BY <1>1, <1>4, <1>5, <1>6
  <2>2. \A o \in Socket \ {c} : HubOK!3!(o)'
    BY <1>1, <1>6 DEF HubOK
  <2>3. clients' \in SUBSET Socket /\ IsFiniteSet(clients')
    BY <1>1, FS_AddElement DEF HubOK
  <2>4. QED
    BY <1>6, <2>1, <2>2, <2>3 DEF HubOK
<1>8. GoesOn
  BY <1>1, <1>3, <1>5, <1>6 DEF GoesOn, Continues
<1>9. Cardinality((P \cup {c}) \ old) <= PerAccount /\ IsFiniteSet((P \cup {c}) \ old)
  <2>1. IsFiniteSet(P) /\ c \notin P
    BY <1>3, <1>4, FS_Subset DEF HubOK
  <2>2. /\ IsFiniteSet(P \cup {c})
        /\ Cardinality(P \cup {c}) = IF c \in P THEN Cardinality(P) ELSE Cardinality(P) + 1
    BY <2>1, FS_AddElement, Zenon
  <2>3. (P \cup {c}) \cap old = old
    BY <1>4
  <2>4. /\ IsFiniteSet((P \cup {c}) \ old)
        /\ Cardinality((P \cup {c}) \ old) = Cardinality(P \cup {c}) - Cardinality((P \cup {c}) \cap old)
    BY <2>2, FS_Difference
  <2>5. Cardinality(P) \in Nat
    BY <2>1, FS_CardinalityType
  <2>6. Cardinality(P \cup {c}) = Cardinality(P) + 1
    BY <2>1, <2>2
  <2>7. Cardinality((P \cup {c}) \ old) = Cardinality(P \cup {c}) - Cardinality(old)
    BY <2>3, <2>4, Zenon
  <2>8. Cardinality((P \cup {c}) \ old) = (Cardinality(P) + 1) - Surplus(P)
    BY <1>4, <2>6, <2>7
  <2>9. \A n \in Nat : (n + 1) - (IF n < PerAccount THEN 0 ELSE n + 1 - PerAccount) <= PerAccount
    BY HubAssumption
  <2>10. (Cardinality(P) + 1) - Surplus(P) <= PerAccount
    BY <2>5, <2>9 DEF Surplus
  <2>11. QED
    BY <2>4, <2>8, <2>10
<1>10. Few'
  <2> SUFFICES ASSUME NEW o \in clients'
               PROVE  Cardinality(Staying(serve[o].team, serve[o].login)') <= PerAccount
    BY DEF Few
  <2> DEFINE T == {q \in clients' : Open(q)' /\ serve'[q].team = serve'[o].team
                                    /\ serve'[q].login = serve'[o].login
                                    /\ \A d \in clients' : q \notin serve'[d].evict}
  <2>1. \A q \in clients : q \in Socket /\ q # c /\ serve'[q] = serve[q]
    BY <1>3, <1>6 DEF HubOK
  <2>2. CASE serve'[o].team = x.team /\ serve'[o].login = x.login
    <3>1. T \subseteq (P \cup {c}) \ old
      <4> SUFFICES ASSUME NEW q \in T PROVE q \in (P \cup {c}) \ old
        OBVIOUS
      <4>1. q \notin old
        BY <1>1, <1>5, <1>6
      <4>2. q = c \/ q \in P
        BY <1>1, <2>1, <2>2 DEF Person
      <4>3. QED
        BY <4>1, <4>2
    <3>2. /\ Cardinality(T) <= Cardinality((P \cup {c}) \ old) /\ Cardinality(T) \in Nat
          /\ Cardinality((P \cup {c}) \ old) \in Nat
      BY <1>9, <3>1, FS_Subset, FS_CardinalityType
    <3>3. Cardinality(T) <= PerAccount
      BY <1>9, <3>2, HubAssumption
    <3>4. QED
      BY <3>3 DEF Staying, Open
  <2>3. CASE ~(serve'[o].team = x.team /\ serve'[o].login = x.login)
    <3>1. o # c /\ o \in clients
      BY <1>1, <1>5, <1>6, <2>3
    <3> DEFINE S == Staying(serve[o].team, serve[o].login)
    <3>2. T \subseteq S
      <4> SUFFICES ASSUME NEW q \in T PROVE q \in S
        OBVIOUS
      <4>1. q # c /\ q \in clients
        BY <1>1, <1>5, <1>6, <2>3
      <4>2. Open(q) /\ serve[q].team = serve[o].team /\ serve[q].login = serve[o].login
        BY <2>1, <3>1, <4>1 DEF Open
      <4>3. \A d \in clients : q \notin serve[d].evict
        BY <1>1, <2>1
      <4>4. QED
        BY <4>1, <4>2, <4>3 DEF Staying
    <3>3. S \subseteq clients
      BY DEF Staying
    <3>4. IsFiniteSet(S) /\ Cardinality(S) <= PerAccount
      BY <3>1, <3>3, FS_Subset DEF HubOK, Few
    <3>5. Cardinality(T) <= Cardinality(S) /\ Cardinality(T) \in Nat /\ Cardinality(S) \in Nat
      BY <3>2, <3>4, FS_Subset, FS_CardinalityType
    <3>6. Cardinality(T) <= PerAccount
      BY <3>4, <3>5, HubAssumption
    <3>7. QED
      BY <3>6 DEF Staying, Open
  <2>4. QED
    BY <2>2, <2>3
<1>11. QED
  BY <1>7, <1>8, <1>10

(* Whatever a page does, the hub stays sound. *)
LEMMA PageOK ==
  ASSUME HubOK, Few, NEW c \in Socket, HubStep(c)
  PROVE  HubOK' /\ Few' /\ GoesOn
BY AddOK, EvictOK, AskOK, TellOK, DropOK, LeaveOK DEF HubStep

-----------------------------------------------------------------------------
(* The cuts that are still to come. *)
LEMMA ThroughRest ==
  ASSUME TypeOK, NEW a \in Actor, NEW t, Through(desk[a], t), Now(a) # Cut(t)
  PROVE  desk[a] # <<>> /\ Passing(Now(a)) /\ Through(Rest(a), t)
<1>1. PICK i \in 1 .. Len(desk[a]) :
         desk[a][i] = Cut(t) /\ \A j \in 1 .. i - 1 : Passing(desk[a][j])
  BY DEF Through
<1>2. desk[a] \in Seq(Step)
  BY DEF TypeOK
<1>3. desk[a] # <<>>
  BY <1>1, <1>2
<1>4. /\ Now(a) = desk[a][1] /\ Len(desk[a]) \in Nat
      /\ Len(Rest(a)) = Len(desk[a]) - 1
      /\ \A k \in 1 .. Len(desk[a]) - 1 : Rest(a)[k] = desk[a][k + 1]
  BY <1>3, DeskParts
<1>5. i # 1 /\ i - 1 \in 1 .. Len(Rest(a)) /\ (i - 1) + 1 = i /\ 1 \in 1 .. i - 1
  BY <1>1, <1>4
<1>6. Rest(a)[i - 1] = Cut(t)
  BY <1>1, <1>4, <1>5
<1>7. ASSUME NEW j \in 1 .. (i - 1) - 1 PROVE Passing(Rest(a)[j])
  <2>1. j + 1 \in 1 .. i - 1 /\ j \in 1 .. Len(desk[a]) - 1
    BY <1>4, <1>5
  <2>2. QED
    BY <1>1, <1>4, <2>1
<1>8. Passing(Now(a))
  BY <1>1, <1>4, <1>5
<1>9. QED
  BY <1>3, <1>5, <1>6, <1>7, <1>8 DEF Through

(* A cut that ends a call is still to come after other steps. *)
LEMMA ThroughJoined ==
  ASSUME NEW p \in Seq(Step), NEW q \in Seq(Step), NEW t,
         \A i \in 1 .. Len(p) : Passing(p[i]), Through(q, t)
  PROVE  Through(p \o q, t)
<1> DEFINE r == p \o q
<1>1. /\ Len(r) = Len(p) + Len(q) /\ Len(p) \in Nat /\ Len(q) \in Nat
      /\ \A i \in 1 .. Len(p) + Len(q) : r[i] = IF i <= Len(p) THEN p[i] ELSE q[i - Len(p)]
  BY ConcatProperties
<1>2. PICK i \in 1 .. Len(q) : q[i] = Cut(t) /\ \A j \in 1 .. i - 1 : Passing(q[j])
  BY DEF Through
<1> HIDE DEF r
<1>3. i + Len(p) \in 1 .. Len(r) /\ r[i + Len(p)] = Cut(t)
  BY <1>1, <1>2
<1>4. ASSUME NEW j \in 1 .. (i + Len(p)) - 1 PROVE Passing(r[j])
  <2>1. CASE j <= Len(p)
    <3>1. j \in 1 .. Len(p) /\ r[j] = p[j]
      BY <1>1, <2>1
    <3>2. QED
      BY <3>1
  <2>2. CASE ~(j <= Len(p))
    <3>1. j - Len(p) \in 1 .. i - 1 /\ r[j] = q[j - Len(p)]
      BY <1>1, <2>2
    <3>2. QED
      BY <1>2, <3>1
  <2>3. QED
    BY <2>1, <2>2
<1>5. QED
  BY <1>3, <1>4 DEF Through, r

(* What ends sign-ins is followed by the cut. *)
LEMMA ThroughNext ==
  ASSUME TypeOK, NEW a \in Actor, desk[a] # <<>>, Shaped(desk[a]),
         (Now(a).do = "user" /\ Cutting(Now(a).what)) \/ Now(a).do = "member"
  PROVE  Through(Rest(a), Now(a).team)
<1>1. /\ Now(a) = desk[a][1] /\ Len(desk[a]) \in Nat /\ Len(desk[a]) >= 1
      /\ Len(Rest(a)) = Len(desk[a]) - 1
      /\ \A k \in 1 .. Len(desk[a]) - 1 : Rest(a)[k] = desk[a][k + 1]
  BY DeskParts
<1>2. 1 \in 1 .. Len(desk[a])
  BY <1>1
<1>3. 1 + 1 \in 1 .. Len(desk[a]) /\ desk[a][1 + 1] = Cut(Now(a).team)
  BY <1>1, <1>2 DEF Shaped
<1>4. 1 \in 1 .. Len(Rest(a)) /\ Rest(a)[1] = Cut(Now(a).team)
  BY <1>1, <1>3
<1>5. \A j \in 1 .. 1 - 1 : Passing(Rest(a)[j])
  OBVIOUS
<1>6. QED
  BY <1>4, <1>5 DEF Through

(* A cut that is due stays due while its call goes on ... *)
LEMMA DueMoves ==
  ASSUME TypeOK, NEW a \in Actor, NEW d, desk' = [desk EXCEPT ![a] = d], NEW t,
         Through(desk[a], t) => Through(d, t), Due(t)
  PROVE  Due(t)'
<1>1. desk'[a] = d /\ \A b \in Actor \ {a} : desk'[b] = desk[b]
  BY DEF TypeOK
<1>2. PICK b \in Actor : Through(desk[b], t)
  BY DEF Due
<1>3. Through(desk'[b], t)
  BY <1>1, <1>2
<1>4. QED
  BY <1>3 DEF Due, Through, Cut, Passing

(* ... becomes due when the call has it to come ... *)
LEMMA DueNow ==
  ASSUME TypeOK, NEW a \in Actor, NEW d, desk' = [desk EXCEPT ![a] = d], NEW t, Through(d, t)
  PROVE  Due(t)'
<1>1. desk'[a] = d
  BY DEF TypeOK
<1>2. QED
  BY <1>1 DEF Due, Through, Cut, Passing

(* ... and stays due while the calls stand still. *)
LEMMA DueStays ==
  ASSUME desk' = desk, NEW t, Due(t)
  PROVE  Due(t)'
BY DEF Due, Through, Cut, Passing

-----------------------------------------------------------------------------
(* A sign-in goes on being accepted while its records stay. *)
LEMMA ResolvesStays ==
  ASSUME NEW k \in Token, tokens'[k] = tokens[k], Resolves(k),
         users'[tokens[k].team] = users[tokens[k].team],
         tokens[k].login # None => members'[tokens[k].login] = members[tokens[k].login]
  PROVE  Resolves(k)'
BY DEF Resolves, Welcome, MemberLogin, Login, Teams, Current, Version

(* A token names a team that is born, and a member if any. *)
LEMMA TokenParts ==
  ASSUME AppInv, NEW k \in Token, tokens[k] # None
  PROVE  /\ tokens[k] \in TokenRecord /\ tokens[k].team \in born \cap Team
         /\ tokens[k].login \in (born \cap Member) \cup {None}
BY AccountsAssumption DEF AppInv, TypeOK, Given, TokenRecord, Who

(* A page of the team that goes on unmarked with a sign-in that has ended. *)
Waits(c, t) ==
    /\ serve[c] # Unserved /\ serve[c].team = t /\ ~Resolves(serve[c].token)
    /\ ~serve'[c].late /\ ~serve'[c].cut

(* Pages go on, with a sign-in that is accepted or a cut to come. *)
LEMMA LinkedOn ==
  ASSUME AppInv, HubOK, HubOK', Linked, Onward, GoesOn,
         \A c \in Socket, k \in Token, t \in Team :
            /\ serve[c] # Unserved /\ serve[c].token = k /\ serve[c].team = t /\ tokens[k] # None
            /\ tokens[k].team = t
            /\ serve'[c] # Unserved /\ ~serve'[c].late /\ ~serve'[c].cut /\ Resolves(k)
            => Resolves(k)' \/ Due(t)',
         \A c \in Socket, t \in Team : Waits(c, t) /\ Due(t) => Due(t)'
  PROVE  Linked'
<1> SUFFICES ASSUME NEW c \in Socket, serve'[c] # Unserved PROVE Linked!(c)!2'
  BY DEF Linked
<1>1. Continues(c)
  BY DEF GoesOn
<1>2. PICK k \in Token, t \in Team : serve[c].token = k /\ serve[c].team = t
  BY <1>1, Served, AccountsAssumption DEF Continues
<1>3. /\ tokens[k] # None /\ tokens[k].team = t /\ tokens'[k] = tokens[k]
      /\ serve'[c].token = k /\ serve'[c].team = t
  BY <1>1, <1>2 DEF Linked, Continues, Onward
<1>4. ASSUME ~serve'[c].late, ~serve'[c].cut
      PROVE  Resolves(k)' \/ Due(t)'
  <2>1. serve[c] # Unserved /\ (Resolves(k) \/ Due(t))
    BY <1>1, <1>2, <1>4 DEF Linked, Continues
  <2>2. CASE Resolves(k)
    BY <1>2, <1>3, <1>4, <2>1, <2>2
  <2>3. CASE ~Resolves(k)
    <3>1. Waits(c, t)
      BY <1>2, <1>4, <2>1, <2>3 DEF Waits
    <3>2. QED
      BY <2>1, <2>3, <3>1
  <2>4. QED
    BY <2>2, <2>3
<1>5. QED
  BY <1>3, <1>4 DEF Resolves, Welcome, MemberLogin, Login, Teams, Current, Version, Due, Through, Cut

(* The records that were given stay as they are. *)
LEMMA LinkedStores ==
  ASSUME AppInv, HubOK, HubOK', Linked, Onward, GoesOn,
         \A t \in born \cap Team : users'[t] = users[t],
         \A m \in born \cap Member : members'[m] = members[m],
         \A c \in Socket, t \in Team : Waits(c, t) /\ Due(t) => Due(t)'
  PROVE  Linked'
<1>1. ASSUME NEW k \in Token, tokens[k] # None, Resolves(k) PROVE Resolves(k)'
  BY <1>1, TokenParts, ResolvesStays DEF Onward
<1>2. QED
  BY <1>1, LinkedOn

-----------------------------------------------------------------------------
(* Marked pages go on with a sign-in that is accepted or a cut due. *)
LEMMA MarkedGoesOn ==
  ASSUME HubOK, Few, Marked
  PROVE  HubOK' /\ Few' /\ GoesOn
BY MarkedOK DEF GoesOn, Marked

(* Steps that leave the hub, the calls and the records given alone. *)
LEMMA HubStays ==
  ASSUME AppInv, HubInv, Onward, UNCHANGED <<clients, serve, desk>>,
         \A t \in born \cap Team : users'[t] = users[t],
         \A m \in born \cap Member : members'[m] = members[m]
  PROVE  HubInv'
<1>1. HubOK' /\ Few' /\ GoesOn
  BY NoMarks, MarkedGoesOn DEF HubInv
<1>2. \A c \in Socket, t \in Team : Waits(c, t) /\ Due(t) => Due(t)'
  BY DueStays
<1>3. Linked'
  BY <1>1, <1>2, LinkedStores DEF HubInv
<1>4. QED
  BY <1>1, <1>3 DEF HubInv

(* A sign-up touches no page. *)
LEMMA RegisteringHub ==
  ASSUME AppInv, HubInv, Onward, NEW n \in Newcomer,
         \/ \E addr \in Address : Reserve(n, addr) \/ \E t \in Team : Find(n, t, addr)
         \/ Join(n)
  PROVE  HubInv'
<1> USE DEF AppInv
<1>1. ASSUME NEW addr \in Address, Reserve(n, addr) PROVE HubInv'
  <2>1. PICK t \in Fresh(Team) : users' = [users EXCEPT ![t] = User(addr)]
    BY <1>1 DEF Reserve
  <2>2. t \in Team /\ t \notin born
    BY FreshIds
  <2>3. \A o \in born \cap Team : users'[o] = users[o]
    BY <2>1, <2>2 DEF TypeOK, Stores
  <2>4. UNCHANGED <<clients, serve, desk>> /\ members' = members
    BY <1>1 DEF Reserve, hubVars
  <2>5. QED
    BY <2>3, <2>4, HubStays
<1>2. ASSUME NEW addr \in Address, NEW t \in Team, Find(n, t, addr) PROVE HubInv'
  BY <1>2, HubStays DEF Find, hubVars
<1>3. ASSUME Join(n) PROVE HubInv'
  <2>1. UNCHANGED <<clients, serve, desk>> /\ users' = users
    BY <1>3 DEF Join, hubVars
  <2>2. \A m \in born \cap Member : members'[m] = members[m]
    <3>1. CASE members' = members
      BY <3>1
    <3>2. CASE members' # members
      <4>1. PICK m \in Fresh(Member) : \E r : members' = [members EXCEPT ![m] = r]
        BY <1>3, <3>2 DEF Join
      <4>2. m \in Member /\ m \notin born
        BY FreshIds
      <4>3. QED
        BY <4>1, <4>2 DEF TypeOK, Roster
    <3>3. QED
      BY <3>1, <3>2
  <2>3. QED
    BY <2>1, <2>2, HubStays
<1>4. QED
  BY <1>1, <1>2, <1>3

(* Nor does a sign-in or a sign-out of another token. *)
LEMMA SignInHub ==
  ASSUME AppInv, HubInv, Onward, NEW k \in Token,
         SignOutToken(k) \/ \E t \in Team, m \in Who : SignIn(k, t, m)
  PROVE  HubInv'
BY HubStays DEF SignOutToken, SignIn, hubVars

(* A sign-up that failed takes its team's pages with it. *)
LEMMA StoreHub ==
  ASSUME AppInv, HubInv, Onward, NEW n \in Newcomer, Store(n)
  PROVE  HubInv'
<1>1. /\ UNCHANGED <<members, desk>> /\ reg[n].op = "signup"
      /\ \/ users' = users /\ UNCHANGED <<clients, serve>>
         \/ users' = [users EXCEPT ![reg[n].team] = None] /\ Excused(reg[n].team)
  BY DEF Store, TakenOut, hubVars
<1>2. CASE users' = users /\ UNCHANGED <<clients, serve>>
  BY <1>1, <1>2, HubStays
<1>3. CASE users' = [users EXCEPT ![reg[n].team] = None] /\ Excused(reg[n].team)
  <2>1. PICK team : team = reg[n].team
    OBVIOUS
  <2>2. \A t \in Team : t # team => users'[t] = users[t]
    BY <1>3, <2>1 DEF AppInv, TypeOK, Stores
  <2>3. /\ Marked
        /\ \A c \in Socket : serve'[c] # Unserved /\ serve[c].team = team => serve'[c].late
    BY <1>3, <2>1, ExcusedMarks DEF HubInv
  <2>4. HubOK' /\ Few' /\ GoesOn
    BY <2>3, MarkedGoesOn DEF HubInv
  <2>5. ASSUME NEW k \in Token, tokens[k] # None, tokens[k].team # team, Resolves(k)
        PROVE  Resolves(k)'
    BY <1>1, <2>2, <2>5, TokenParts, ResolvesStays DEF Onward
  <2>6. \A c \in Socket, t \in Team : Waits(c, t) /\ Due(t) => Due(t)'
    BY <1>1, DueStays
  <2>7. Linked'
    BY <2>3, <2>4, <2>5, <2>6, LinkedOn DEF HubInv
  <2>8. QED
    BY <2>4, <2>7 DEF HubInv
<1>4. QED
  BY <1>1, <1>2, <1>3

(* A page connects with a sign-in that is accepted. *)
LEMMA ConnectHub ==
  ASSUME AppInv, HubInv, Onward, NEW c \in Socket, NEW k \in Token, Connect(c, k)
  PROVE  HubInv'
<1>1. /\ UNCHANGED <<users, members, tokens, desk>> /\ Resolves(k) /\ tokens[k] # None
      /\ Admit(c, tokens[k].team, tokens[k].login, users[tokens[k].team].role, k)
  BY DEF Connect, Session, Resolves
<1>2. /\ tokens[k].team \in Account /\ tokens[k].login \in Who
      /\ users[tokens[k].team].role \in {"investor", "fund_manager"}
  <2>1. tokens[k].team \in Team /\ tokens[k].login \in Who /\ users[tokens[k].team] # None
    BY <1>1, TokenParts DEF Resolves, Welcome, MemberLogin, Login, Teams, Who
  <2>2. users[tokens[k].team] \in UserRecord
    BY <2>1, Versions DEF AppInv
  <2>3. QED
    BY <2>1, <2>2, AccountsAssumption DEF UserRecord
<1>3. PICK x : x = Known(tokens[k].team, tokens[k].login, users[tokens[k].team].role, k)
  OBVIOUS
<1>4. x.token = k /\ x.team = tokens[k].team /\ x # Unserved
  BY <1>3 DEF Known, Unserved
<1>5. /\ HubOK' /\ Few' /\ clients' = clients /\ c \notin clients /\ serve'[c] = x
      /\ \A o \in Socket \ {c} : serve'[o] = serve[o]
  BY <1>1, <1>2, <1>3, AdmitOK DEF HubInv
<1>6. \A o \in Token : Resolves(o)' <=> Resolves(o)
  BY <1>1 DEF Resolves, Welcome, MemberLogin, Login, Teams, Current, Version
<1>7. \A t : Due(t)' <=> Due(t)
  BY <1>1 DEF Due, Through, Cut, Passing
<1>8. Linked!(c)'
  <2>1. tokens'[serve'[c].token] # None /\ tokens'[serve'[c].token].team = serve'[c].team
    BY <1>1, <1>4, <1>5
  <2>2. Resolves(k)'
    BY <1>1, <1>6
  <2>3. Resolves(serve[c].token)'
    BY <1>4, <1>5, <2>2 DEF Resolves, Welcome, MemberLogin, Login, Teams, Current, Version
  <2>4. QED
    BY <2>1, <2>3
<1>9. ASSUME NEW o \in Socket \ {c} PROVE Linked!(o)'
  <2>1. serve'[o] = serve[o] /\ Linked!(o)
    BY <1>5 DEF HubInv, Linked
  <2>2. serve[o] # Unserved => serve[o].token \in Token
    BY Served DEF HubInv
  <2>3. serve[o] # Unserved => (Resolves(serve[o].token)' <=> Resolves(serve[o].token))
    BY <1>1, <2>1 DEF Resolves, Welcome, MemberLogin, Login, Teams, Current, Version
  <2>4. Due(serve[o].team)' <=> Due(serve[o].team)
    BY <1>1, <2>1 DEF Due, Through, Cut, Passing
  <2>5. QED
    BY <1>1, <1>5, <2>1, <2>3, <2>4
<1>10. Linked'
  BY <1>8, <1>9 DEF Linked
<1>11. QED
  BY <1>5, <1>10 DEF HubInv

(* A page's own steps. *)
LEMMA PageHub ==
  ASSUME AppInv, HubInv, Onward, NEW c \in Socket, Page(c)
  PROVE  HubInv'
<1>1. HubStep(c) /\ UNCHANGED <<users, members, tokens, desk>>
  BY DEF Page, appVars
<1>2. HubOK' /\ Few' /\ GoesOn
  BY <1>1, PageOK DEF HubInv
<1>3. \A o \in Socket, t \in Team : Waits(o, t) /\ Due(t) => Due(t)'
  BY <1>1, DueStays
<1>4. Linked'
  BY <1>1, <1>2, <1>3, LinkedStores DEF HubInv
<1>5. QED
  BY <1>2, <1>4 DEF HubInv

-----------------------------------------------------------------------------
(* A step of a call that leaves the records alone and forgets no cut that  *)
(* an open page waits for.                                                 *)
LEMMA CallHub ==
  ASSUME AppInv, HubInv, Onward, UNCHANGED <<users, members>>, Marked,
         NEW a \in Actor, NEW d, desk' = [desk EXCEPT ![a] = d],
         \A c \in Socket, t \in Team : Waits(c, t) /\ Through(desk[a], t) => Through(d, t)
  PROVE  HubInv'
<1>1. HubOK' /\ Few' /\ GoesOn
  BY MarkedGoesOn DEF HubInv
<1>2. \A c \in Socket, t \in Team : Waits(c, t) /\ Due(t) => Due(t)'
  BY DueMoves DEF AppInv
<1>3. Linked'
  BY <1>1, <1>2, LinkedStores DEF HubInv
<1>4. QED
  BY <1>1, <1>3 DEF HubInv

(* A call begins. *)
LEMMA BeginHub ==
  ASSUME AppInv, HubInv, Onward, NEW a \in Actor, NEW what \in Call, NEW t \in Team, NEW m \in Who,
         Begin(a, what, t, m)
  PROVE  HubInv'
<1>1. UNCHANGED <<users, members, clients, serve>> /\ desk[a] = <<>>
  BY DEF Begin, hubVars
<1>2. PICK d : desk' = [desk EXCEPT ![a] = d]
  BY DEF Begin
<1>3. Marked
  BY <1>1, NoMarks DEF HubInv
<1>4. \A o : ~Through(desk[a], o)
  BY <1>1 DEF Through
<1>5. QED
  BY <1>1, <1>2, <1>3, <1>4, CallHub

(* A call to the hub: a role set, or a team's pages cut. *)
LEMMA PagesHub ==
  ASSUME AppInv, HubInv, Onward, NEW a \in Actor, SetPagesRole(a) \/ Disconnect(a)
  PROVE  HubInv'
<1> USE DEF AppInv, HubInv
<1>1. desk[a] # <<>> /\ UNCHANGED <<users, members>>
  BY DEF SetPagesRole, Disconnect, Doing
<1>2. PICK d : d = Rest(a)
  OBVIOUS
<1>3. desk' = [desk EXCEPT ![a] = d]
  BY <1>2 DEF SetPagesRole, Disconnect
<1>4. Now(a) \in Step
  BY <1>1, DeskParts
<1>5. CASE SetPagesRole(a)
  <2>1. Now(a).do = "role" /\ Now(a).role \in {"investor", "fund_manager"}
    BY <1>4, <1>5 DEF SetPagesRole, Doing, Step
  <2>2. Marked
    BY <1>5, <2>1, RoleMarks DEF SetPagesRole
  <2>3. \A t : Through(desk[a], t) => Through(d, t)
    BY <1>2, <2>1, ThroughRest DEF Cut
  <2>4. QED
    BY <1>1, <1>3, <2>2, <2>3, CallHub
<1>6. CASE Disconnect(a)
  <2> DEFINE ended == {k \in Token : ~Resolves(k)}
  <2>1. Now(a).do = "cut" /\ DisconnectAccount(Now(a).team, ended)
    BY <1>6 DEF Disconnect, Doing
  <2>2. /\ Marked
        /\ \A c \in Socket :
              /\ serve[c] # Unserved /\ serve[c].team = Now(a).team /\ serve[c].token \in ended
              => serve'[c].cut \/ serve'[c].late
    <3> HIDE DEF ended
    <3>1. QED
      BY <2>1, CutMarks
  <2>3. \A t : t # Now(a).team => Now(a) # Cut(t)
    BY DEF Cut
  <2>4. \A t : t # Now(a).team /\ Through(desk[a], t) => Through(d, t)
    BY <1>2, <2>3, ThroughRest
  <2>5. ASSUME NEW c \in Socket, NEW t \in Team, Waits(c, t), Through(desk[a], t)
        PROVE  Through(d, t)
    <3>1. serve[c].token \in ended
      BY <2>5, Served DEF Waits
    <3>2. t # Now(a).team
      BY <2>2, <2>5, <3>1 DEF Waits
    <3>3. QED
      BY <2>4, <2>5, <3>2
  <2>6. QED
    BY <1>1, <1>3, <2>2, <2>5, CallHub
<1>7. QED
  BY <1>5, <1>6

(* The reset's record. *)
LEMMA ResetRecordHub ==
  ASSUME AppInv, HubInv, Onward, NEW a \in Actor, ResetRecord(a)
  PROVE  HubInv'
<1> USE DEF AppInv, HubInv
<1>1. desk[a] # <<>> /\ Now(a).do = "reset" /\ UNCHANGED <<users, members, clients, serve>>
  BY DEF ResetRecord, Doing, hubVars
<1>2. PICK d : desk' = [desk EXCEPT ![a] = d]
  BY DEF ResetRecord
<1>3. Marked
  BY <1>1, NoMarks
<1>4. ASSUME NEW t, Through(desk[a], t) PROVE FALSE
  <2>1. Now(a) # Cut(t) /\ ~Passing(Now(a))
    BY <1>1 DEF Cut, Passing
  <2>2. QED
    BY <1>4, <2>1, ThroughRest
<1>5. QED
  BY <1>1, <1>2, <1>3, <1>4, CallHub

(* The reset drops the teams. *)
LEMMA ClearTeamsHub ==
  ASSUME AppInv, HubInv, Onward, NEW a \in Actor, ClearTeams(a)
  PROVE  HubInv'
<1> USE DEF AppInv, HubInv
<1>1. desk[a] # <<>> /\ Now(a).do = "clear" /\ UNCHANGED <<users, members, clients, serve>>
  BY DEF ClearTeams, Doing, hubVars
<1> DEFINE does == [t \in Team |-> Edit("Clear", t, None)]
<1>2. PICK p : p = EachTeam(does)
  OBVIOUS
<1>3. PICK d : d = p \o Rest(a)
  OBVIOUS
<1>4. does \in [Team -> Step]
  BY DEF Edit, Step, What, Who
<1>5. \A t \in Team : Passing(does[t])
  BY DEF Edit, Passing
<1>6. desk' = [desk EXCEPT ![a] = d]
  BY <1>2, <1>3 DEF ClearTeams
<1> HIDE DEF does
<1>7. p \in Seq(Step) /\ \A i \in 1 .. Len(p) : \E t \in Teams : p[i] = does[t]
  BY <1>2, <1>4, ForEachTeam
<1>8. \A i \in 1 .. Len(p) : Passing(p[i])
  BY <1>5, <1>7 DEF Teams
<1>9. Rest(a) \in Seq(Step)
  BY <1>1, DeskParts
<1>10. ASSUME NEW t, Through(desk[a], t) PROVE Through(d, t)
  <2>1. Through(Rest(a), t)
    BY <1>1, <1>10, ThroughRest DEF Cut
  <2>2. QED
    BY <1>3, <1>7, <1>8, <1>9, <2>1, ThroughJoined
<1>11. Marked
  BY <1>1, NoMarks
<1>12. QED
  BY <1>1, <1>6, <1>10, <1>11, CallHub

(* Every page of a team that is dropped waits for its cut. *)
LEMMA DropTeamsHub ==
  ASSUME AppInv, HubInv, Onward, NEW a \in Actor, DropTeams(a)
  PROVE  HubInv'
<1> USE DEF AppInv, HubInv
<1>1. desk[a] # <<>> /\ Now(a).do = "drop"
  BY DEF DropTeams, Doing
<1> DEFINE does == [t \in Team |-> Cut(t)]
<1>2. PICK p : p = EachTeam(does)
  OBVIOUS
<1>3. PICK d : d = Rest(a) \o p
  OBVIOUS
<1>4. does \in [Team -> Step] /\ \A t \in Team : does[t] = Cut(t)
  BY DEF Cut, Step
<1>5. desk' = [desk EXCEPT ![a] = d]
  BY <1>2, <1>3 DEF DropTeams
<1> HIDE DEF does
<1>6. /\ p \in Seq(Step)
      /\ \A i \in 1 .. Len(p) : \E t \in Teams : p[i] = does[t]
      /\ \A t \in Teams : \E i \in 1 .. Len(p) : p[i] = does[t]
  BY <1>2, <1>4, ForEachTeam
<1>7. \A t \in Teams : Through(p, t)
  <2>1. \A i \in 1 .. Len(p) : Passing(p[i])
    BY <1>4, <1>6 DEF Teams, Cut, Passing
  <2>2. Len(p) \in Nat
    BY <1>6
  <2>3. QED
    BY <1>4, <1>6, <2>1, <2>2 DEF Teams, Through
<1>8. /\ Now(a) = desk[a][1] /\ Len(desk[a]) \in Nat /\ Len(desk[a]) >= 1
      /\ Rest(a) \in Seq(Step) /\ Len(Rest(a)) = Len(desk[a]) - 1
      /\ \A i \in 1 .. Len(desk[a]) - 1 : Rest(a)[i] = desk[a][i + 1]
  BY <1>1, DeskParts
<1>9. \A i \in 1 .. Len(Rest(a)) : Passing(Rest(a)[i])
  <2> SUFFICES ASSUME NEW i \in 1 .. Len(Rest(a)) PROVE Passing(Rest(a)[i])
    OBVIOUS
  <2>1. 1 \in 1 .. Len(desk[a]) /\ i + 1 \in 1 .. Len(desk[a]) /\ i + 1 # 1
    BY <1>8
  <2>2. Shaped(desk[a])
    BY DEF Desks
  <2>3. desk[a][i + 1].do \in {"reset", "drop", "clear"}
    BY <1>1, <1>8, <2>1, <2>2 DEF Shaped
  <2>4. desk[a][i + 1].do \notin {"reset", "drop"}
    BY <1>1, <1>8, <2>1, <2>2 DEF Shaped
  <2>5. Rest(a)[i] = desk[a][i + 1]
    BY <1>8
  <2>6. QED
    BY <2>3, <2>4, <2>5 DEF Passing
<1>10. \A t \in Teams : Due(t)'
  <2>1. \A t \in Teams : Through(d, t)
    BY <1>3, <1>6, <1>7, <1>8, <1>9, ThroughJoined
  <2>2. QED
    BY <1>5, <2>1, DueNow
<1>11. \A t : ~Due(t)
  <2>1. ASSUME NEW t, Through(desk[a], t) PROVE FALSE
    <3>1. Now(a) # Cut(t) /\ ~Passing(Now(a))
      BY <1>1 DEF Cut, Passing
    <3>2. QED
      BY <2>1, <3>1, ThroughRest
  <2>2. 1 \in 1 .. Len(desk[a])
    BY <1>8
  <2>3. Clears(desk[a])
    BY <1>1, <1>8, <2>2 DEF Clears
  <2>4. \A b \in Actor \ {a} : desk[b] = <<>>
    BY <2>3 DEF Desks
  <2>5. \A b \in Actor \ {a} : Len(desk[b]) = 0
    BY <2>4
  <2>6. \A b \in Actor \ {a} : \A t : ~Through(desk[b], t)
    BY <2>5 DEF Through
  <2>7. QED
    BY <2>1, <2>6 DEF Due
<1>12. Marked
  <2>1. UNCHANGED <<clients, serve>>
    BY DEF DropTeams
  <2>2. QED
    BY <2>1, NoMarks
<1>13. HubOK' /\ Few' /\ GoesOn
  BY <1>12, MarkedGoesOn
<1>14. \A c \in Socket, k \in Token, t \in Team :
            /\ serve[c] # Unserved /\ serve[c].token = k /\ serve[c].team = t /\ tokens[k] # None
            /\ tokens[k].team = t
            /\ serve'[c] # Unserved /\ ~serve'[c].late /\ ~serve'[c].cut /\ Resolves(k)
            => Resolves(k)' \/ Due(t)'
  <2> SUFFICES ASSUME NEW c \in Socket, NEW k \in Token, NEW t \in Team,
                      serve[c] # Unserved, tokens[k] # None, tokens[k].team = t,
                      serve'[c] # Unserved, ~serve'[c].late, ~serve'[c].cut, Resolves(k)
               PROVE  Due(t)'
    OBVIOUS
  <2>1. t \in Teams
    BY DEF Resolves, Welcome, MemberLogin, Login
  <2>2. QED
    BY <1>10, <2>1
<1>15. Linked'
  BY <1>11, <1>13, <1>14, LinkedOn
<1>16. QED
  BY <1>13, <1>15

(* An edit that cuts no pages leaves sign-ins as they were. *)
LEMMA EditedLets ==
  ASSUME NEW e \in Step, e.do = "user", ~Cutting(e.what), NEW u \in UserRecord
  PROVE  Edited(e, u).ver = u.ver /\ (Edited(e, u).locked => u.locked)
<1>1. e.what \in What
  BY DEF Step
<1> DEFINE Fine(v) == v.ver = u.ver /\ (v.locked => u.locked)
<1> SUFFICES Fine(Edited(e, u))
  OBVIOUS
<1>2. CASE e.what \in {"Unlock", "Readmit"}
  <2>1. Edited(e, u) = Locks(u, FALSE) \/ Edited(e, u) = Readmitted(u)
    BY <1>2 DEF Edited
  <2>2. Fine(Locks(u, FALSE)) /\ Fine(Readmitted(u))
    BY ZenonT(30) DEF UserRecord, Locks, Readmitted, Reinstated
  <2>3. QED
    BY <2>1, <2>2
<1>3. CASE e.what \in {"Reinstate", "Promote", "SetRole", "Warn", "Disqualify", "NewTeamCode"}
  <2>1. \/ Edited(e, u) = Reinstated(u) \/ Edited(e, u) = [u EXCEPT !.role = "fund_manager"]
        \/ Edited(e, u) = Moved(u) \/ Edited(e, u) = Warned(u)
        \/ Edited(e, u) = [u EXCEPT !.status = "disqualified"]
        \/ Edited(e, u) = [u EXCEPT !.code = TRUE]
    BY <1>3 DEF Edited
  <2>2. /\ Fine(Reinstated(u)) /\ Fine([u EXCEPT !.role = "fund_manager"])
        /\ Fine(Moved(u)) /\ Fine(Warned(u))
        /\ Fine([u EXCEPT !.status = "disqualified"])
        /\ Fine([u EXCEPT !.code = TRUE])
    BY ZenonT(30) DEF UserRecord, Reinstated, Moved, Warned
  <2>3. QED
    BY <2>1, <2>2
<1>4. CASE e.what \in {"SetTrader", "Clear"}
  <2>1. Edited(e, u) = [u EXCEPT !.trader = e.member] \/ Edited(e, u) = Cleared(u)
    BY <1>4 DEF Edited
  <2>2. Fine([u EXCEPT !.trader = e.member]) /\ Fine(Cleared(u))
    BY ZenonT(30) DEF UserRecord, Cleared
  <2>3. QED
    BY <2>1, <2>2
<1>5. QED
  BY <1>1, <1>2, <1>3, <1>4 DEF What, OneTeam, Cutting

(* A team's record is updated: its sign-ins may end ... *)
LEMMA UpdateUserHub ==
  ASSUME AppInv, HubInv, Onward, NEW a \in Actor, UpdateUser(a)
  PROVE  HubInv'
<1> USE DEF AppInv, HubInv
<1>e. PICK e : e = Now(a)
  OBVIOUS
<1>1. desk[a] # <<>> /\ e.do = "user" /\ UNCHANGED members
  BY <1>e DEF UpdateUser, Doing
<1>2. e \in Step /\ Rest(a) \in Seq(Step) /\ Shaped(desk[a])
  BY <1>e, <1>1, DeskParts DEF Desks
<1>3. \A t : e # Cut(t)
  BY <1>1 DEF Cut
<1>4. \A t : Through(desk[a], t) => e.what = "Clear" /\ Through(Rest(a), t)
  <2> SUFFICES ASSUME NEW t, Through(desk[a], t)
               PROVE  e.what = "Clear" /\ Through(Rest(a), t)
    OBVIOUS
  <2>1. Passing(e) /\ Through(Rest(a), t)
    BY <1>e, <1>3, ThroughRest
  <2>2. QED
    BY <1>1, <2>1 DEF Passing
<1>5. PICK f : f = IF e.what = "Clear" THEN Rest(a) ELSE <<>>
  OBVIOUS
<1>6. PICK t : t = e.team
  OBVIOUS
<1>7. PICK u : u = Edited(e, users[t])
  OBVIOUS
<1>8. PICK g : g = <<Role(t, u.role)>> \o Rest(a)
  OBVIOUS
<1>9. \/ users' = users /\ UNCHANGED <<clients, serve>> /\ desk' = [desk EXCEPT ![a] = f]
      \/ /\ t \in Teams /\ users' = [users EXCEPT ![t] = u]
         /\ desk' = [desk EXCEPT ![a] = g] /\ UNCHANGED <<clients, serve>>
  BY <1>e, <1>5, <1>6, <1>7, <1>8 DEF UpdateUser, hubVars
<1>10. CASE users' = users /\ UNCHANGED <<clients, serve>> /\ desk' = [desk EXCEPT ![a] = f]
  <2>1. Marked
    BY <1>10, NoMarks
  <2>2. \A o : Through(desk[a], o) => Through(f, o)
    BY <1>4, <1>5
  <2>3. QED
    BY <1>1, <1>10, <2>1, <2>2, CallHub
<1>11. CASE /\ t \in Teams /\ users' = [users EXCEPT ![t] = u]
            /\ desk' = [desk EXCEPT ![a] = g] /\ UNCHANGED <<clients, serve>>
  <2>1. t \in Team /\ users[t] # None /\ users[t] \in UserRecord
    BY <1>11, Versions DEF Teams
  <2>2. u \in UserRecord /\ u # None
    BY <1>1, <1>2, <1>7, <2>1, EditedOK, AccountsAssumption
  <2>3. users'[t] = u /\ \A o \in Team \ {t} : users'[o] = users[o]
    BY <1>11, <2>1 DEF TypeOK, Stores
  <2>4. Marked
    BY <1>11, NoMarks
  <2>5. HubOK' /\ Few' /\ GoesOn
    BY <2>4, MarkedGoesOn
  <2>6. \A o : Through(Rest(a), o) => Through(g, o)
    <3> DEFINE r == Role(t, u.role)
    <3>1. r \in Step /\ Passing(r)
      BY <2>1, <2>2 DEF Role, Step, UserRecord, Passing
    <3> HIDE DEF r
    <3>2. <<r>> \in Seq(Step) /\ \A i \in 1 .. Len(<<r>>) : Passing(<<r>>[i])
      BY <3>1
    <3>3. g = <<r>> \o Rest(a)
      BY <1>8 DEF r
    <3>4. QED
      BY <1>2, <3>2, <3>3, ThroughJoined
  <2>7. \A c \in Socket, o \in Team : Waits(c, o) /\ Due(o) => Due(o)'
    BY <1>4, <1>11, <2>6, DueMoves
  <2>8. \A c \in Socket, k \in Token, o \in Team :
            /\ serve[c] # Unserved /\ serve[c].token = k /\ serve[c].team = o /\ tokens[k] # None
            /\ tokens[k].team = o
            /\ serve'[c] # Unserved /\ ~serve'[c].late /\ ~serve'[c].cut /\ Resolves(k)
            => Resolves(k)' \/ Due(o)'
    <3> SUFFICES ASSUME NEW c \in Socket, NEW k \in Token, NEW o \in Team,
                        serve[c] # Unserved, serve[c].team = o, tokens[k] # None, tokens[k].team = o,
                        serve'[c] # Unserved, ~serve'[c].late, ~serve'[c].cut, Resolves(k)
                 PROVE  Resolves(k)' \/ Due(o)'
      OBVIOUS
    <3>1. tokens'[k] = tokens[k]
      BY DEF Onward
    <3>2. CASE o # t
      BY <1>1, <2>3, <3>1, <3>2, ResolvesStays
    <3>3. CASE o = t /\ Cutting(e.what)
      <4>1. Through(Rest(a), t)
        BY <1>e, <1>1, <1>2, <1>6, <3>3, ThroughNext
      <4>2. Due(t)'
        BY <1>11, <2>6, <4>1, DueNow
      <4>3. QED
        BY <3>3, <4>2 DEF Due, Through, Cut
    <3>4. CASE o = t /\ ~Cutting(e.what)
      <4>1. u.ver = users[t].ver /\ (u.locked => users[t].locked)
        BY <1>1, <1>2, <1>7, <2>1, <3>4, EditedLets
      <4>2. QED
        BY <1>1, <2>1, <2>2, <2>3, <3>1, <3>4, <4>1
           DEF Resolves, Welcome, MemberLogin, Login, Teams, Current, Version
    <3>5. QED
      BY <3>2, <3>3, <3>4
  <2>9. Linked'
    BY <2>5, <2>7, <2>8, LinkedOn
  <2>10. QED
    BY <2>5, <2>9
<1>12. QED
  BY <1>9, <1>10, <1>11

(* ... a member's record likewise. *)
LEMMA UpdateMemberHub ==
  ASSUME AppInv, HubInv, Onward, NEW a \in Actor, UpdateMember(a)
  PROVE  HubInv'
<1> USE DEF AppInv, HubInv
<1>e. PICK e : e = Now(a)
  OBVIOUS
<1>1. desk[a] # <<>> /\ e.do = "member" /\ UNCHANGED users
  BY <1>e DEF UpdateMember, Doing
<1>2. e \in Step /\ Rest(a) \in Seq(Step) /\ Shaped(desk[a])
  BY <1>e, <1>1, DeskParts DEF Desks
<1>3. Aimed(e)
  <2>1. 1 \in 1 .. Len(desk[a]) /\ e = desk[a][1]
    BY <1>e, <1>1, DeskParts
  <2>2. QED
    BY <2>1 DEF Desks, Aimed, Unstored
<1>4. \A t : ~Through(desk[a], t)
  <2> SUFFICES ASSUME NEW t, Through(desk[a], t) PROVE FALSE
    OBVIOUS
  <2>1. e # Cut(t) /\ ~Passing(e)
    BY <1>1 DEF Cut, Passing
  <2>2. QED
    BY <1>e, <2>1, ThroughRest
<1>5. PICK d : d = Rest(a)
  OBVIOUS
<1>6. PICK m : m = e.member
  OBVIOUS
<1>7. PICK t : t = e.team
  OBVIOUS
<1>8. \/ members' = members /\ UNCHANGED <<clients, serve>> /\ desk' = [desk EXCEPT ![a] = <<>>]
      \/ /\ members[m] # None /\ members' = [members EXCEPT ![m] = EditedMember(e, members[m])]
         /\ desk' = [desk EXCEPT ![a] = d] /\ UNCHANGED <<clients, serve>>
  BY <1>e, <1>5, <1>6, <1>7 DEF UpdateMember, hubVars
<1>9. CASE members' = members /\ UNCHANGED <<clients, serve>> /\ desk' = [desk EXCEPT ![a] = <<>>]
  <2>1. Marked
    BY <1>9, NoMarks
  <2>2. QED
    BY <1>1, <1>4, <1>9, <2>1, CallHub
<1>10. CASE /\ members[m] # None /\ members' = [members EXCEPT ![m] = EditedMember(e, members[m])]
            /\ desk' = [desk EXCEPT ![a] = d] /\ UNCHANGED <<clients, serve>>
  <2>1. m \in Member /\ members[m].team = t
    BY <1>1, <1>3, <1>6, <1>7, <1>10 DEF Aimed
  <2>2. \A o \in Member \ {m} : members'[o] = members[o]
    BY <1>10 DEF TypeOK, Roster
  <2>3. Marked
    BY <1>10, NoMarks
  <2>4. HubOK' /\ Few' /\ GoesOn
    BY <2>3, MarkedGoesOn
  <2>5. Due(t)'
    <3>1. Through(d, t)
      BY <1>e, <1>1, <1>2, <1>5, <1>7, ThroughNext
    <3>2. QED
      BY <1>10, <3>1, DueNow
  <2>6. \A c \in Socket, o \in Team : Waits(c, o) /\ Due(o) => Due(o)'
    BY <1>4, <1>10, DueMoves
  <2>7. \A c \in Socket, k \in Token, o \in Team :
            /\ serve[c] # Unserved /\ serve[c].token = k /\ serve[c].team = o /\ tokens[k] # None
            /\ tokens[k].team = o
            /\ serve'[c] # Unserved /\ ~serve'[c].late /\ ~serve'[c].cut /\ Resolves(k)
            => Resolves(k)' \/ Due(o)'
    <3> SUFFICES ASSUME NEW c \in Socket, NEW k \in Token, NEW o \in Team,
                        serve[c] # Unserved, serve[c].team = o, tokens[k] # None, tokens[k].team = o,
                        serve'[c] # Unserved, ~serve'[c].late, ~serve'[c].cut, Resolves(k)
                 PROVE  Resolves(k)' \/ Due(o)'
      OBVIOUS
    <3>1. tokens'[k] = tokens[k]
      BY DEF Onward
    <3>2. tokens[k].login \in Member \cup {None}
      BY TokenParts
    <3>3. CASE tokens[k].login # m
      BY <1>1, <2>2, <3>1, <3>2, <3>3, ResolvesStays
    <3>4. CASE tokens[k].login = m
      <4>1. o = t
        BY <2>1, <3>4, AccountsAssumption DEF Resolves, Welcome, MemberLogin
      <4>2. QED
        BY <2>5, <4>1 DEF Due, Through, Cut
    <3>5. QED
      BY <3>3, <3>4
  <2>8. Linked'
    BY <2>4, <2>6, <2>7, LinkedOn
  <2>9. QED
    BY <2>4, <2>8
<1>11. QED
  BY <1>8, <1>9, <1>10

(* A restart has no pages. *)
LEMMA KillHub ==
  ASSUME AppInv, HubInv, Kill
  PROVE  HubInv'
<1>1. HubOK' /\ Few' /\ \A c \in Socket : serve'[c] = Unserved
  BY KillOK DEF HubInv, Kill
<1>2. QED
  BY <1>1 DEF HubInv, Linked

(* Nor does the start. *)
LEMMA InitHub == Init => HubInv
<1> SUFFICES ASSUME Init PROVE HubInv
  OBVIOUS
<1>1. clients = {} /\ serve = [c \in Socket |-> Unserved]
  BY DEF Init, HubInit
<1>2. HubOK
  BY <1>1, FS_EmptySet DEF HubOK, Connection, Unserved
<1>3. Few /\ Linked
  BY <1>1 DEF Few, Linked
<1>4. QED
  BY <1>2, <1>3 DEF HubInv

(* The hub's invariant over any step. *)
LEMMA NextHub == AppInv /\ HubInv /\ [Next]_vars => HubInv'
<1> SUFFICES ASSUME AppInv, HubInv, [Next]_vars PROVE HubInv'
  OBVIOUS
<1>0. Onward
  BY NextOnward
<1>1. ASSUME NEW n \in Newcomer, NEW addr \in Address,
             Reserve(n, addr) \/ \E t \in Team : Find(n, t, addr)
      PROVE  HubInv'
  BY <1>0, <1>1, RegisteringHub
<1>2. ASSUME NEW n \in Newcomer, Store(n) \/ Join(n) PROVE HubInv'
  BY <1>0, <1>2, StoreHub, RegisteringHub
<1>3. ASSUME NEW k \in Token, SignOutToken(k) PROVE HubInv'
  BY <1>0, <1>3, SignInHub
<1>4. ASSUME NEW k \in Token, NEW t \in Team, NEW m \in Member \cup {None}, SignIn(k, t, m)
      PROVE  HubInv'
  BY <1>0, <1>4, SignInHub DEF Who
<1>5. ASSUME NEW k \in Token, NEW c \in Socket, Connect(c, k) PROVE HubInv'
  BY <1>0, <1>5, ConnectHub
<1>6. ASSUME NEW c \in Socket, Page(c) PROVE HubInv'
  BY <1>0, <1>6, PageHub
<1>7. ASSUME NEW a \in Actor, NEW what \in Call, NEW t \in Team, NEW m \in Member \cup {None},
             Begin(a, what, t, m)
      PROVE  HubInv'
  BY <1>0, <1>7, BeginHub DEF Who
<1>8. ASSUME NEW a \in Actor,
             \/ UpdateUser(a) \/ UpdateMember(a) \/ SetPagesRole(a) \/ Disconnect(a)
             \/ ResetRecord(a) \/ DropTeams(a) \/ ClearTeams(a)
      PROVE  HubInv'
  BY <1>0, <1>8, UpdateUserHub, UpdateMemberHub, PagesHub, ResetRecordHub, DropTeamsHub, ClearTeamsHub
<1>9. CASE Kill
  BY <1>9, KillHub
<1>10. CASE UNCHANGED vars
  BY <1>0, <1>10, HubStays DEF vars, appVars, hubVars
<1>11. QED
  BY <1>1, <1>2, <1>3, <1>4, <1>5, <1>6, <1>7, <1>8, <1>9, <1>10 DEF Next

(* So it holds throughout, where no reset overtakes a call. *)
LEMMA HubStands == ~Overtake /\ Spec => []HubInv
<1> SUFFICES ASSUME ~Overtake PROVE Spec => []HubInv
  OBVIOUS
<1>1. Spec => []AppInv
  BY AccountsStand
<1>2. Init => HubInv
  BY InitHub
<1>3. AppInv /\ HubInv /\ [Next]_vars => HubInv'
  BY NextHub
<1>4. QED
  BY <1>1, <1>2, <1>3, PTL DEF Spec

(* A page that is open with a sign-in that organisers have ended has its   *)
(* cut still to come, or it is one the cut has missed: authenticated       *)
(* before the sign-in ended, and put into the hub's maps only after the    *)
(* account's pages were closed (presence.go SignOut, Lock, Eject,          *)
(* members.go RemoveMember).  Of a page in the maps the cut is never       *)
(* forgotten, whichever step of the call fails; a page that was not in     *)
(* them yet stays open, against presence.go:45-46, and is excepted.        *)
THEOREM EndedPagesClose == ~Overtake /\ Spec => []PagesClosed
<1>1. AppInv /\ HubInv => PagesClosed
  <2> SUFFICES ASSUME AppInv, HubInv, NEW c \in clients, Open(c), ~serve[c].late
               PROVE  Resolves(serve[c].token) \/ ToCut(serve[c].team)
    BY DEF PagesClosed
  <2>1. c \in Socket /\ serve[c] # Unserved
    BY ClientServed DEF HubInv
  <2>2. Resolves(serve[c].token) \/ Due(serve[c].team)
    BY <2>1 DEF HubInv, Linked, Open
  <2>3. ASSUME Due(serve[c].team) PROVE ToCut(serve[c].team)
    <3>1. PICK a \in Actor : Through(desk[a], serve[c].team)
      BY <2>3 DEF Due
    <3>2. PICK i \in 1 .. Len(desk[a]) : desk[a][i] = Cut(serve[c].team)
      BY <3>1 DEF Through
    <3>3. i \in DOMAIN desk[a]
      BY <3>2 DEF AppInv, TypeOK
    <3>4. QED
      BY <3>2, <3>3 DEF ToCut, Cut
  <2>4. QED
    BY <2>2, <2>3
<1>2. QED
  BY <1>1, AccountsStand, HubStands, PTL

(* Of the pages that are not about to be closed for a newer one, no person *)
(* has more than the limit open (wsapi/hub.go:251-253).                    *)
THEOREM FewPagesStay == ~Overtake /\ Spec => []FewPages
<1>1. HubInv => FewPages
  BY DEF HubInv, Few, FewPages, Staying
<1>2. QED
  BY <1>1, HubStands, PTL
=============================================================================
