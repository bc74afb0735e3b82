---------------------- MODULE WorkspaceRosterProofs ----------------------
(***************************************************************************)
(* Theorems about the people of Workspace: one-time links, sign-up links   *)
(* and the accounts they make, removals, who has a link, and the caps, for *)
(* every interleaving of requests.                                         *)
(***************************************************************************)
EXTENDS WorkspaceProofs

LOCAL INSTANCE FiniteSetsExt

-----------------------------------------------------------------------------
(* Every step of a handler for people starts at its own point.              *)

LEMMA PeopleAt ==
  ASSUME NEW t \in Threads
  PROVE  /\ OwnedCourse(t) => At(t, "course")
         /\ CountNew(t) => At(t, "new")
         /\ Count(t) => At(t, "count")
         /\ NextStudent(t) => At(t, "next")
         /\ Find(t) => At(t, "find")
         /\ Insert(t) => At(t, "insert")
         /\ SetPassword(t) => At(t, "password")
         /\ Enrol(t) => At(t, "enrol")
         /\ Void(t) => At(t, "void")
         /\ Issue(t) => At(t, "issue")
         /\ Unenrol(t) => At(t, "unenrol")
         /\ Member(t) => At(t, "member")
         /\ Holder(t) => At(t, "holder")
         /\ Members(t) => At(t, "members")
         /\ Holders(t) => At(t, "holders")
         /\ Look(t) => At(t, "look")
         /\ Redeem(t) => At(t, "redeem")
         /\ Owner(t) => At(t, "owner")
         /\ ResetRequest(t) => At(t, "reset")
         /\ Verify(t) => At(t, "verify")
         /\ ReadActive(t) => At(t, "active")
         /\ VoidCourseLinks(t) => At(t, "voidlinks")
         /\ PutCourseLink(t) => At(t, "putlink")
         /\ FindLink(t) => At(t, "link")
         /\ Target(t) => At(t, "target")
         /\ ReadAccount(t) => At(t, "account")
         /\ Me(t) => At(t, "me")
         /\ Launch(t) => At(t, "launch")
         /\ EraseCheck(t) => At(t, "erase")
         /\ Wipe(t) => At(t, "wipe")
<1>1. OwnedCourse(t) => At(t, "course")
  BY DEF OwnedCourse
<1>2. CountNew(t) => At(t, "new")
  BY DEF CountNew
<1>3. Count(t) => At(t, "count")
  BY DEF Count
<1>4. NextStudent(t) => At(t, "next")
  BY DEF NextStudent
<1>5. Find(t) => At(t, "find")
  BY DEF Find
<1>6. Insert(t) => At(t, "insert")
  BY DEF Insert
<1>7. SetPassword(t) => At(t, "password")
  BY DEF SetPassword
<1>8. Enrol(t) => At(t, "enrol")
  BY DEF Enrol
<1>9. Void(t) => At(t, "void")
  BY DEF Void
<1>10. Issue(t) => At(t, "issue")
  BY DEF Issue
<1>11. Unenrol(t) => At(t, "unenrol")
  BY DEF Unenrol
<1>12. Member(t) => At(t, "member")
  BY DEF Member
<1>13. Holder(t) => At(t, "holder")
  BY DEF Holder
<1>14. Members(t) => At(t, "members")
  BY DEF Members
<1>15. Holders(t) => At(t, "holders")
  BY DEF Holders
<1>16. Look(t) => At(t, "look")
  BY DEF Look
<1>17. Redeem(t) => At(t, "redeem")
  BY DEF Redeem
<1>18. Owner(t) => At(t, "owner")
  BY DEF Owner
<1>19. ResetRequest(t) => At(t, "reset")
  BY DEF ResetRequest
<1>20. Verify(t) => At(t, "verify")
  BY DEF Verify
<1>21. ReadActive(t) => At(t, "active")
  BY DEF ReadActive
<1>22. VoidCourseLinks(t) => At(t, "voidlinks")
  BY DEF VoidCourseLinks
<1>23. PutCourseLink(t) => At(t, "putlink")
  BY DEF PutCourseLink
<1>24. FindLink(t) => At(t, "link")
  BY DEF FindLink
<1>25. Target(t) => At(t, "target")
  BY DEF Target
<1>26. ReadAccount(t) => At(t, "account")
  BY DEF ReadAccount
<1>27. Me(t) => At(t, "me")
  BY DEF Me
<1>28. Launch(t) => At(t, "launch")
  BY DEF Launch
<1>29. EraseCheck(t) => At(t, "erase")
  BY DEF EraseCheck
<1>30. Wipe(t) => At(t, "wipe")
  BY DEF Wipe
<1> QED
  BY <1>1, <1>2, <1>3, <1>4, <1>5, <1>6, <1>7, <1>8, <1>9, <1>10, <1>11, <1>12, <1>13, <1>14,
     <1>15, <1>16, <1>17, <1>18, <1>19, <1>20, <1>21, <1>22, <1>23, <1>24, <1>25,
     <1>26, <1>27, <1>28, <1>29, <1>30

\* Points of the handlers for people that no other handler has.
LEMMA OnlyPeople ==
  ASSUME NEW t \in Threads, Act(t),
         th[t].pc \in {"next", "find", "insert", "password", "enrol", "void", "issue",
                       "unenrol", "member", "holder", "members", "holders", "redeem",
                       "voidlinks", "putlink", "new", "count"}
  PROVE  AccountStep(t) \/ Fail(t)
<1>1. ~DeskStep(t)
  BY DEF DeskStep, CreateExam, NamedCourse, CountExams, ReadExam, PutExam, DeleteExam,
     ReadCourse, PutCourse, CourseExams, DeleteCourse, Since, Parked, ReadPark, WritePark, At
<1>2. ~FormationStep(t)
  BY DEF FormationStep, Mine, ReadOpen, OpenPathway, Reach, StepOn, At
<1>3. ~TileStep(t)
  BY DEF TileStep, Purge, ReadWall, OpenWall, ReadToken, Beat, OwnedWall, CloseWall, At
<1> QED
  BY <1>1, <1>2, <1>3 DEF Act

-----------------------------------------------------------------------------
(* One-time links.                                                          *)

\* An invite that an issue has voided, in a table of which n are given out.
Settled(rows, n, j) == j \in 1..n /\ (rows[j] # None => rows[j].state # "live")

\* A row is redeemed once, from live; what its issue voided stays so.
RowOnce(rows, n, i) ==
  /\ rows[i].state \in {"live", "voided"} => rows[i].uses = 0
  /\ rows[i].uses <= 1
  /\ \A j \in rows[i].over : Settled(rows, n, j)

RowsOnce == \A i \in Issued : RowOnce(invite, minted.invites, i)

\* What an issue under way has voided.
IssuesSettled ==
  \A t \in Threads :
    th[t] # Idle => \A j \in th[t].over : Settled(invite, minted.invites, j)

OnceInv == RowsOnce /\ IssuesSettled

\* A step on the table of invites: a row goes, is voided or is redeemed, or
\* one more is given out.
LEMMA InvitesMove ==
  ASSUME TypeInv, NEW t \in Threads, Act(t)
  PROVE  /\ minted'.invites \in Nat /\ minted.invites \in Nat
         /\ minted'.invites >= minted.invites
         /\ \A i \in 1..minted.invites :
              invite'[i] # None =>
                /\ invite[i] # None /\ invite[i] \in Invite
                /\ invite'[i].who = invite[i].who /\ invite'[i].course = invite[i].course
                /\ invite'[i].over = invite[i].over
                /\ \/ invite'[i].state = invite[i].state /\ invite'[i].uses = invite[i].uses
                   \/ /\ invite[i].state = "live" /\ invite'[i].state = "voided"
                      /\ invite'[i].uses = invite[i].uses
                      /\ Void(t) /\ invite[i].who = th[t].who
                   \/ /\ invite[i].state = "live" /\ invite'[i].state = "redeemed"
                      /\ invite'[i].uses = invite[i].uses + 1
                      /\ Redeem(t) /\ i = th[t].ref
         /\ \A i \in 1..minted'.invites :
              i \in 1..minted.invites
              \/ /\ Issue(t) /\ i = minted.invites + 1
                 /\ invite'[i] = [who |-> th[t].who, course |-> th[t].to, state |-> "live",
                                  old |-> FALSE, uses |-> 0, over |-> th[t].over]
<1> DEFINE job == th[t]
           n == minted.invites
<1>1. /\ invite \in [1..MaxInvites -> Invite \cup {None}] /\ MaxInvites \in Nat
      /\ minted \in [invites : 0..MaxInvites, links : 0..MaxLinks,
                     exams : SUBSET Exams, courses : SUBSET Courses]
  BY IssueAssumption DEF TypeInv, TypeOK, AccountsOK
<1>2. n \in Nat /\ n <= MaxInvites /\ minted'.invites \in Nat /\ 1..n \subseteq 1..MaxInvites
      /\ DOMAIN invite = 1..MaxInvites
  BY <1>1, InviteTyped
<1>3. \A i \in 1..n : invite[i] # None => invite[i] \in Invite
  BY <1>1, <1>2
<1>4. CASE Issue(t)
  <2> DEFINE k == n + 1
             row == [who |-> job.who, course |-> job.to, state |-> "live", old |-> FALSE,
                     uses |-> 0, over |-> job.over]
  <2>1. /\ n < MaxInvites /\ minted' = [minted EXCEPT !.invites = k]
        /\ invite' = [invite EXCEPT ![k] = row]
    BY <1>1, <1>4 DEF Issue, PutInvite
  <2> HIDE DEF row
  <2>2. minted'.invites = n + 1
    BY <1>1, <2>1
  <2>3. \A i \in 1..n : invite'[i] = invite[i]
    BY <1>1, <1>2, <2>1
  <2>4. k \in 1..MaxInvites /\ invite'[k] = row
    BY <1>1, <1>2, <2>1
  <2>5. \A i \in 1..(n + 1) : i \in 1..n \/ i = k
    BY <1>2
  <2> QED
    BY <1>2, <1>3, <1>4, <2>2, <2>3, <2>4, <2>5 DEF row
<1>5. CASE ~Issue(t)
  <2>1. minted'.invites = n
    <3>1. minted' = minted \/ PutCourseLink(t)
      BY <1>5, Writers
    <3> QED
      BY <1>1, <3>1 DEF PutCourseLink, PutLink
  <2>2. ASSUME NEW i \in 1..n, invite'[i] # None
        PROVE  /\ invite[i] # None /\ invite[i] \in Invite
               /\ invite'[i].who = invite[i].who /\ invite'[i].course = invite[i].course
               /\ invite'[i].over = invite[i].over
               /\ \/ invite'[i].state = invite[i].state /\ invite'[i].uses = invite[i].uses
                  \/ /\ invite[i].state = "live" /\ invite'[i].state = "voided"
                     /\ invite'[i].uses = invite[i].uses
                     /\ Void(t) /\ invite[i].who = th[t].who
                  \/ /\ invite[i].state = "live" /\ invite'[i].state = "redeemed"
                     /\ invite'[i].uses = invite[i].uses + 1
                     /\ Redeem(t) /\ i = th[t].ref
    <3>1. CASE invite'[i] = invite[i]
      BY <1>3, <2>2, <3>1
    <3>2. CASE Void(t)
      <4>1. invite'[i] = IF i \in LiveOf(job.who) THEN [invite[i] EXCEPT !.state = "voided"]
                         ELSE invite[i]
        BY <1>2, <3>2 DEF Void, VoidInvites
      <4>2. CASE i \in LiveOf(job.who)
        <5>1. invite[i] # None /\ invite[i].who = job.who /\ invite[i].state = "live"
          BY <4>2 DEF LiveOf, Issued
        <5>2. invite[i] \in Invite
          BY <1>3, <5>1
        <5> QED
          BY <3>2, <4>1, <4>2, <5>1, <5>2 DEF Invite
      <4> QED
        BY <3>1, <4>1, <4>2
    <3>3. CASE Redeem(t)
      <4>1. CASE invite' = invite
        BY <3>1, <4>1
      <4>2. CASE Redeemable(job.ref) /\ RedeemInvite(job.ref)
        <5> DEFINE j == job.ref
                   row == [invite[j] EXCEPT !.state = "redeemed", !.uses = @ + 1]
        <5>1. j \in 1..n /\ invite[j] # None /\ invite[j].state = "live"
          BY <4>2 DEF Redeemable, Issued
        <5>2. invite[j] \in Invite
          BY <1>3, <5>1
        <5>3. invite' = [invite EXCEPT ![j] = row]
          BY <1>1, <4>2, <5>2 DEF RedeemInvite
        <5>4. /\ row.who = invite[j].who /\ row.course = invite[j].course
              /\ row.over = invite[j].over /\ row.state = "redeemed"
              /\ row.uses = invite[j].uses + 1
          BY <5>2 DEF Invite
        <5> HIDE DEF row
        <5>5. CASE i = j
          <6>1. invite'[i] = row
            BY <1>2, <5>1, <5>3, <5>5
          <6> QED
            BY <3>3, <5>1, <5>2, <5>4, <5>5, <6>1
        <5>6. CASE i # j
          BY <1>2, <3>1, <5>3, <5>6
        <5> QED
          BY <5>5, <5>6
      <4> QED
        BY <3>3, <4>1, <4>2 DEF Redeem
    <3>4. CASE Wipe(t)
      BY <1>2, <2>2, <3>1, <3>4 DEF Wipe, DropStudent
    <3> QED
      BY <1>5, <3>1, <3>2, <3>3, <3>4, Writers
  <2> QED
    BY <1>2, <2>1, <2>2
<1> QED
  BY <1>4, <1>5

\* What becomes of the row of an invite that was out.
LEMMA InviteTurns ==
  ASSUME TypeInv, NEW t \in Threads, Act(t), NEW i \in 1..minted.invites, invite'[i] # None
  PROVE  /\ invite[i] # None /\ invite'[i].who = invite[i].who
         /\ \/ invite'[i].state = invite[i].state
            \/ Void(t) /\ invite[i].who = th[t].who
            \/ Redeem(t) /\ i = th[t].ref /\ invite'[i].state = "redeemed"
<1>1. invite[i] # None
  BY InvitesMove
<1>2. invite'[i].who = invite[i].who
  BY InvitesMove
<1>3. \/ invite'[i].state = invite[i].state
      \/ Void(t) /\ invite[i].who = th[t].who
      \/ Redeem(t) /\ i = th[t].ref /\ invite'[i].state = "redeemed"
  BY InvitesMove, ZenonT(40)
<1> QED
  BY <1>1, <1>2, <1>3

LEMMA IssuedRow ==
  ASSUME TypeInv, NEW t \in Threads, Act(t), NEW i \in 1..minted'.invites,
         i \notin 1..minted.invites
  PROVE  Issue(t) /\ invite'[i].course = th[t].to /\ invite'[i].who = th[t].who
<1>1. /\ Issue(t)
      /\ invite'[i] = [who |-> th[t].who, course |-> th[t].to, state |-> "live",
                       old |-> FALSE, uses |-> 0, over |-> th[t].over]
  BY InvitesMove
<1> QED
  BY <1>1

\* What has been voided is never live again.
LEMMA SettledStays ==
  ASSUME TypeInv, NEW t \in Threads, Act(t), NEW j,
         Settled(invite, minted.invites, j)
  PROVE  Settled(invite', minted'.invites, j)
<1>1. j \in 1..minted.invites /\ (invite[j] # None => invite[j].state # "live")
  BY DEF Settled
<1>2. j \in 1..minted'.invites
  <2>1. /\ minted'.invites \in Nat /\ minted.invites \in Nat
        /\ minted'.invites >= minted.invites
    BY InvitesMove
  <2> QED
    BY <1>1, <2>1
<1>3. ASSUME invite'[j] # None PROVE invite'[j].state # "live"
  BY <1>1, <1>3, InvitesMove
<1> QED
  BY <1>2, <1>3 DEF Settled

LEMMA RowsOnceAct ==
  ASSUME TypeInv, OnceInv, NEW t \in Threads, Act(t)
  PROVE  RowsOnce'
<1> SUFFICES ASSUME NEW i \in 1..minted'.invites, invite'[i] # None
             PROVE  RowOnce(invite', minted'.invites, i)
  BY DEF RowsOnce, Issued
<1>1. CASE i \in 1..minted.invites
  <2>1. invite[i] # None /\ RowOnce(invite, minted.invites, i) /\ invite[i].uses \in Nat
    BY <1>1, InvitesMove DEF OnceInv, RowsOnce, Issued, Invite
  <2>2. invite'[i].over = invite[i].over
    BY <1>1, InvitesMove
  <2>3. \A j \in invite'[i].over : Settled(invite', minted'.invites, j)
    BY <2>1, <2>2, SettledStays DEF RowOnce
  <2>4. /\ invite'[i].state \in {"live", "voided"} => invite'[i].uses = 0
        /\ invite'[i].uses <= 1
    <3>1. \/ invite'[i].state = invite[i].state /\ invite'[i].uses = invite[i].uses
          \/ /\ invite[i].state = "live" /\ invite'[i].state = "voided"
             /\ invite'[i].uses = invite[i].uses
          \/ /\ invite[i].state = "live" /\ invite'[i].state = "redeemed"
             /\ invite'[i].uses = invite[i].uses + 1
      BY <1>1, InvitesMove
    <3> QED
      BY <2>1, <3>1 DEF RowOnce
  <2> QED
    BY <2>3, <2>4 DEF RowOnce
<1>2. CASE i \notin 1..minted.invites
  <2>1. /\ Issue(t)
        /\ invite'[i] = [who |-> th[t].who, course |-> th[t].to, state |-> "live",
                         old |-> FALSE, uses |-> 0, over |-> th[t].over]
    BY <1>2, InvitesMove
  <2>2. invite'[i].uses = 0 /\ invite'[i].over = th[t].over
    BY <2>1
  <2>3. th[t] # Idle
    BY <2>1, AtIsBusy, PeopleAt DEF Busy
  <2>4. \A j \in invite'[i].over : Settled(invite', minted'.invites, j)
    BY <2>2, <2>3, SettledStays DEF OnceInv, IssuesSettled
  <2> QED
    BY <2>2, <2>4 DEF RowOnce
<1> QED
  BY <1>1, <1>2

\* The invites that a job means to have voided change at the voiding and at
\* the issue.
LEMMA OverMoves ==
  ASSUME TypeInv, NEW t \in Threads, Act(t), th'[t] # Idle
  PROVE  \/ th[t] # Idle /\ th'[t].over = th[t].over
         \/ Void(t) /\ th'[t].over = LiveOf(th[t].who)
         \/ th'[t].over = {}
<1> SUFFICES ASSUME th'[t].over # th[t].over
             PROVE  \/ Void(t) /\ th'[t].over = LiveOf(th[t].who)
                    \/ th'[t].over = {}
  BY ActMoves, MovesTurn DEF Turn, Follows
<1>1. th[t] # Idle /\ th[t].pc \in {"void", "issue"}
  BY ActMoves, MovesTurn DEF Turn, Follows
<1>2. AccountStep(t)
  <2>1. ~Fail(t)
    BY SetTo DEF Fail, Finish
  <2> QED
    BY <1>1, <2>1, OnlyPeople
<1>3. Void(t) \/ Issue(t)
  BY <1>1, <1>2, PeopleAt DEF At, AccountStep
<1>4. th[t] \in Job /\ th \in [Threads -> Job \cup {Idle}]
  BY <1>1, Working DEF Busy
<1>5. CASE Void(t)
  BY <1>4, <1>5 DEF Void, Finish, Set, Job
<1>6. CASE Issue(t)
  <2> DEFINE job == [th[t] EXCEPT !.over = {}]
  <2>1. \E next \in Advance(job) : Set(t, next)
    BY <1>6 DEF Issue
  <2>2. job \in Job /\ job.over = {}
    BY <1>4 DEF Job
  <2> HIDE DEF job
  <2>3. \A next \in Advance(job) : next = Idle \/ next.over = {}
    BY <2>2 DEF Advance, Job
  <2> QED
    BY <2>1, <2>3, SetTo
<1> QED
  BY <1>3, <1>5, <1>6

LEMMA VoidedSettled ==
  ASSUME TypeInv, NEW t \in Threads, Act(t), Void(t), NEW j \in LiveOf(th[t].who)
  PROVE  Settled(invite', minted'.invites, j)
<1>1. /\ invite \in [1..MaxInvites -> Invite \cup {None}] /\ MaxInvites \in Nat
      /\ minted.invites \in 0..MaxInvites
  BY IssueAssumption DEF TypeInv, TypeOK, AccountsOK
<1>2. j \in 1..minted.invites /\ invite[j] # None /\ j \in 1..MaxInvites
  BY <1>1 DEF LiveOf, Issued
<1>3. invite[j] \in Invite
  BY <1>1, <1>2
<1>4. invite'[j] = [invite[j] EXCEPT !.state = "voided"] /\ minted' = minted
  BY <1>1, <1>2 DEF Void, VoidInvites
<1>5. invite'[j].state = "voided"
  BY <1>3, <1>4 DEF Invite
<1> QED
  BY <1>2, <1>4, <1>5 DEF Settled

LEMMA IssuesSettledAct ==
  ASSUME TypeInv, OnceInv, NEW t \in Threads, Act(t)
  PROVE  IssuesSettled'
<1> SUFFICES ASSUME NEW s \in Threads, th'[s] # Idle, NEW j \in th'[s].over
             PROVE  Settled(invite', minted'.invites, j)
  BY DEF IssuesSettled
<1>1. CASE th[s] # Idle /\ th'[s].over = th[s].over
  BY <1>1, SettledStays DEF OnceInv, IssuesSettled
<1>2. CASE s # t
  BY <1>1, <1>2, OthersKept
<1>3. CASE s = t
  BY <1>1, <1>3, OverMoves, VoidedSettled
<1> QED
  BY <1>2, <1>3

LEMMA OnceNext ==
  ASSUME TypeInv, OnceInv, [Next]_vars
  PROVE  OnceInv'
<1>1. ASSUME NEW t \in Threads, Act(t) PROVE OnceInv'
  BY <1>1, RowsOnceAct, IssuesSettledAct DEF OnceInv
<1>2. ASSUME NEW t \in Threads, Begin(t) PROVE OnceInv'
  <2>1. /\ invite' = invite /\ minted'.invites = minted.invites
        /\ \A s \in Threads \ {t} : th'[s] = th[s]
        /\ th'[t].over = {}
    BY <1>2, BeginWrites, BeginSound
  <2>2. RowsOnce'
    BY <2>1 DEF OnceInv, RowsOnce, Issued, RowOnce, Settled
  <2>3. IssuesSettled'
    BY <2>1 DEF OnceInv, IssuesSettled, Settled
  <2> QED
    BY <2>2, <2>3 DEF OnceInv
<1>3. ASSUME UNCHANGED <<invite, minted, th>> PROVE OnceInv'
  <2>1. RowsOnce'
    BY <1>3 DEF OnceInv, RowsOnce, Issued, RowOnce, Settled
  <2>2. IssuesSettled'
    BY <1>3 DEF OnceInv, IssuesSettled, Settled
  <2> QED
    BY <2>1, <2>2 DEF OnceInv
<1>4. ASSUME UNCHANGED <<minted, th>>, NEW i \in Issued, Expire(i) PROVE OnceInv'
  <2>1. PICK row \in Invite :
          /\ invite' = [invite EXCEPT ![i] = row]
          /\ row.state = invite[i].state /\ row.uses = invite[i].uses
          /\ row.over = invite[i].over
    BY <1>4, ExpireWrites
  <2>2. DOMAIN invite = 1..MaxInvites /\ i \in 1..MaxInvites /\ invite[i] \in Invite
    BY <1>4, ExpireWrites DEF TypeInv, TypeOK, AccountsOK
  <2>3. row # None /\ invite[i] # None
    BY <2>2, NoRowAssumption
  <2>4. \A j : (invite'[j] # None) = (invite[j] # None)
               /\ invite'[j].state = invite[j].state /\ invite'[j].uses = invite[j].uses
               /\ invite'[j].over = invite[j].over
    <3> TAKE j
    <3>1. CASE j = i
      BY <2>1, <2>2, <2>3, <3>1
    <3>2. CASE j # i
      <4>1. invite'[j] = invite[j]
        BY <2>1, <3>2
      <4> QED
        BY <4>1
    <3> QED
      BY <3>1, <3>2
  <2>5. RowsOnce'
    BY <1>4, <2>4 DEF OnceInv, RowsOnce, Issued, RowOnce, Settled
  <2>6. IssuesSettled'
    BY <1>4, <2>4 DEF OnceInv, IssuesSettled, Settled
  <2> QED
    BY <2>5, <2>6 DEF OnceInv
<1> QED
  BY <1>1, <1>2, <1>3, <1>4, Steps, PassWrites

\* InviteOnce: in whatever order threads issue, void and redeem, and whether
\* or not a store call fails, an invite is redeemed at most once and never
\* after it was voided, and one that was out when a later issue voided is
\* never live again (redeem_invite, void_invites_for_student).
THEOREM InvitesAreOnce == Spec => []InviteOnce
<1>1. Init => OnceInv
  <2> SUFFICES ASSUME Init PROVE OnceInv
    OBVIOUS
  <2>1. \A t \in Threads : th[t] = Idle
    BY DEF Init
  <2>2. ASSUME NEW i \in Issued PROVE RowOnce(invite, minted.invites, i)
    <3>1. invite[i] # None
      BY DEF Issued
    <3>2. /\ invite[i].state = "live" /\ invite[i].uses = 0 /\ invite[i].over = {}
      <4>1. PICK sc \in Scenarios : InitInvites(sc)
        BY DEF Init
      <4>2. i \in 1..MaxInvites /\ invite[i] =
              [who |-> CHOOSE s \in In(sc, {"invited"}) : TRUE, course |-> sc.first,
               state |-> "live", old |-> FALSE, uses |-> 0, over |-> {}]
        <5>1. Init => TypeInv
          BY TypeInit
        <5>2. minted.invites \in 0..MaxInvites /\ MaxInvites \in Nat
          BY <5>1, IssueAssumption DEF TypeInv, TypeOK
        <5>3. i \in 1..MaxInvites
          BY <5>2 DEF Issued
        <5> QED
          BY <3>1, <4>1, <5>3 DEF InitInvites
      <4> QED
        BY <4>2
    <3> QED
      BY <3>2 DEF RowOnce
  <2> QED
    BY <2>1, <2>2 DEF OnceInv, RowsOnce, IssuesSettled
<1>2. OnceInv /\ TypeInv /\ [Next]_vars => OnceInv'
  BY OnceNext
<1>3. OnceInv => InviteOnce
  BY DEF OnceInv, RowsOnce, RowOnce, InviteOnce, Settled, Issued
<1> QED
  BY <1>1, <1>2, <1>3, TypesStay, PTL DEF Spec

-----------------------------------------------------------------------------
(* Sign-up links.                                                           *)

\* The active links of a course, in a table of which n are given out.
Active(rows, n, c) ==
  {l \in 1..n : rows[l] # None /\ rows[l].course = c /\ rows[l].on}

Uncrossed == Without({"crossed"})

\* A course has one active link, and none where one is about to be put.
OneOfCourse ==
  Uncrossed =>
    \A c \in Courses : \A k, l \in Active(link, minted.links, c) : k = l

PutsSeeNone ==
  Uncrossed =>
    \A t \in Threads :
      th[t] # Idle /\ th[t].pc = "putlink" => Active(link, minted.links, th[t].to) = {}

LinkInv == OneOfCourse /\ PutsSeeNone

LEMMA ActiveAre == \A c : ActiveLinks(c) = Active(link, minted.links, c)
BY DEF ActiveLinks, Active

\* A step on the links: they go off, or one is put.
LEMMA LinksMove ==
  ASSUME TypeInv, NEW t \in Threads, Act(t), NEW c
  PROVE  /\ \/ Active(link', minted'.links, c) \subseteq Active(link, minted.links, c)
            \/ PutCourseLink(t) /\ c = th[t].to
         /\ VoidCourseLinks(t) /\ c = th[t].to => Active(link', minted'.links, c) = {}
         /\ PutCourseLink(t) =>
              Active(link', minted'.links, c) \subseteq
                Active(link, minted.links, c) \cup {minted.links + 1}
<1> DEFINE n == minted.links
<1>1. /\ link \in [1..MaxLinks -> Link \cup {None}] /\ MaxLinks \in Nat
      /\ minted \in [invites : 0..MaxInvites, links : 0..MaxLinks,
                     exams : SUBSET Exams, courses : SUBSET Courses]
  BY IssueAssumption DEF TypeInv, TypeOK, AccountsOK
<1>2. n \in Nat /\ n <= MaxLinks /\ 1..n \subseteq 1..MaxLinks /\ DOMAIN link = 1..MaxLinks
  BY <1>1
<1>3. CASE PutCourseLink(t)
  <2> DEFINE k == n + 1
             row == [course |-> th[t].to, on |-> TRUE, broken |-> FALSE]
  <2>1. /\ n < MaxLinks /\ minted' = [minted EXCEPT !.links = k]
        /\ link' = [link EXCEPT ![k] = row]
    BY <1>1, <1>3 DEF PutCourseLink, PutLink
  <2>2. minted'.links = k /\ k \in 1..MaxLinks
    BY <1>1, <1>2, <2>1
  <2>3. row.course = th[t].to
    OBVIOUS
  <2> HIDE DEF row
  <2>4. link'[k] = row /\ \A l \in 1..n : link'[l] = link[l]
    BY <1>2, <2>1, <2>2
  <2>5. \A l \in 1..k : l \in 1..n \/ l = k
    BY <1>2
  <2>6. Active(link', minted'.links, c) \subseteq Active(link, n, c) \cup {k}
    BY <2>2, <2>4, <2>5 DEF Active
  <2>7. c # th[t].to => Active(link', minted'.links, c) \subseteq Active(link, n, c)
    BY <2>2, <2>3, <2>4, <2>5 DEF Active
  <2>8. ~VoidCourseLinks(t)
    BY <1>3, PeopleAt DEF At
  <2> QED
    BY <1>3, <2>6, <2>7, <2>8
<1>4. CASE ~PutCourseLink(t)
  <2>1. minted'.links = n
    <3>1. minted' = minted \/ Issue(t)
      BY <1>4, Writers
    <3> QED
      BY <1>1, <3>1 DEF Issue, PutInvite
  <2>2. CASE link' = link
    <3>1. CASE VoidCourseLinks(t) /\ c = th[t].to
      <4>1. link' = [l \in 1..MaxLinks |->
                       IF l \in Active(link, n, c) THEN [link[l] EXCEPT !.on = FALSE]
                       ELSE link[l]]
        BY <1>2, <3>1, ActiveAre DEF VoidCourseLinks, VoidLinks
      <4>2. \A l \in Active(link, n, c) : l \in 1..MaxLinks /\ link[l] \in Link
        BY <1>1, <1>2 DEF Active
      <4>3. \A l \in Active(link, n, c) : ~link'[l].on
        BY <4>1, <4>2 DEF Link
      <4> QED
        BY <1>4, <2>1, <2>2, <4>3 DEF Active
    <3> QED
      BY <1>4, <2>1, <2>2, <3>1
  <2>3. CASE VoidCourseLinks(t)
    <3> DEFINE old == Active(link, n, th[t].to)
    <3>1. link' = [l \in 1..MaxLinks |->
                     IF l \in old THEN [link[l] EXCEPT !.on = FALSE] ELSE link[l]]
      BY <1>2, <2>3, ActiveAre DEF VoidCourseLinks, VoidLinks
    <3>2. \A l \in old : l \in 1..MaxLinks /\ link[l] \in Link
      BY <1>1, <1>2 DEF Active
    <3>3. \A l \in old : ~link'[l].on
      BY <3>1, <3>2 DEF Link
    <3>4. \A l \in 1..n : l \notin old => link'[l] = link[l]
      BY <1>2, <3>1
    <3>5. Active(link', n, c) \subseteq Active(link, n, c)
      BY <3>3, <3>4 DEF Active
    <3>6. c = th[t].to => Active(link', n, c) = {}
      BY <3>3, <3>4 DEF Active
    <3> QED
      BY <1>4, <2>1, <3>5, <3>6
  <2>4. CASE DeleteCourse(t)
    <3>1. link' = [l \in DOMAIN link |->
                     IF link[l] # None /\ link[l].course = th[t].req.course THEN None
                     ELSE link[l]]
      BY <2>4 DEF DeleteCourse, DropCourse
    <3>2. Active(link', n, c) \subseteq Active(link, n, c)
      BY <1>2, <3>1 DEF Active
    <3>3. ~VoidCourseLinks(t)
      BY <2>4, PeopleAt DEF DeleteCourse, At
    <3> QED
      BY <1>4, <2>1, <3>2, <3>3
  <2> QED
    BY <1>4, <2>2, <2>3, <2>4, Writers
<1> QED
  BY <1>3, <1>4

LEMMA OneOfCourseAct ==
  ASSUME TypeInv, LinkInv, NEW t \in Threads, Act(t)
  PROVE  OneOfCourse'
<1> SUFFICES ASSUME "crossed" \notin lost', NEW c \in Courses,
                    NEW k \in Active(link', minted'.links, c),
                    NEW l \in Active(link', minted'.links, c)
             PROVE  k = l
  BY DEF OneOfCourse, Uncrossed, Without
<1>1. Uncrossed
  BY LostGrows DEF Uncrossed, Without
<1>2. CASE Active(link', minted'.links, c) \subseteq Active(link, minted.links, c)
  BY <1>1, <1>2 DEF LinkInv, OneOfCourse
<1>3. CASE PutCourseLink(t) /\ c = th[t].to
  <2>1. th[t] # Idle /\ th[t].pc = "putlink"
    BY <1>3, PeopleAt, AtIsBusy DEF Busy, At
  <2>2. Active(link, minted.links, c) = {}
    BY <1>1, <1>3, <2>1 DEF LinkInv, PutsSeeNone
  <2> QED
    BY <1>3, <2>2, LinksMove
<1> QED
  BY <1>2, <1>3, LinksMove

LEMMA PutsSeeNoneAct ==
  ASSUME TypeInv, LinkInv, NEW t \in Threads, Act(t)
  PROVE  PutsSeeNone'
<1> SUFFICES ASSUME "crossed" \notin lost', NEW s \in Threads, th'[s] # Idle,
                    th'[s].pc = "putlink"
             PROVE  Active(link', minted'.links, th'[s].to) = {}
  BY DEF PutsSeeNone, Uncrossed, Without
<1>1. Uncrossed
  BY LostGrows DEF Uncrossed, Without
<1>2. CASE s # t
  <2>1. th[s] # Idle /\ th[s].pc = "putlink" /\ th'[s].to = th[s].to
    BY <1>2, OthersKept
  <2>2. Active(link, minted.links, th[s].to) = {}
    BY <1>1, <2>1 DEF LinkInv, PutsSeeNone
  <2>3. ~PutCourseLink(t)
    <3>1. s \in Others(t) /\ At(s, "putlink")
      BY <1>2, <2>1 DEF Others, Busy, At
    <3> QED
      BY <3>1 DEF PutCourseLink
  <2> QED
    BY <2>1, <2>2, <2>3, LinksMove
<1>3. CASE s = t
  <2>1. ReadActive(t) \/ VoidCourseLinks(t)
    BY <1>3, Arrivals
  <2>2. th'[t].to = th[t].to
    <3>1. th[t].pc \in {"active", "voidlinks"}
      BY <2>1, PeopleAt DEF At
    <3> QED
      BY <1>3, <3>1, ActMoves, MovesTurn DEF Turn, Follows
  <2>3. CASE VoidCourseLinks(t)
    BY <1>3, <2>2, <2>3, LinksMove
  <2>4. CASE ReadActive(t)
    <3> DEFINE S == Active(link, minted.links, th[t].to)
    <3>1. AfterActive(ActiveLink(th[t].to)) = "putlink"
      <4>1. Busy(t) /\ th \in [Threads -> Job \cup {Idle}] /\ th[t] \in Job
        BY <2>4, PeopleAt, AtIsBusy, Working
      <4> QED
        BY <1>3, <2>4, <4>1, SetTo DEF ReadActive, Finish, Go, Job
    <3>2. ActiveLink(th[t].to) = None
      BY <3>1 DEF AfterActive
    <3>3. S \subseteq Nat /\ IsFiniteSet(S)
      <4>1. minted.links \in Nat
        BY IssueAssumption DEF TypeInv, TypeOK
      <4>2. IsFiniteSet(1..minted.links)
        BY <4>1, FS_Interval
      <4>3. S \subseteq 1..minted.links
        BY DEF Active
      <4> QED
        BY <4>1, <4>2, <4>3, FS_Subset
    <3>4. S = {}
      <4> SUFFICES ASSUME S # {} PROVE FALSE
        OBVIOUS
      <4>1. \E l \in S : \A k \in S : k <= l
        BY <3>3, GreatestNumber
      <4>2. ActiveLink(th[t].to) \in S
        BY <4>1, ActiveAre DEF ActiveLink
      <4> QED
        BY <3>2, <3>3, <4>2, NamesAssumption
    <3>5. ~PutCourseLink(t)
      BY <2>4, PeopleAt DEF At
    <3> QED
      BY <1>3, <2>2, <3>4, <3>5, LinksMove
  <2> QED
    BY <2>1, <2>3, <2>4
<1> QED
  BY <1>2, <1>3

LEMMA LinkNext ==
  ASSUME TypeInv, LinkInv, [Next]_vars
  PROVE  LinkInv'
<1>1. ASSUME NEW t \in Threads, Act(t) PROVE LinkInv'
  BY <1>1, OneOfCourseAct, PutsSeeNoneAct DEF LinkInv
<1>2. ASSUME NEW t \in Threads, Begin(t) PROVE LinkInv'
  <2>1. /\ link' = link /\ minted'.links = minted.links /\ lost' = lost
        /\ \A s \in Threads \ {t} : th'[s] = th[s]
        /\ th'[t].pc # "putlink"
    BY <1>2, BeginWrites, BeginSound DEF Firsts
  <2>2. OneOfCourse'
    BY <2>1 DEF LinkInv, OneOfCourse, Active, Uncrossed, Without
  <2>3. PutsSeeNone'
    BY <2>1 DEF LinkInv, PutsSeeNone, Active, Uncrossed, Without
  <2> QED
    BY <2>2, <2>3 DEF LinkInv
<1>3. ASSUME UNCHANGED <<minted, th, lost>>, link' = link \/ Rotate PROVE LinkInv'
  <2>1. /\ link \in [1..MaxLinks -> Link \cup {None}] /\ MaxLinks \in Nat
        /\ minted.links \in 0..MaxLinks
    BY IssueAssumption DEF TypeInv, TypeOK, AccountsOK
  <2>2. \A l \in 1..minted.links : l \in 1..MaxLinks /\ link[l] \in Link \cup {None}
    BY <2>1
  <2>3. \A l \in 1..minted.links :
          link'[l] # None => /\ link[l] # None /\ link'[l].on = link[l].on
                             /\ link'[l].course = link[l].course
    <3> SUFFICES ASSUME NEW l \in 1..minted.links, Rotate, link'[l] # None
                 PROVE  /\ link[l] # None /\ link'[l].on = link[l].on
                        /\ link'[l].course = link[l].course
      BY <1>3
    <3>1. link'[l] = IF link[l] = None THEN None ELSE [link[l] EXCEPT !.broken = TRUE]
      BY <2>1, <2>2 DEF Rotate
    <3>2. link[l] # None
      BY <3>1
    <3>3. link[l] \in Link
      BY <2>2, <3>2
    <3> QED
      BY <3>1, <3>2, <3>3 DEF Link
  <2>4. \A c : Active(link', minted.links, c) \subseteq Active(link, minted.links, c)
    BY <2>3 DEF Active
  <2>5. OneOfCourse'
    <3> SUFFICES ASSUME "crossed" \notin lost, NEW c \in Courses,
                        NEW k \in Active(link', minted.links, c),
                        NEW l \in Active(link', minted.links, c)
                 PROVE  k = l
      BY <1>3 DEF OneOfCourse, Uncrossed, Without
    <3> QED
      BY <2>4 DEF LinkInv, OneOfCourse, Uncrossed, Without
  <2>6. PutsSeeNone'
    <3> SUFFICES ASSUME "crossed" \notin lost, NEW s \in Threads, th[s] # Idle,
                        th[s].pc = "putlink"
                 PROVE  Active(link', minted.links, th[s].to) = {}
      BY <1>3 DEF PutsSeeNone, Uncrossed, Without
    <3> QED
      BY <2>4 DEF LinkInv, PutsSeeNone, Uncrossed, Without
  <2> QED
    BY <2>5, <2>6 DEF LinkInv
<1> QED
  BY <1>1, <1>2, <1>3, Steps, PassWrites

\* OneActiveLink: a course has one active sign-up link at most, in every
\* history in which no two requests put theirs at once, rotations of the
\* signing secret and deletions of courses included (join_links.enable).
THEOREM LinksAreOne == Spec => []OneActiveLink
<1>1. Init => LinkInv
  <2> SUFFICES ASSUME Init PROVE LinkInv
    OBVIOUS
  <2>1. /\ \A t \in Threads : th[t] = Idle
        /\ \A l \in 1..MaxLinks : link[l] = None
    BY DEF Init
  <2>2. minted.links = 0
    BY DEF Init, InitInvites
  <2>3. 1..minted.links = {}
    BY <2>2
  <2> QED
    BY <2>1, <2>3 DEF LinkInv, OneOfCourse, PutsSeeNone, Active
<1>2. LinkInv /\ TypeInv /\ [Next]_vars => LinkInv'
  BY LinkNext
<1>3. LinkInv => OneActiveLink
  <2> SUFFICES ASSUME LinkInv, Uncrossed, NEW c \in Courses
               PROVE  Cardinality(ActiveLinks(c)) <= 1
    BY DEF OneActiveLink, Uncrossed
  <2>1. \A k, l \in ActiveLinks(c) : k = l
    BY ActiveAre DEF LinkInv, OneOfCourse
  <2>2. ActiveLinks(c) = {} \/ \E k : ActiveLinks(c) = {k}
    BY <2>1
  <2> QED
    <3>1. Cardinality({}) = 0 /\ \A k : Cardinality({k}) = 1
      BY FS_EmptySet, FS_Singleton
    <3>2. Cardinality(ActiveLinks(c)) = 0 \/ Cardinality(ActiveLinks(c)) = 1
      BY <2>2, <3>1
    <3> QED
      BY <3>2
<1> QED
  BY <1>1, <1>2, <1>3, TypesStay, PTL DEF Spec

-----------------------------------------------------------------------------
(* Accounts that a sign-up link makes.                                      *)

Sheltered == Without({"fault", "raced", "erased"})

\* A sign-up that is to insert found no account of another kind; the account
\* whose password it is to set is the one it has inserted.
Owns(job) ==
  job.req.op = "join" =>
    /\ job.pc = "insert" => job.who \notin Foreign
    /\ job.pc = "password" => user[job.who] # None /\ user[job.who].by = job.n

SignUpsOwn == Sheltered => \A t \in Threads : th[t] # Idle => Owns(th[t])

LEMMA ShelteredBefore ==
  ASSUME NEW t \in Threads, Act(t), Sheltered'
  PROVE  /\ Sheltered
         /\ "fault" \notin lost' /\ "raced" \notin lost' /\ "erased" \notin lost'
BY LostGrows DEF Sheltered, Without

\* Without a race, an account is inserted once, and kept.
LEMMA AccountsStay ==
  ASSUME TypeInv, NEW t \in Threads, Act(t), Sheltered',
         NEW s \in Students, user[s] # None
  PROVE  user'[s] # None /\ user'[s].by = user[s].by
<1>1. user \in [Students -> Account \cup {None}] /\ user[s] \in Account
  BY DEF TypeInv, TypeOK, AccountsOK
<1>2. CASE SetPassword(t)
  <2> DEFINE job == th[t]
  <2>1. job.n \in Nat
    BY <1>2, PeopleAt, Here
  <2>2. user' = user \/ (user[job.who] # None /\ user' = [user EXCEPT ![job.who].pwd = job.n])
    BY <1>2 DEF SetPassword
  <2>3. \A row \in Account, p \in Nat :
          [row EXCEPT !.pwd = p] \in Account /\ [row EXCEPT !.pwd = p].by = row.by
    BY DEF Account
  <2>4. CASE user' = user
    BY <2>4
  <2>5. CASE user[job.who] # None /\ user' = [user EXCEPT ![job.who].pwd = job.n]
    <3> DEFINE row == [user[job.who] EXCEPT !.pwd = job.n]
    <3>1. user' = [user EXCEPT ![job.who] = row]
      BY <2>5
    <3>2. CASE s = job.who
      <4>1. user'[s] = row
        BY <1>1, <3>1, <3>2
      <4>2. row \in Account /\ row.by = user[s].by
        BY <1>1, <2>1, <2>3, <3>2
      <4> QED
        BY <4>1, <4>2, NoRowAssumption
    <3>3. CASE s # job.who
      BY <1>1, <3>1, <3>3
    <3> QED
      BY <3>2, <3>3
  <2> QED
    BY <2>2, <2>4, <2>5
<1>3. CASE Insert(t)
  <2>1. user' = PutUser(th[t].who, th[t].n) \/ user' = user
    BY <1>3 DEF Insert
  <2>2. CASE user[th[t].who] # None
    <3>1. user' = user
      BY <1>3, <2>2, ShelteredBefore DEF Insert
    <3> QED
      BY <3>1
  <2>3. CASE user[th[t].who] = None
    BY <1>1, <2>1, <2>3 DEF PutUser
  <2> QED
    BY <2>2, <2>3
<1>4. ~Wipe(t)
  BY ShelteredBefore DEF Wipe
<1> QED
  BY <1>2, <1>3, <1>4, Writers

LEMMA SignUpsAct ==
  ASSUME TypeInv, SignUpsOwn, NEW t \in Threads, Act(t)
  PROVE  SignUpsOwn'
<1> SUFFICES ASSUME Sheltered', NEW s \in Threads, th'[s] # Idle, th'[s].req.op = "join"
             PROVE  /\ th'[s].pc = "insert" => th'[s].who \notin Foreign
                    /\ th'[s].pc = "password" =>
                         user'[th'[s].who] # None /\ user'[th'[s].who].by = th'[s].n
  BY DEF SignUpsOwn, Owns
<1>1. CASE s # t
  <2>1. /\ th[s] # Idle /\ th'[s].pc = th[s].pc /\ th'[s].req = th[s].req
        /\ th'[s].n = th[s].n /\ th'[s].who = th[s].who
    BY <1>1, OthersKept
  <2>2. Owns(th[s])
    BY <2>1, ShelteredBefore DEF SignUpsOwn
  <2>3. ASSUME th[s].pc = "password"
        PROVE  user'[th[s].who] # None /\ user'[th[s].who].by = th[s].n
    <3>1. th[s].who \in Students
      BY <2>3, HereStudent DEF At, AtStudent
    <3> QED
      BY <2>1, <2>2, <2>3, <3>1, AccountsStay DEF Owns
  <2> QED
    BY <2>1, <2>2, <2>3 DEF Owns
<1>2. CASE s = t
  <2>1. th'[t].req = th[t].req /\ th'[t].n = th[t].n /\ th[t] # Idle
    BY <1>2, ActMoves, MovesTurn DEF Turn, Follows
  <2>2. Busy(t) /\ th[t] \in Job /\ th \in [Threads -> Job \cup {Idle}]
    BY <2>1, Working DEF Busy
  <2>3. ASSUME th'[t].pc = "insert" PROVE th'[t].who \notin Foreign
    <3>1. Find(t)
      BY <1>2, <2>3, Arrivals
    <3>2. "fault" \notin lost'
      BY ShelteredBefore
    <3>3. Existing(th[t]) = Idle
      BY <1>2, <2>1 DEF Existing
    <3>4. /\ th[t].who \notin Foreign
          /\ Go(t, "insert")
      BY <1>2, <2>1, <3>1, <3>2, <3>3, SetTo DEF Find, Finish
    <3> QED
      BY <2>2, <3>4 DEF Go, Set, Job
  <2>4. ASSUME th'[t].pc = "password"
        PROVE  user'[th'[t].who] # None /\ user'[th'[t].who].by = th'[t].n
    <3>1. Insert(t)
      <4>1. Insert(t) \/ Owner(t) \/ Verify(t)
        BY <1>2, <2>4, Arrivals
      <4>2. ~At(t, "owner") /\ ~At(t, "verify")
        BY <1>2, <2>1, Here DEF Fits, Routed
      <4> QED
        BY <4>1, <4>2, PeopleAt
    <3>2. At(t, "insert") /\ th[t].pc = "insert" /\ th[t].who \in Students
      BY <3>1, PeopleAt, HereStudent DEF At, AtStudent
    <3>3. th[t].who \notin Foreign
      BY <1>2, <2>1, <3>2, ShelteredBefore DEF SignUpsOwn, Owns
    <3>4. user' = [user EXCEPT ![th[t].who] = Placeholder(th[t].n)]
      BY <3>1, <3>3, ShelteredBefore DEF Insert, PutUser
    <3>5. user'[th[t].who] = Placeholder(th[t].n)
      BY <3>2, <3>4 DEF TypeInv, TypeOK, AccountsOK
    <3>6. Placeholder(th[t].n) # None /\ Placeholder(th[t].n).by = th[t].n
      <4>1. th[t].n \in Nat
        BY <3>2, Here
      <4> QED
        BY <4>1, NoRowAssumption DEF Placeholder, Account
    <3>7. th'[t].who = th[t].who
      BY <1>2, <3>2, ActMoves, MovesTurn DEF Turn, Follows
    <3> QED
      BY <2>1, <3>5, <3>6, <3>7
  <2> QED
    BY <1>2, <2>3, <2>4
<1> QED
  BY <1>1, <1>2

LEMMA SignUpsNext ==
  ASSUME TypeInv, SignUpsOwn, [Next]_vars
  PROVE  SignUpsOwn'
<1>1. ASSUME NEW t \in Threads, Act(t) PROVE SignUpsOwn'
  BY <1>1, SignUpsAct
<1>2. ASSUME NEW t \in Threads, Begin(t) PROVE SignUpsOwn'
  <2>1. /\ user' = user /\ lost' = lost
        /\ \A s \in Threads \ {t} : th'[s] = th[s]
        /\ th'[t].pc \notin {"insert", "password"}
    BY <1>2, BeginWrites, BeginSound DEF Firsts
  <2> QED
    BY <2>1 DEF SignUpsOwn, Owns, Sheltered, Without
<1>3. ASSUME UNCHANGED <<user, th, lost>> PROVE SignUpsOwn'
  BY <1>3 DEF SignUpsOwn, Owns, Sheltered, Without
<1> QED
  BY <1>1, <1>2, <1>3, Steps, PassWrites

\* JoinOwnsAccount: a sign-up link only ever sets the password of an account
\* that its own request created (auth_join), in every history without a failed
\* store call, an erasure or two inserts of one account at once, which
\* put_user's upsert lets through.
THEOREM SignUpsOwnAccounts == Spec => []JoinOwnsAccount
<1>1. Init => SignUpsOwn
  BY DEF Init, SignUpsOwn
<1>2. SignUpsOwn /\ TypeInv /\ [Next]_vars => SignUpsOwn'
  BY SignUpsNext
<1>3. SignUpsOwn => JoinOwnsAccount
  BY DEF SignUpsOwn, Owns, JoinOwnsAccount, Sheltered, At, Idle
<1> QED
  BY <1>1, <1>2, <1>3, TypesStay, PTL DEF Spec

-----------------------------------------------------------------------------
(* Courses come under a fresh name, and are put again by edits.             *)

Comes(job, c) ==
  job # Idle /\ job.pc = "putcourse" /\ job.req.op = "newcourse" /\ job.req.course = c

\* A course that there is or was.
Opened(jobs, known, c) == c \in known /\ \A t \in Threads : ~Comes(jobs[t], c)

\* Names are used once; an edit is of a course that there was, and that there
\* is as long as the edit is fresh.
CoursesInv ==
  /\ \A c \in course : Opened(th, minted.courses, c)
  /\ \A s, t \in Threads : \A c \in Courses : Comes(th[s], c) /\ Comes(th[t], c) => s = t
  /\ \A t \in Threads : \A c \in Courses : Comes(th[t], c) => c \in minted.courses
  /\ \A t \in Threads :
       th[t] # Idle /\ th[t].pc = "putcourse" /\ th[t].req.op = "editcourse" =>
         /\ Opened(th, minted.courses, th[t].req.course)
         /\ th[t].fresh => th[t].req.course \in course

LEMMA PutCourseArrives ==
  ASSUME TypeInv, NEW t \in Threads, Act(t), th'[t] # Idle, th'[t].pc = "putcourse"
  PROVE  /\ ReadCourse(t) /\ th'[t].req = th[t].req /\ th'[t].req.op # "newcourse"
         /\ th'[t].req.course \in course /\ course' = course
<1>1. ReadCourse(t)
  <2>1. CASE AccountStep(t)
    BY <2>1, PeopleLead DEF AccountStep, To
  <2>2. CASE DeskStep(t)
    BY <2>2, DeskLeads DEF DeskStep, To
  <2>3. CASE FormationStep(t)
    BY <2>3, FormationLeads DEF FormationStep, To
  <2>4. CASE TileStep(t)
    BY <2>4, TilesLead DEF TileStep, To
  <2>5. ~Fail(t)
    BY SetTo DEF Fail, Finish
  <2> QED
    BY <2>1, <2>2, <2>3, <2>4, <2>5 DEF Act
<1>2. th'[t].req = th[t].req
  BY ActMoves, MovesTurn DEF Turn, Follows
<1>3. th[t].req.course \in course
  BY <1>1, SetTo DEF ReadCourse, Finish
<1>4. th[t].req.op \in {"editcourse", "dropcourse"} /\ course' = course
  BY <1>1 DEF ReadCourse, tables
<1> QED
  BY <1>1, <1>2, <1>3, <1>4

LEMMA ComesBefore ==
  ASSUME TypeInv, NEW t \in Threads, Act(t), NEW s \in Threads, NEW c, Comes(th'[s], c)
  PROVE  s # t /\ Comes(th[s], c)
<1>1. CASE s = t
  BY <1>1, PutCourseArrives DEF Comes
<1>2. CASE s # t
  BY <1>2, OthersKept DEF Comes
<1> QED
  BY <1>1, <1>2

LEMMA OpenedStays ==
  ASSUME TypeInv, NEW t \in Threads, Act(t), NEW c, Opened(th, minted.courses, c)
  PROVE  Opened(th', minted'.courses, c)
<1>1. minted'.courses = minted.courses
  BY LinkTyped
<1> QED
  BY <1>1, ComesBefore DEF Opened

\* The course that a put adds.
LEMMA CoursePut ==
  ASSUME TypeInv, CoursesInv, NEW t \in Threads, Act(t), NEW c \in course', c \notin course
  PROVE  /\ PutCourse(t) /\ c = th[t].req.course /\ c \in Courses
         /\ \/ Comes(th[t], c)
            \/ /\ Opened(th, minted.courses, c)
               /\ "stale course" \in lost'
<1>1. ~DeleteCourse(t)
  BY DEF DeleteCourse, DropCourse
<1>2. PutCourse(t)
  BY <1>1, Writers
<1>3. c = th[t].req.course
  BY <1>2 DEF PutCourse
<1>4. /\ th[t] # Idle /\ th[t].pc = "putcourse"
      /\ th[t].req.op \in {"newcourse", "editcourse"} /\ c \in Courses
  BY <1>2, <1>3, Here DEF PutCourse, Fits, Routed, Asked, OfCourse
<1>5. CASE th[t].req.op = "editcourse"
  <2>1. Opened(th, minted.courses, c) /\ ~th[t].fresh
    BY <1>3, <1>4, <1>5 DEF CoursesInv
  <2> QED
    BY <1>2, <1>3, <1>4, <2>1 DEF PutCourse
<1>6. CASE th[t].req.op = "newcourse"
  BY <1>2, <1>3, <1>4, <1>6 DEF Comes
<1> QED
  BY <1>4, <1>5, <1>6

LEMMA CoursesAct ==
  ASSUME TypeInv, CoursesInv, NEW t \in Threads, Act(t)
  PROVE  CoursesInv'
<1>1. \A c \in course' : Opened(th', minted'.courses, c)
  <2> SUFFICES ASSUME NEW c \in course' PROVE Opened(th', minted'.courses, c)
    OBVIOUS
  <2>1. CASE c \in course
    BY <2>1, OpenedStays DEF CoursesInv
  <2>2. CASE c \notin course
    <3>1. Comes(th[t], c) \/ Opened(th, minted.courses, c)
      BY <2>2, CoursePut
    <3>2. CASE Comes(th[t], c)
      <4>1. c \in Courses /\ c \in minted'.courses
        BY <2>2, <3>2, CoursePut, LinkTyped DEF CoursesInv
      <4>2. ASSUME NEW s \in Threads, Comes(th'[s], c) PROVE FALSE
        BY <3>2, <4>1, <4>2, ComesBefore DEF CoursesInv
      <4> QED
        BY <4>1, <4>2 DEF Opened
    <3> QED
      BY <3>1, <3>2, OpenedStays
  <2> QED
    BY <2>1, <2>2
<1>2. \A s, u \in Threads : \A c \in Courses : Comes(th'[s], c) /\ Comes(th'[u], c) => s = u
  BY ComesBefore DEF CoursesInv
<1>3. \A s \in Threads : \A c \in Courses : Comes(th'[s], c) => c \in minted'.courses
  BY ComesBefore, LinkTyped DEF CoursesInv
<1>4. ASSUME NEW s \in Threads, th'[s] # Idle, th'[s].pc = "putcourse",
             th'[s].req.op = "editcourse"
      PROVE  /\ Opened(th', minted'.courses, th'[s].req.course)
             /\ th'[s].fresh => th'[s].req.course \in course'
  <2>1. CASE s = t
    <3>1. th'[t].req.course \in course /\ course' = course
      BY <1>4, <2>1, PutCourseArrives
    <3> QED
      BY <2>1, <3>1, OpenedStays DEF CoursesInv
  <2>2. CASE s # t
    <3>1. /\ th[s] # Idle /\ th[s].pc = "putcourse" /\ th'[s].req = th[s].req
          /\ th[s].req.op = "editcourse" /\ th'[s].fresh => th'[s] = th[s]
      BY <1>4, <2>2, OthersKept
    <3>2. Opened(th', minted'.courses, th[s].req.course)
      BY <3>1, <1>4, OpenedStays DEF CoursesInv
    <3>3. ASSUME th'[s].fresh PROVE th[s].req.course \in course'
      <4>1. th'[s] = th[s] /\ th[s].req.course \in course
        BY <3>1, <3>3, <1>4, <2>2, OthersKept DEF CoursesInv
      <4>2. CASE DeleteCourse(t)
        <5>1. th[t].req.course # th[s].req.course
          <6> SUFFICES ASSUME th[s].req.course = th[t].req.course PROVE FALSE
            OBVIOUS
          <6>1. s \in {o \in Others(t) : th[o].req.course = th[t].req.course}
            BY <2>2, <3>1, <1>4 DEF Others, Busy
          <6>2. th'[s] = [th[s] EXCEPT !.fresh = FALSE]
            BY <2>2, <4>2, <6>1 DEF DeleteCourse, SetOver
          <6>3. th[s] \in Job
            BY <1>4, <2>2, OthersKept
          <6> QED
            BY <3>3, <6>2, <6>3 DEF Job
        <5> QED
          BY <4>1, <4>2, <5>1 DEF DeleteCourse, DropCourse
      <4>3. CASE PutCourse(t)
        BY <4>1, <4>3 DEF PutCourse
      <4> QED
        BY <4>1, <4>2, <4>3, Writers
    <3> QED
      BY <3>1, <3>2, <3>3
  <2> QED
    BY <2>1, <2>2
<1> QED
  BY <1>1, <1>2, <1>3, <1>4 DEF CoursesInv

\* A request that begins is one of its scenario's.
LEMMA BeginAsks ==
  ASSUME TypeInv, NEW t \in Threads, Begin(t)
  PROVE  \E r \in scenario.calls :
           /\ Possible(r) /\ th'[t].req = r /\ th'[t].who = Named(r) /\ th'[t].to = r.course
           /\ minted'.courses =
                IF r.op = "newcourse" THEN minted.courses \cup {r.course} ELSE minted.courses
           /\ minted'.exams =
                IF r.op = "create" THEN minted.exams \cup {r.exam} ELSE minted.exams
<1>1. th \in [Threads -> Job \cup {Idle}]
      /\ minted \in [invites : 0..MaxInvites, links : 0..MaxLinks,
                     exams : SUBSET Exams, courses : SUBSET Courses]
  BY DEF TypeInv, TypeOK
<1>2. PICK r \in scenario.calls : \E ref \in Refs(r) :
        /\ Possible(r)
        /\ Set(t, [ pc |-> FirstPc(r.op), req |-> r, n |-> begun + 2, who |-> Named(r),
                    todo |-> IF r.op = "add" THEN r.who ELSE {}, to |-> r.course,
                    ref |-> ref, new |-> 0, counted |-> FALSE, invited |-> FALSE,
                    made |-> FALSE, over |-> {}, doc |-> None, fresh |-> TRUE, at |-> 0 ])
        /\ minted' = [minted EXCEPT
             !.exams = IF r.op = "create" THEN @ \cup {r.exam} ELSE @,
             !.courses = IF r.op = "newcourse" THEN @ \cup {r.course} ELSE @]
  BY DEF Begin
<1>3. th'[t].req = r /\ th'[t].who = Named(r) /\ th'[t].to = r.course
  BY <1>1, <1>2 DEF Set
<1>4. /\ minted'.courses =
           IF r.op = "newcourse" THEN minted.courses \cup {r.course} ELSE minted.courses
      /\ minted'.exams =
           IF r.op = "create" THEN minted.exams \cup {r.exam} ELSE minted.exams
  BY <1>1, <1>2
<1> QED
  BY <1>2, <1>3, <1>4

LEMMA CoursesBegin ==
  ASSUME TypeInv, CoursesInv, NEW t \in Threads, Begin(t)
  PROVE  /\ CoursesInv'
         /\ \A c : Opened(th, minted.courses, c) => Opened(th', minted'.courses, c)
<1>1. PICK r \in scenario.calls :
        /\ Possible(r) /\ th'[t].req = r
        /\ minted'.courses =
             IF r.op = "newcourse" THEN minted.courses \cup {r.course} ELSE minted.courses
  BY BeginAsks
<1>2. /\ course' = course /\ th[t] = Idle
      /\ \A s \in Threads \ {t} : th'[s] = th[s]
      /\ th'[t] # Idle /\ th'[t].pc = "putcourse" => th'[t].req.op = "newcourse"
  <2>1. th'[t].pc = FirstPc(th'[t].req.op) /\ th'[t].req \in Call
    BY BeginSound DEF Sound, Asked
  <2>2. FirstPc(th'[t].req.op) = "putcourse" => th'[t].req.op # "editcourse"
    BY DEF FirstPc
  <2>3. th'[t].pc = "putcourse" => th'[t].req.op = "newcourse"
    BY <2>1, <2>2, BeginSound DEF Sound, Framed, Fits, Routed
  <2> QED
    BY <2>3, BeginWrites, BeginSound
<1>3. \A c : Comes(th'[t], c) => c \notin minted.courses /\ c \in minted'.courses
  BY <1>1 DEF Comes, Possible
<1>4. minted.courses \subseteq minted'.courses
  BY <1>1
<1>5. \A c : Opened(th, minted.courses, c) => Opened(th', minted'.courses, c)
  BY <1>2, <1>3, <1>4 DEF Opened
<1>6. \A c \in course' : Opened(th', minted'.courses, c)
  BY <1>2, <1>5 DEF CoursesInv
<1>7. \A s, u \in Threads : \A c \in Courses : Comes(th'[s], c) /\ Comes(th'[u], c) => s = u
  BY <1>2, <1>3 DEF CoursesInv
<1>8. \A s \in Threads : \A c \in Courses : Comes(th'[s], c) => c \in minted'.courses
  BY <1>2, <1>3, <1>4 DEF CoursesInv
<1>9. ASSUME NEW s \in Threads, th'[s] # Idle, th'[s].pc = "putcourse",
             th'[s].req.op = "editcourse"
      PROVE  /\ Opened(th', minted'.courses, th'[s].req.course)
             /\ th'[s].fresh => th'[s].req.course \in course'
  <2>1. s # t /\ th'[s] = th[s]
    BY <1>2, <1>9
  <2> QED
    BY <1>2, <1>5, <1>9, <2>1 DEF CoursesInv
<1> QED
  BY <1>5, <1>6, <1>7, <1>8, <1>9 DEF CoursesInv

LEMMA CoursesNext ==
  ASSUME TypeInv, CoursesInv, [Next]_vars
  PROVE  CoursesInv'
<1>1. ASSUME UNCHANGED <<course, th, minted>> PROVE CoursesInv'
  <2>1. \A c : Opened(th', minted'.courses, c) = Opened(th, minted.courses, c)
    BY <1>1 DEF Opened
  <2> QED
    BY <1>1, <2>1 DEF CoursesInv
<1> QED
  BY <1>1, CoursesAct, CoursesBegin, Steps, PassWrites

LEMMA CoursesInit == Init => CoursesInv
<1> SUFFICES ASSUME Init PROVE CoursesInv
  OBVIOUS
<1>1. course = minted.courses /\ \A t \in Threads : th[t] = Idle
  BY DEF Init, InitInvites
<1> QED
  BY <1>1 DEF CoursesInv, Opened, Comes

-----------------------------------------------------------------------------
(* What a removal revokes.                                                  *)

Clean == Without({"fault", "overtaken", "stale course"})

Sends == {"add", "reissue", "pending"}

\* The students that a job is to send a link to because they are on its course.
Due(job) ==
  {s \in Students :
     \/ s = job.who /\ (job.pc = "holder" \/ (job.pc \in {"void", "issue"} /\ job.req.op \in Sends))
     \/ s \in job.todo /\ job.req.op = "pending" /\ job.pc \in {"holders", "void", "issue"}}

\* They are, while the course is there.
Relies ==
  \A t \in Threads :
    th[t] # Idle /\ th[t].to \in course => Due(th[t]) \subseteq roster[th[t].to]

\* A removal that has taken a student off is to void their links.
Removing(job, s) ==
  job # Idle /\ job.pc = "void" /\ job.req.op = "remove" /\ job.who = s

LinksOnRoster ==
  \A i \in Issued :
    invite[i].state = "live" /\ invite[i].course \in course =>
      \/ invite[i].who \in roster[invite[i].course]
      \/ \E t \in Threads : Removing(th[t], invite[i].who)

\* Jobs and invites are on courses that there are or were; a reset's link is
\* of none.
OnOpened ==
  /\ \A t \in Threads :
       th[t] # Idle /\ th[t].req.op \in Rostering /\ th[t].pc # "course" =>
         Opened(th, minted.courses, th[t].to)
  /\ \A i \in Issued : invite[i].course # None => Opened(th, minted.courses, invite[i].course)
  /\ \A t \in Threads : th[t] # Idle /\ th[t].req.op = "reset" => th[t].to = None

RevokeInv == OnOpened /\ (Clean => Relies /\ LinksOnRoster)

LEMMA CleanBefore ==
  ASSUME NEW t \in Threads, Act(t), Clean'
  PROVE  /\ Clean
         /\ "fault" \notin lost' /\ "overtaken" \notin lost' /\ "stale course" \notin lost'
BY LostGrows DEF Clean, Without

\* A course that there was does not come back unseen.
LEMMA CourseKeeps ==
  ASSUME TypeInv, CoursesInv, NEW t \in Threads, Act(t), Clean',
         NEW c, Opened(th, minted.courses, c), c \in course'
  PROVE  c \in course
<1> SUFFICES ASSUME c \notin course PROVE FALSE
  OBVIOUS
<1>1. Comes(th[t], c)
  BY CoursePut, CleanBefore
<1> QED
  BY <1>1 DEF Opened

\* A student is taken off a course by a removal, which goes on to their
\* links, or an erasure; nobody else has a request about them then.
LEMMA RosterKeeps ==
  ASSUME TypeInv, CoursesInv, NEW t \in Threads, Act(t), Clean',
         NEW c \in Courses, c \in course', NEW s \in roster[c], s \notin roster'[c]
  PROVE  /\ \/ Removing(th'[t], s)
            \/ Wipe(t) /\ th[t].who = s
         /\ \A o \in Others(t) : ~About(o, s)
<1>1. course \subseteq Courses /\ roster \in [Courses -> SUBSET Students] /\ s \in Students
  BY DEF TypeInv, TypeOK, AccountsOK
<1>2. ~Enrol(t)
  BY <1>1 DEF Enrol, PutEnrollment
<1>3. ~DeleteCourse(t)
  <2> SUFFICES ASSUME DeleteCourse(t) PROVE FALSE
    OBVIOUS
  <2>1. roster' = [roster EXCEPT ![th[t].req.course] = {}] /\ course' = course \ {th[t].req.course}
    BY DEF DeleteCourse, DropCourse
  <2>2. c # th[t].req.course
    BY <2>1
  <2> QED
    BY <1>1, <2>1, <2>2
<1>4. CASE Unenrol(t)
  <2>1. At(t, "unenrol") /\ th[t].req.op = "remove" /\ th[t] \in Job
        /\ th \in [Threads -> Job \cup {Idle}]
    BY <1>4, PeopleAt, Here, Working DEF Fits, Routed
  <2>2. /\ th[t].who \in roster[th[t].to]
        /\ roster' = [roster EXCEPT ![th[t].to] = @ \ {th[t].who}]
        /\ Set(t, [th[t] EXCEPT !.pc = "void"])
        /\ (\E o \in Others(t) : About(o, th[t].who)) => "overtaken" \in lost'
    BY <1>4 DEF Unenrol, DeleteEnrollment, AfterUnenrol
  <2>3. s = th[t].who
    BY <1>1, <2>2
  <2>4. Removing(th'[t], s)
    <3>1. th'[t] = [th[t] EXCEPT !.pc = "void"]
      BY <2>1, <2>2 DEF Set
    <3>2. /\ th'[t].pc = "void" /\ th'[t].req = th[t].req /\ th'[t].who = th[t].who
      BY <2>1, <3>1 DEF Job
    <3>3. th'[t] # Idle
      BY <3>2 DEF Idle
    <3> QED
      BY <2>1, <2>3, <3>2, <3>3 DEF Removing
  <2> QED
    BY <2>2, <2>3, <2>4, CleanBefore
<1>5. CASE Wipe(t)
  <2>1. roster' = [x \in Courses |-> roster[x] \ {th[t].who}]
    BY <1>5 DEF Wipe, DropStudent
  <2>2. s = th[t].who
    BY <1>1, <2>1
  <2>3. (\E o \in Others(t) : About(o, th[t].who)) => "overtaken" \in lost'
    BY <1>5 DEF Wipe
  <2> QED
    BY <1>5, <2>2, <2>3, CleanBefore
<1> QED
  BY <1>2, <1>3, <1>4, <1>5, Writers

\* Who else is due a link stays so.
LEMMA ReliesOthers ==
  ASSUME TypeInv, CoursesInv, OnOpened, Relies, NEW t \in Threads, Act(t), Clean',
         NEW o \in Threads \ {t}, th'[o] # Idle, th'[o].to \in course'
  PROVE  Due(th'[o]) \subseteq roster'[th'[o].to]
<1> DEFINE c == th[o].to
<1>1. /\ th[o] # Idle /\ th[o] \in Job /\ th'[o].to = c /\ th'[o].pc = th[o].pc
      /\ th'[o].req = th[o].req /\ th'[o].who = th[o].who /\ th'[o].todo = th[o].todo
      /\ Sound(th[o])
  BY OthersKept
<1>2. Due(th'[o]) = Due(th[o])
  BY <1>1 DEF Due
<1> SUFFICES ASSUME NEW s \in Due(th[o]) PROVE s \in roster'[c]
  BY <1>1, <1>2
<1>3. th[o].req.op \in Rostering /\ th[o].pc # "course"
  BY <1>1 DEF Due, Sends, Rostering, Sound, Framed, Fits, Routed
<1>4. Opened(th, minted.courses, c)
  BY <1>1, <1>3 DEF OnOpened
<1>5. c \in course /\ c \in course'
  BY <1>1, <1>4, CourseKeeps
<1>6. s \in roster[c] /\ c \in Courses
  BY <1>1, <1>5 DEF Relies, TypeInv, TypeOK, AccountsOK
<1>7. About(o, s) /\ o \in Others(t)
  BY <1>1 DEF About, Due, Others, Busy
<1> QED
  BY <1>5, <1>6, <1>7, RosterKeeps

\* The next student of a request.
LEMMA NextOf ==
  ASSUME NEW job \in Job, NEW next \in Advance(job), next # Idle
  PROVE  /\ next.who \in job.todo /\ next.todo \subseteq job.todo /\ next.req = job.req
         /\ next.todo = job.todo \ {next.who} /\ next.to = job.to
         /\ next.counted = job.counted
         /\ next.pc = FirstFor(job.req.op)
<1>1. PICK s \in job.todo :
        next = [job EXCEPT !.who = s, !.todo = @ \ {s}, !.pc = FirstFor(job.req.op)]
  BY DEF Advance
<1> DEFINE rest == job.todo \ {s}
           pc == FirstFor(job.req.op)
<1>2. next = [job EXCEPT !.who = s, !.todo = rest, !.pc = pc]
  BY <1>1
<1>3. rest \subseteq job.todo
  OBVIOUS
<1> HIDE DEF pc, rest
<1>4. /\ next.who = s /\ next.todo = rest /\ next.req = job.req /\ next.to = job.to
      /\ next.counted = job.counted /\ next.pc = pc
  BY <1>2 DEF Job
<1> QED
  BY <1>1, <1>3, <1>4 DEF rest, pc

\* Where a link is due from.
LEMMA DueMoves ==
  ASSUME TypeInv, NEW t \in Threads, Act(t), th'[t] # Idle, NEW s \in Due(th'[t])
  PROVE  /\ th'[t].to = th[t].to /\ th[t] # Idle /\ th'[t].to \in Courses
         /\ course' = course /\ \A c \in Courses : roster[c] \subseteq roster'[c]
         /\ s \in Due(th[t]) \/ s \in roster'[th[t].to]
<1>1. /\ th[t] # Idle /\ th'[t].req = th[t].req
      /\ th'[t].to # th[t].to => th[t].pc \in {"look", "link", "launch"}
      /\ th'[t].who # th[t].who =>
           th[t].pc \in {"next", "find", "enrol", "issue", "holders", "look"}
      /\ Sound(th'[t])
  BY ActMoves, MovesTurn DEF Turn, Follows
<1>2. /\ th[t] \in Job /\ th \in [Threads -> Job \cup {Idle}] /\ Busy(t)
      /\ Asked(th[t].req) /\ Framed(th[t]) /\ th'[t] \in Job /\ Framed(th'[t])
  BY <1>1, Working DEF Busy, Sound
<1>3. th'[t].pc \in {"void", "issue", "holder", "holders"} /\ th'[t].req.op \in Sends
  BY <1>2 DEF Due, Sends, Framed, Fits, Routed
<1>4. \/ Enrol(t) \/ Void(t) \/ Issue(t) \/ Unenrol(t) \/ Member(t) \/ Holder(t)
      \/ Members(t) \/ Holders(t) \/ ResetRequest(t)
  <2>1. ~DeskStep(t)
    BY <1>3, DeskLeads DEF DeskStep, To
  <2>2. ~FormationStep(t)
    BY <1>3, FormationLeads DEF FormationStep, To
  <2>3. ~TileStep(t)
    BY <1>3, TilesLead DEF TileStep, To
  <2>4. ~Fail(t)
    BY SetTo DEF Fail, Finish
  <2>5. AccountStep(t)
    BY <2>1, <2>2, <2>3, <2>4 DEF Act
  <2> QED
    BY <1>3, <2>5, PeopleLead DEF AccountStep, To
<1>5. ~Unenrol(t) /\ ~ResetRequest(t)
  BY <1>1, <1>2, <1>3, PeopleAt DEF At, Framed, Fits, Routed, Sends
<1>6. /\ th'[t].to = th[t].to /\ th'[t].to \in Courses
  <2>1. th[t].pc \in {"enrol", "void", "issue", "member", "holder", "members", "holders"}
    BY <1>4, <1>5, PeopleAt DEF At
  <2>2. th'[t].to = th[t].to
    BY <1>1, <2>1
  <2>3. th[t].to = th[t].req.course /\ th[t].req.course \in Courses
    BY <1>1, <1>2, <1>3 DEF Framed, Fits, Asked, OfCourse, Sends, Rostering
  <2> QED
    BY <2>2, <2>3
<1>7. course' = course /\ \A c \in Courses : roster[c] \subseteq roster'[c]
  <2>1. CASE Enrol(t)
    <3>1. course' = course /\ roster' = [roster EXCEPT ![th[t].to] = @ \cup {th[t].who}]
      BY <2>1 DEF Enrol, PutEnrollment
    <3> QED
      BY <3>1 DEF TypeInv, TypeOK, AccountsOK
  <2>2. CASE ~Enrol(t)
    <3>1. UNCHANGED <<course, roster>>
      BY <1>4, <1>5, <2>2 DEF Void, Issue, Member, Holder, Members, Holders, tables
    <3> QED
      BY <3>1
  <2> QED
    BY <2>1, <2>2
<1>8. CASE Enrol(t)
  <2>1. th[t].pc = "enrol" /\ th[t].who \in Students
    BY <1>8, PeopleAt, HereStudent DEF At, AtStudent
  <2>2. th'[t].req.op = "add"
    <3>1. th[t].req.op \in {"add", "redeem", "launch"} \cup Joining
      BY <1>2, <2>1 DEF Framed, Fits, Routed
    <3> QED
      BY <1>1, <1>3, <3>1 DEF Sends, Joining
  <2>3. CASE Go(t, "void")
    <3>1. th'[t].who = th[t].who
      BY <1>2, <2>3 DEF Go, Set, Job
    <3>2. s = th[t].who
      BY <2>2, <3>1, <1>3 DEF Due
    <3>3. roster' = [roster EXCEPT ![th[t].to] = @ \cup {th[t].who}]
      BY <1>8 DEF Enrol, PutEnrollment
    <3>4. s \in roster'[th[t].to]
      BY <1>6, <3>2, <3>3 DEF TypeInv, TypeOK, AccountsOK
    <3> QED
      BY <1>1, <1>6, <1>7, <3>4
  <2>4. CASE ToNext(t)
    <3>1. th'[t].pc = "find"
      BY <1>1, <1>2, <2>2, <2>4, NextOf, SetTo DEF ToNext, FirstFor
    <3> QED
      BY <1>3, <3>1
  <2> QED
    BY <1>8, <2>3, <2>4 DEF Enrol
<1>9. CASE Void(t)
  <2>1. th'[t] = [th[t] EXCEPT !.over = LiveOf(th[t].who), !.pc = "issue"]
    BY <1>9, SetTo DEF Void, Finish
  <2>2. /\ th'[t].who = th[t].who /\ th'[t].todo = th[t].todo /\ th'[t].pc = "issue"
        /\ th[t].pc = "void"
    BY <1>2, <1>9, <2>1, PeopleAt DEF Job, At
  <2>3. s \in Due(th[t])
    BY <1>1, <2>2 DEF Due
  <2> QED
    BY <1>1, <1>6, <1>7, <2>3
<1>10. CASE Issue(t)
  <2> DEFINE job == [th[t] EXCEPT !.over = {}]
  <2>1. th'[t] \in Advance(job)
    BY <1>10, SetTo DEF Issue
  <2>2. job \in Job /\ job.todo = th[t].todo /\ job.req = th[t].req
    BY <1>2 DEF Job
  <2>3. th[t].pc = "issue"
    BY <1>10, PeopleAt DEF At
  <2> HIDE DEF job
  <2>4. th'[t].who \in th[t].todo /\ th'[t].todo \subseteq th[t].todo
    BY <2>1, <2>2, NextOf
  <2>5. th'[t].pc = FirstFor(th[t].req.op)
    BY <2>1, <2>2, NextOf
  <2>6. th[t].req.op = "pending"
    <3>1. th[t].req.op # "add"
      BY <1>3, <2>5 DEF FirstFor
    <3>2. th[t].todo # {}
      BY <2>4
    <3> QED
      BY <1>2, <3>1, <3>2 DEF Framed, Fits
  <2>7. s \in th[t].todo
    BY <2>4 DEF Due
  <2>8. s \in Due(th[t])
    BY <2>3, <2>6, <2>7 DEF Due
  <2> QED
    BY <1>1, <1>6, <1>7, <2>8
<1>11. CASE Member(t)
  <2>1. th[t].who \in roster[th[t].to] /\ Go(t, "holder")
    BY <1>11, SetTo DEF Member, Finish
  <2>2. th'[t].who = th[t].who /\ th'[t].pc = "holder"
    BY <1>2, <2>1 DEF Go, Set, Job
  <2>3. s = th[t].who
    BY <2>2 DEF Due
  <2> QED
    BY <1>1, <1>6, <1>7, <2>1, <2>3
<1>12. CASE Holder(t)
  <2>1. Go(t, "void")
    BY <1>12, SetTo DEF Holder, Finish
  <2>2. /\ th'[t].who = th[t].who /\ th'[t].todo = th[t].todo /\ th[t].pc = "holder"
        /\ th[t].req.op = "reissue"
    BY <1>2, <1>12, <2>1, PeopleAt DEF Go, Set, Job, At, Framed, Fits, Routed
  <2>3. s \in Due(th[t])
    BY <1>1, <2>2 DEF Due
  <2> QED
    BY <1>1, <1>6, <1>7, <2>3
<1>13. CASE Members(t)
  <2>1. th'[t] = [th[t] EXCEPT !.todo = roster[th[t].to], !.pc = "holders"]
    BY <1>13, SetTo DEF Members
  <2>2. th'[t].todo = roster[th[t].to] /\ th'[t].pc = "holders"
    BY <1>2, <2>1 DEF Job
  <2>3. s \in roster[th[t].to]
    BY <2>2 DEF Due
  <2> QED
    BY <1>1, <1>6, <1>7, <2>3
<1>14. CASE Holders(t)
  <2> DEFINE waiting == {x \in th[t].todo : user[x] # None /\ ~Activated(user[x])}
             job == [th[t] EXCEPT !.todo = waiting]
  <2>1. th'[t] \in Advance(job)
    BY <1>14, SetTo DEF Holders
  <2>2. job \in Job /\ job.todo \subseteq th[t].todo /\ job.req = th[t].req
    <3>1. waiting \subseteq th[t].todo
      OBVIOUS
    <3> HIDE DEF waiting
    <3> QED
      BY <1>2, <3>1 DEF Job
  <2>3. th[t].pc = "holders" /\ th[t].req.op = "pending"
    BY <1>2, <1>14, PeopleAt DEF At, Framed, Fits, Routed
  <2> HIDE DEF job
  <2>4. th'[t].who \in th[t].todo /\ th'[t].todo \subseteq th[t].todo
    BY <2>1, <2>2, NextOf
  <2>5. s \in th[t].todo
    BY <2>4 DEF Due
  <2>6. s \in Due(th[t])
    BY <2>3, <2>5 DEF Due
  <2> QED
    BY <1>1, <1>6, <1>7, <2>6
<1> QED
  BY <1>4, <1>5, <1>8, <1>9, <1>10, <1>11, <1>12, <1>13, <1>14

LEMMA ReliesAct ==
  ASSUME TypeInv, CoursesInv, OnOpened, Relies, NEW t \in Threads, Act(t), Clean'
  PROVE  Relies'
<1> SUFFICES ASSUME NEW o \in Threads, th'[o] # Idle, th'[o].to \in course'
             PROVE  Due(th'[o]) \subseteq roster'[th'[o].to]
  BY DEF Relies
<1>1. CASE o # t
  BY <1>1, ReliesOthers
<1>2. CASE o = t
  <2> SUFFICES ASSUME NEW s \in Due(th'[t]) PROVE s \in roster'[th'[t].to]
    BY <1>2
  <2>1. /\ th'[t].to = th[t].to /\ th[t] # Idle /\ th'[t].to \in Courses
        /\ course' = course /\ \A c \in Courses : roster[c] \subseteq roster'[c]
        /\ s \in Due(th[t]) \/ s \in roster'[th[t].to]
    BY <1>2, DueMoves
  <2> QED
    BY <1>2, <2>1 DEF Relies
<1> QED
  BY <1>1, <1>2

\* A roster handler stays on its course; so does a reset.
LEMMA ToStays ==
  ASSUME TypeInv, NEW t \in Threads, Act(t), th'[t] # Idle,
         th'[t].req.op \in Rostering \cup {"reset"}
  PROVE  th[t] # Idle /\ th'[t].req = th[t].req /\ th'[t].to = th[t].to
<1>1. /\ th[t] # Idle /\ th'[t].req = th[t].req
      /\ th'[t].to # th[t].to => th[t].pc \in {"look", "link", "launch"}
  BY ActMoves, MovesTurn DEF Turn, Follows
<1>2. Framed(th[t])
  BY <1>1, Working DEF Busy
<1> QED
  BY <1>1, <1>2 DEF Framed, Fits, Routed, Rostering, Joining

\* A roster handler goes past its first point when its course exists.
LEMMA CourseOwned ==
  ASSUME TypeInv, NEW t \in Threads, Act(t), th'[t] # Idle,
         th[t].pc = "course", th'[t].req.op \in Rostering
  PROVE  th[t].to \in course
<1>1. th[t] # Idle /\ th'[t].req = th[t].req
  BY ToStays
<1>2. Asked(th[t].req) /\ Framed(th[t])
  BY <1>1, Working DEF Busy
<1>3. th[t].to = th[t].req.course
  BY <1>1, <1>2 DEF Framed, Fits, OfCourse
<1>4. ~DeskStep(t)
  BY <1>1 DEF DeskStep, CreateExam, NamedCourse, CountExams, ReadExam, PutExam, DeleteExam,
     ReadCourse, PutCourse, CourseExams, DeleteCourse, Since, Parked, ReadPark, WritePark, At,
     Rostering
<1>5. ~FormationStep(t)
  BY DEF FormationStep, Mine, ReadOpen, OpenPathway, Reach, StepOn, At
<1>6. ~TileStep(t)
  BY DEF TileStep, Purge, ReadWall, OpenWall, ReadToken, Beat, OwnedWall, CloseWall, At
<1>7. ~Fail(t)
  BY SetTo DEF Fail, Finish
<1>8. OwnedCourse(t)
  BY <1>4, <1>5, <1>6, <1>7, PeopleAt DEF Act, AccountStep, At
<1> QED
  BY <1>3, <1>8, SetTo DEF OwnedCourse, Finish

LEMMA OnOpenedAct ==
  ASSUME TypeInv, CoursesInv, OnOpened, NEW t \in Threads, Act(t)
  PROVE  OnOpened'
<1>1. ASSUME NEW s \in Threads, th'[s] # Idle, th'[s].req.op \in Rostering,
             th'[s].pc # "course"
      PROVE  Opened(th', minted'.courses, th'[s].to)
  <2>1. CASE s # t
    <3>1. /\ th[s] # Idle /\ th'[s].pc = th[s].pc /\ th'[s].req = th[s].req
          /\ th'[s].to = th[s].to
      BY <1>1, <2>1, OthersKept
    <3> QED
      BY <1>1, <3>1, OpenedStays DEF OnOpened
  <2>2. CASE s = t
    <3>1. th[t] # Idle /\ th'[t].req = th[t].req /\ th'[t].to = th[t].to
      BY <1>1, <2>2, ToStays
    <3>2. CASE th[t].pc = "course"
      BY <1>1, <2>2, <3>1, <3>2, CourseOwned, OpenedStays DEF CoursesInv
    <3>3. CASE th[t].pc # "course"
      BY <1>1, <2>2, <3>1, <3>3, OpenedStays DEF OnOpened
    <3> QED
      BY <3>2, <3>3
  <2> QED
    BY <2>1, <2>2
<1>2. ASSUME NEW s \in Threads, th'[s] # Idle, th'[s].req.op = "reset"
      PROVE  th'[s].to = None
  <2>1. CASE s # t
    BY <1>2, <2>1, OthersKept DEF OnOpened
  <2>2. CASE s = t
    BY <1>2, <2>2, ToStays DEF OnOpened
  <2> QED
    BY <2>1, <2>2
<1>3. ASSUME NEW i \in 1..minted'.invites, invite'[i] # None, invite'[i].course # None
      PROVE  Opened(th', minted'.courses, invite'[i].course)
  <2>1. CASE i \in 1..minted.invites
    <3>1. invite[i] # None /\ invite'[i].course = invite[i].course
      BY <1>3, <2>1, InvitesMove
    <3> QED
      BY <1>3, <2>1, <3>1, OpenedStays DEF OnOpened, Issued
  <2>2. CASE i \notin 1..minted.invites
    <3>1. Issue(t) /\ invite'[i].course = th[t].to
      BY <1>3, <2>2, IssuedRow
    <3>2. th[t] # Idle /\ th[t].pc = "issue" /\ Fits(th[t], "issue")
      BY <3>1, PeopleAt, Here
    <3>3. th[t].req.op \in Rostering
      BY <1>3, <3>1, <3>2 DEF OnOpened, Fits, Routed, Rostering
    <3> QED
      BY <3>1, <3>2, <3>3, OpenedStays DEF OnOpened
  <2> QED
    BY <2>1, <2>2
<1> QED
  BY <1>1, <1>2, <1>3 DEF OnOpened, Issued

LEMMA LinksOnRosterAct ==
  ASSUME TypeInv, CoursesInv, OnOpened, Relies, LinksOnRoster, NEW t \in Threads, Act(t), Clean'
  PROVE  LinksOnRoster'
<1> SUFFICES ASSUME NEW i \in 1..minted'.invites, invite'[i] # None,
                    invite'[i].state = "live", invite'[i].course \in course'
             PROVE  \/ invite'[i].who \in roster'[invite'[i].course]
                    \/ \E o \in Threads : Removing(th'[o], invite'[i].who)
  BY DEF LinksOnRoster, Issued
<1>1. course \subseteq Courses /\ course' \subseteq Courses
  BY CourseTyped DEF TypeInv, TypeOK, AccountsOK
<1>2. CASE i \in 1..minted.invites
  <2> DEFINE s == invite[i].who
             c == invite[i].course
  <2>1. /\ invite[i] # None /\ invite'[i].who = s /\ invite'[i].course = c
        /\ invite[i].state = "live" /\ i \in Issued
    BY <1>2, InvitesMove DEF Issued
  <2>2. c \in Courses /\ c # None
    BY <1>1, <2>1, NamesAssumption
  <2>3. c \in course
    BY <2>1, <2>2, CourseKeeps DEF OnOpened
  <2>4. ~Void(t) \/ s # th[t].who
    <3> SUFFICES ASSUME Void(t), s = th[t].who PROVE FALSE
      OBVIOUS
    <3>1. i \in LiveOf(s)
      BY <2>1 DEF LiveOf
    <3>2. invite'[i] = [invite[i] EXCEPT !.state = "voided"]
      <4>1. minted.invites \in 0..MaxInvites /\ MaxInvites \in Nat /\ DOMAIN invite = 1..MaxInvites
        BY IssueAssumption DEF TypeInv, TypeOK, AccountsOK
      <4>2. i \in DOMAIN invite
        BY <1>2, <4>1
      <4> QED
        BY <3>1, <4>2 DEF Void, VoidInvites
    <3>3. invite[i] \in Invite
      BY <1>2, <2>1, InvitesMove
    <3> QED
      BY <3>2, <3>3 DEF Invite
  <2>5. ~(Wipe(t) /\ th[t].who = s)
    <3> SUFFICES ASSUME Wipe(t), s = th[t].who PROVE FALSE
      OBVIOUS
    <3>1. i \in DOMAIN invite
      <4>1. minted.invites \in 0..MaxInvites /\ MaxInvites \in Nat /\ DOMAIN invite = 1..MaxInvites
        BY IssueAssumption DEF TypeInv, TypeOK, AccountsOK
      <4> QED
        BY <1>2, <4>1
    <3>2. invite'[i] = None
      BY <2>1, <3>1 DEF Wipe, DropStudent
    <3> QED
      BY <3>2
  <2>6. CASE s \in roster[c]
    BY <2>1, <2>2, <2>5, <2>6, RosterKeeps
  <2>7. CASE \E o \in Threads : Removing(th[o], s)
    <3>1. PICK o \in Threads : Removing(th[o], s)
      BY <2>7
    <3>2. CASE o = t
      <4>1. th[t].pc = "void" /\ th[t].who = s
        BY <3>1, <3>2 DEF Removing
      <4>2. AccountStep(t) \/ Fail(t)
        BY <4>1, OnlyPeople
      <4>3. Void(t) \/ Fail(t)
        BY <4>1, <4>2, PeopleAt DEF At, AccountStep
      <4>4. ~Fail(t)
        BY CleanBefore DEF Fail
      <4> QED
        BY <2>4, <4>1, <4>3, <4>4
    <3>3. CASE o # t
      <4>1. Kept(th[o], th'[o]) /\ Sound(th[o]) /\ th'[o] \in Job \cup {Idle}
        BY <3>3, ActMoves, MovesTurn DEF Turn, TypeInv, FramesOK
      <4>2. Removing(th'[o], s)
        BY <3>1, <4>1, KeptSound DEF Removing
      <4> QED
        BY <2>1, <4>2
    <3> QED
      BY <3>2, <3>3
  <2> QED
    BY <2>1, <2>3, <2>6, <2>7 DEF LinksOnRoster
<1>3. CASE i \notin 1..minted.invites
  <2>1. Issue(t) /\ invite'[i].course = th[t].to /\ invite'[i].who = th[t].who
    BY <1>3, IssuedRow
  <2>2. /\ th[t] # Idle /\ th[t].pc = "issue" /\ Fits(th[t], "issue") /\ th[t].who \in Students
    BY <2>1, PeopleAt, Here, HereStudent DEF AtStudent
  <2>3. th[t].to # None
    BY <1>1, <2>1, NamesAssumption
  <2>4. th[t].req.op \in Sends
    BY <2>2, <2>3 DEF OnOpened, Fits, Routed, Sends
  <2>5. th[t].who \in Due(th[t])
    BY <2>2, <2>4 DEF Due
  <2>6. course' = course /\ roster' = roster
    BY <2>1 DEF Issue
  <2>7. th[t].who \in roster[th[t].to]
    BY <2>1, <2>2, <2>5, <2>6 DEF Relies
  <2> QED
    BY <2>1, <2>6, <2>7
<1> QED
  BY <1>2, <1>3

\* The rows of the invites stay, apart from their time.
SameRows(rows, next) ==
  \A j : /\ next[j] # None => rows[j] # None
         /\ rows[j] # None => /\ next[j] # None
                              /\ next[j].state = rows[j].state
                              /\ next[j].course = rows[j].course
                              /\ next[j].who = rows[j].who

LEMMA PassInvites ==
  ASSUME TypeInv, invite' = invite \/ \E i \in Issued : Expire(i)
  PROVE  SameRows(invite, invite')
<1>1. ASSUME NEW i \in Issued, Expire(i), NEW j
      PROVE  /\ invite'[j] # None => invite[j] # None
             /\ invite[j] # None => /\ invite'[j] # None
                                    /\ invite'[j].state = invite[j].state
                                    /\ invite'[j].course = invite[j].course
                                    /\ invite'[j].who = invite[j].who
  <2>1. PICK row \in Invite :
          /\ invite' = [invite EXCEPT ![i] = row]
          /\ row.who = invite[i].who /\ row.course = invite[i].course
          /\ row.state = invite[i].state
    BY <1>1, ExpireWrites
  <2>2. DOMAIN invite = 1..MaxInvites /\ i \in 1..MaxInvites /\ invite[i] \in Invite
    BY <1>1, ExpireWrites DEF TypeInv, TypeOK, AccountsOK
  <2>3. CASE j = i
    BY <2>1, <2>2, <2>3, NoRowAssumption
  <2>4. CASE j # i
    <3>1. invite'[j] = invite[j]
      BY <2>1, <2>4
    <3> QED
      BY <3>1
  <2> QED
    BY <2>3, <2>4
<1> QED
  BY <1>1 DEF SameRows

LEMMA RevokeNext ==
  ASSUME TypeInv, CoursesInv, RevokeInv, [Next]_vars
  PROVE  RevokeInv'
<1>1. ASSUME NEW t \in Threads, Act(t) PROVE RevokeInv'
  <2>1. OnOpened'
    BY <1>1, OnOpenedAct DEF RevokeInv
  <2>2. ASSUME Clean' PROVE Relies' /\ LinksOnRoster'
    <3>1. Clean
      BY <1>1, <2>2, CleanBefore
    <3> QED
      BY <1>1, <2>2, <3>1, ReliesAct, LinksOnRosterAct DEF RevokeInv
  <2> QED
    BY <2>1, <2>2 DEF RevokeInv
<1>2. ASSUME NEW t \in Threads, Begin(t) PROVE RevokeInv'
  <2>1. /\ UNCHANGED <<invite, course, roster, lost>> /\ minted'.invites = minted.invites
        /\ th[t] = Idle /\ \A s \in Threads \ {t} : th'[s] = th[s]
        /\ th'[t] # Idle /\ th'[t].pc \in Firsts /\ Sound(th'[t])
        /\ th'[t].pc = FirstPc(th'[t].req.op)
    BY <1>2, BeginWrites, BeginSound
  <2>2. \A c : Opened(th, minted.courses, c) => Opened(th', minted'.courses, c)
    BY <1>2, CoursesBegin
  <2>3. th'[t].req.op \in Rostering => th'[t].pc = "course"
    <3>1. \A op \in Rostering : FirstPc(op) = "course"
      BY DEF FirstPc, Rostering, Linking
    <3> QED
      BY <2>1, <3>1
  <2>4. th'[t].req.op = "reset" => th'[t].to = None
    <3>1. PICK r \in scenario.calls : th'[t].req = r /\ th'[t].to = r.course
      BY <1>2, BeginAsks
    <3>2. scenario \in Scenarios
      BY DEF TypeInv, TypeOK
    <3> QED
      BY <3>1, <3>2, ScenarioAssumption
  <2>5. OnOpened'
    BY <2>1, <2>2, <2>3, <2>4 DEF RevokeInv, OnOpened, Issued
  <2>6. Due(th'[t]) = {}
    BY <2>1 DEF Due, Firsts
  <2>7. ASSUME Clean' PROVE Relies'
    <3> SUFFICES ASSUME NEW o \in Threads, th'[o] # Idle, th'[o].to \in course
                 PROVE  Due(th'[o]) \subseteq roster[th'[o].to]
      BY <2>1 DEF Relies
    <3>1. Relies
      BY <2>1, <2>7 DEF RevokeInv, Clean, Without
    <3> QED
      BY <2>1, <2>6, <3>1 DEF Relies
  <2>8. ASSUME Clean' PROVE LinksOnRoster'
    <3> SUFFICES ASSUME NEW i \in Issued, invite[i].state = "live", invite[i].course \in course
                 PROVE  \/ invite[i].who \in roster[invite[i].course]
                        \/ \E o \in Threads : Removing(th'[o], invite[i].who)
      BY <2>1 DEF LinksOnRoster, Issued
    <3>1. LinksOnRoster
      BY <2>1, <2>8 DEF RevokeInv, Clean, Without
    <3>2. CASE invite[i].who \in roster[invite[i].course]
      BY <3>2
    <3>3. CASE \E o \in Threads : Removing(th[o], invite[i].who)
      <4>1. PICK o \in Threads : Removing(th[o], invite[i].who)
        BY <3>3
      <4>2. th'[o] = th[o]
        BY <2>1, <4>1 DEF Removing
      <4> QED
        BY <4>1, <4>2
    <3> QED
      BY <3>1, <3>2, <3>3 DEF LinksOnRoster
  <2> QED
    BY <2>5, <2>7, <2>8 DEF RevokeInv
<1>3. ASSUME UNCHANGED <<course, roster, th, lost, minted>>,
             \/ invite' = invite
             \/ \E i \in Issued : Expire(i)
      PROVE  RevokeInv'
  <2>1. \A j : /\ invite'[j] # None => invite[j] # None
               /\ invite[j] # None => /\ invite'[j].state = invite[j].state
                                      /\ invite'[j].course = invite[j].course
                                      /\ invite'[j].who = invite[j].who
    BY <1>3, PassInvites DEF SameRows
  <2>2. \A c : Opened(th, minted.courses, c) => Opened(th', minted'.courses, c)
    BY <1>3 DEF Opened
  <2>3. OnOpened'
    BY <1>3, <2>1, <2>2 DEF RevokeInv, OnOpened, Issued
  <2>4. Clean' => Clean /\ Relies'
    BY <1>3 DEF RevokeInv, Clean, Without, Relies
  <2>5. Clean' => LinksOnRoster'
    <3> SUFFICES ASSUME Clean', NEW i \in Issued', invite'[i].state = "live",
                        invite'[i].course \in course'
                 PROVE  \/ invite'[i].who \in roster'[invite'[i].course]
                        \/ \E o \in Threads : Removing(th'[o], invite'[i].who)
      BY DEF LinksOnRoster
    <3>1. i \in Issued /\ invite[i] # None
      BY <1>3, <2>1 DEF Issued
    <3> QED
      BY <1>3, <2>1, <2>4, <3>1 DEF RevokeInv, LinksOnRoster
  <2> QED
    BY <2>3, <2>4, <2>5 DEF RevokeInv
<1> QED
  BY <1>1, <1>2, <1>3, Steps, PassWrites

\* The invite of the first state is of a student who has one.
LEMMA FirstInvite ==
  ASSUME Init, NEW i \in Issued
  PROVE  /\ i = 1
         /\ \E s \in In(scenario, {"invited"}) :
              invite[i] = [who |-> s, course |-> scenario.first, state |-> "live",
                           old |-> FALSE, uses |-> 0, over |-> {}]
<1>1. PICK sc \in Scenarios : scenario = sc /\ InitInvites(sc)
  BY DEF Init
<1>2. minted.invites \in 0..MaxInvites /\ MaxInvites \in Nat
  BY TypeInit, IssueAssumption DEF TypeInv, TypeOK
<1>3. i \in 1..MaxInvites /\ invite[i] # None
  BY <1>2 DEF Issued
<1>4. /\ i = 1 /\ In(sc, {"invited"}) # {}
      /\ invite[i] = [who |-> CHOOSE s \in In(sc, {"invited"}) : TRUE, course |-> sc.first,
                      state |-> "live", old |-> FALSE, uses |-> 0, over |-> {}]
  BY <1>1, <1>3 DEF InitInvites
<1> QED
  BY <1>1, <1>4

LEMMA RevokeInit == Init => RevokeInv
<1> SUFFICES ASSUME Init PROVE RevokeInv
  OBVIOUS
<1>1. \A t \in Threads : th[t] = Idle
  BY DEF Init
<1>2. /\ course = scenario.courses /\ scenario \in Scenarios /\ course = minted.courses
      /\ roster = [c \in Courses |-> IF c = scenario.first
                     THEN In(scenario, {"invited", "active"}) ELSE {}]
  BY DEF Init, InitInvites
<1>3. scenario.first \in course /\ scenario.first \in Courses
  <2>1. scenario \in Scenario /\ scenario.first \in scenario.courses
    BY <1>2, ScenarioAssumption
  <2> QED
    BY <1>2, <2>1 DEF Scenario
<1>4. ASSUME NEW i \in Issued
      PROVE  /\ Opened(th, minted.courses, invite[i].course)
             /\ invite[i].who \in roster[invite[i].course]
  <2>1. PICK s \in In(scenario, {"invited"}) :
          invite[i] = [who |-> s, course |-> scenario.first, state |-> "live",
                       old |-> FALSE, uses |-> 0, over |-> {}]
    BY FirstInvite
  <2>2. invite[i].who = s /\ invite[i].course = scenario.first
    BY <2>1
  <2>3. s \in roster[scenario.first]
    BY <1>2, <1>3 DEF In
  <2>4. Opened(th, minted.courses, scenario.first)
    BY <1>1, <1>2, <1>3 DEF Opened, Comes
  <2> QED
    BY <2>2, <2>3, <2>4
<1> QED
  BY <1>1, <1>4 DEF RevokeInv, OnOpened, Relies, LinksOnRoster

\* RemovalRevokes: once a student is off a course that still exists, nobody
\* holds a link that would put them back on (roster_remove voids what it
\* leaves), in every history in which no removal or erasure crossed another
\* request about the student, no store call failed half-way and no edit of a
\* deleted course put it back.
THEOREM RemovalsRevoke == Spec => []RemovalRevokes
<1>1. Init => CoursesInv /\ RevokeInv
  BY CoursesInit, RevokeInit
<1>2. CoursesInv /\ RevokeInv /\ TypeInv /\ [Next]_vars => CoursesInv' /\ RevokeInv'
  BY CoursesNext, RevokeNext
<1>3. RevokeInv => RemovalRevokes
  BY DEF RevokeInv, RemovalRevokes, Clean, LinksOnRoster, Removing, Quiet, Busy
<1> QED
  BY <1>1, <1>2, <1>3, TypesStay, PTL DEF Spec

-----------------------------------------------------------------------------
(* Whoever waits for a password has a link, or is about to.                 *)

Calm == Without({"fault", "removed"})

\* A job that will send the student a link, or set their password.
Serving(job, s) ==
  /\ job # Idle /\ job.who = s
  /\ \/ job.pc = "void" /\ job.req.op # "remove"
     \/ job.pc \in {"issue", "owner", "password"}
     \/ job.pc = "enrol" /\ Issues(job)

\* The invites of a student that are live, in a table of which n are given out.
LiveRows(rows, n, s) == {i \in 1..n : rows[i] # None /\ rows[i].who = s /\ rows[i].state = "live"}

Served(users, rows, n, jobs, s) ==
  \/ users[s] = None \/ Activated(users[s])
  \/ LiveRows(rows, n, s) # {}
  \/ \E t \in Threads : Serving(jobs[t], s)

ServedNow(s) == Served(user, invite, minted.invites, th, s)

LEMMA LiveAre == \A s : LiveOf(s) = LiveRows(invite, minted.invites, s)
BY DEF LiveOf, LiveRows, Issued

\* A redemption is of a row of the student it was looked up for.
RedeemSees ==
  \A t \in Threads :
    th[t] # Idle /\ th[t].pc = "redeem" =>
      /\ th[t].ref \in 1..minted.invites
      /\ invite[th[t].ref] # None => invite[th[t].ref].who = th[t].who

\* A removal that voids has taken a student off.
RemovalKnown ==
  \A t \in Threads :
    th[t] # Idle /\ th[t].pc = "void" /\ th[t].req.op = "remove" => "removed" \in lost

LEMMA UserMoves ==
  ASSUME TypeInv, NEW t \in Threads, Act(t), NEW s \in Students
  PROVE  \/ user'[s] = user[s]
         \/ Insert(t) /\ s = th[t].who
         \/ SetPassword(t) /\ s = th[t].who /\ user'[s] # None /\ Activated(user'[s])
         \/ Wipe(t) /\ s = th[t].who /\ user'[s] = None
<1>1. user \in [Students -> Account \cup {None}]
  BY DEF TypeInv, TypeOK, AccountsOK
<1>2. CASE Insert(t)
  <2>1. user' = user \/ user' = [user EXCEPT ![th[t].who] = Placeholder(th[t].n)]
    BY <1>2 DEF Insert, PutUser
  <2> QED
    BY <1>1, <1>2, <2>1
<1>3. CASE SetPassword(t)
  <2> DEFINE x == th[t].who
             row == [user[x] EXCEPT !.pwd = th[t].n]
  <2>1. user' = user \/ (user[x] # None /\ user' = [user EXCEPT ![x] = row])
    BY <1>3 DEF SetPassword
  <2>2. CASE user[x] # None /\ user' = [user EXCEPT ![x] = row]
    <3>1. x \in Students /\ th[t].n \in Nat /\ th[t].n # 0
      BY <1>3, PeopleAt, Here, HereStudent DEF AtStudent
    <3>2. user[x] \in Account
      BY <1>1, <2>2, <3>1
    <3>3. row \in Account /\ row.pwd = th[t].n
      BY <3>1, <3>2 DEF Account
    <3> HIDE DEF row
    <3>4. CASE s = x
      <4>1. user'[s] = row
        BY <1>1, <2>2, <3>4
      <4> QED
        BY <1>3, <3>1, <3>3, <3>4, <4>1, NoRowAssumption DEF Activated
    <3>5. CASE s # x
      BY <1>1, <2>2, <3>5
    <3> QED
      BY <3>4, <3>5
  <2> QED
    BY <2>1, <2>2
<1>4. CASE Wipe(t)
  <2>1. user' = [user EXCEPT ![th[t].who] = None]
    BY <1>4 DEF Wipe, DropStudent
  <2> QED
    BY <1>1, <1>4, <2>1
<1> QED
  BY <1>2, <1>3, <1>4, Writers

\* Invites go by erasures only.
LEMMA InviteGone ==
  ASSUME TypeInv, NEW t \in Threads, Act(t), NEW i \in 1..minted.invites,
         invite[i] # None, invite'[i] = None
  PROVE  Wipe(t) /\ invite[i].who = th[t].who
<1>1. /\ invite \in [1..MaxInvites -> Invite \cup {None}] /\ MaxInvites \in Nat
      /\ minted.invites \in 0..MaxInvites /\ DOMAIN invite = 1..MaxInvites
  BY IssueAssumption DEF TypeInv, TypeOK, AccountsOK
<1>2. i \in 1..MaxInvites /\ invite[i] \in Invite
  BY <1>1
<1>3. ~Void(t)
  <2> SUFFICES ASSUME Void(t) PROVE FALSE
    OBVIOUS
  <2>1. invite'[i] = invite[i] \/ invite'[i] = [invite[i] EXCEPT !.state = "voided"]
    BY <1>1, <1>2 DEF Void, VoidInvites
  <2>2. [invite[i] EXCEPT !.state = "voided"] \in Invite
    BY <1>2 DEF Invite
  <2> QED
    BY <2>1, <2>2, NoRowAssumption
<1>4. ~Issue(t)
  <2> SUFFICES ASSUME Issue(t) PROVE FALSE
    OBVIOUS
  <2>1. \E row : invite' = [invite EXCEPT ![minted.invites + 1] = row]
    BY DEF Issue, PutInvite
  <2>2. invite'[i] = invite[i]
    BY <1>1, <1>2, <2>1
  <2> QED
    BY <2>2
<1>5. ~Redeem(t)
  <2> SUFFICES ASSUME Redeem(t) PROVE FALSE
    OBVIOUS
  <2> DEFINE j == th[t].ref
             row == [invite[j] EXCEPT !.state = "redeemed", !.uses = @ + 1]
  <2>1. Redeemable(j) /\ RedeemInvite(j)
    BY DEF Redeem
  <2>2. /\ invite' = [invite EXCEPT ![j] = row]
        /\ j \in 1..MaxInvites /\ invite[j] \in Invite
    <3>1. j \in 1..MaxInvites /\ invite[j] \in Invite
      BY <1>1, <2>1 DEF Redeemable, Issued
    <3>2. invite' = [invite EXCEPT ![j] = row]
      BY <2>1 DEF RedeemInvite
    <3> QED
      BY <3>1, <3>2
  <2>3. row.state = "redeemed" /\ row.who = invite[j].who /\ j = i
    BY <1>2, <2>2 DEF Invite
  <2>4. invite'[i] = row
    BY <1>1, <1>2, <2>2, <2>3
  <2>5. row \in Invite
    <3>1. invite' \in [1..MaxInvites -> Invite \cup {None}]
      BY InviteTyped
    <3>2. row # None
      <4> DEFINE n == invite[j].uses + 1
      <4>1. n \in Nat
        BY <2>2 DEF Invite
      <4>2. row = [invite[j] EXCEPT !.state = "redeemed", !.uses = n]
        BY <2>2
      <4> HIDE DEF n, row
      <4>3. row \in Invite
        BY <2>2, <4>1, <4>2 DEF Invite
      <4> QED
        BY <4>3, NoRowAssumption
    <3> QED
      BY <1>2, <2>4, <3>1, <3>2
  <2> QED
    BY <2>4, <2>5, NoRowAssumption
<1>6. CASE Wipe(t)
  <2>1. invite'[i] = IF invite[i].who = th[t].who THEN None ELSE invite[i]
    BY <1>1, <1>2, <1>6 DEF Wipe, DropStudent, Issued
  <2> QED
    BY <1>6, <2>1
<1> QED
  BY <1>3, <1>4, <1>5, <1>6, Writers

\* Without a fault or a removal, whoever is served stays served.
LEMMA CalmBefore ==
  ASSUME NEW t \in Threads, Act(t), Calm'
  PROVE  Calm /\ "fault" \notin lost' /\ "removed" \notin lost' /\ "removed" \notin lost
BY LostGrows DEF Calm, Without

\* A thread that serves a student goes on to the link or the password.
LEMMA ServerGoesOn ==
  ASSUME TypeInv, NEW t \in Threads, Act(t), Calm', NEW s \in Students, Serving(th[t], s)
  PROVE  Served(user', invite', minted'.invites, th', s)
<1>1. /\ Busy(t) /\ th[t] # Idle /\ th[t].who = s /\ th[t] \in Job
      /\ th \in [Threads -> Job \cup {Idle}]
      /\ th[t].pc \in {"void", "issue", "owner", "password", "enrol"}
  BY Working DEF Serving, Busy
<1>2. ~Fail(t)
  BY CalmBefore DEF Fail
<1>3. AccountStep(t)
  <2>1. CASE th[t].pc = "owner"
    <3>1. ~DeskStep(t)
      BY <2>1 DEF DeskStep, CreateExam, NamedCourse, CountExams, ReadExam, PutExam, DeleteExam,
         ReadCourse, PutCourse, CourseExams, DeleteCourse, Since, Parked, ReadPark, WritePark,
         At
    <3>2. ~FormationStep(t)
      BY <2>1 DEF FormationStep, Mine, ReadOpen, OpenPathway, Reach, StepOn, At
    <3>3. ~TileStep(t)
      BY <2>1 DEF TileStep, Purge, ReadWall, OpenWall, ReadToken, Beat, OwnedWall, CloseWall,
         At
    <3> QED
      BY <1>2, <3>1, <3>2, <3>3 DEF Act
  <2>2. CASE th[t].pc # "owner"
    BY <1>1, <1>2, <2>2, OnlyPeople
  <2> QED
    BY <2>1, <2>2
<1>4. CASE th[t].pc = "void"
  <2>1. Void(t)
    BY <1>3, <1>4, PeopleAt DEF At, AccountStep
  <2>2. th'[t] = [th[t] EXCEPT !.over = LiveOf(s), !.pc = "issue"]
    BY <1>1, <1>4, <2>1, SetTo DEF Void, Serving
  <2>3. th'[t].pc = "issue" /\ th'[t].who = s
    BY <1>1, <2>2 DEF Job
  <2> QED
    BY <2>3 DEF Served, Serving, Idle
<1>5. CASE th[t].pc = "issue"
  <2>1. Issue(t)
    BY <1>3, <1>5, PeopleAt DEF At, AccountStep
  <2> DEFINE k == minted.invites + 1
             row == [who |-> s, course |-> th[t].to, state |-> "live", old |-> FALSE,
                     uses |-> 0, over |-> th[t].over]
  <2>2. /\ minted.invites < MaxInvites /\ minted' = [minted EXCEPT !.invites = k]
        /\ invite' = [invite EXCEPT ![k] = row]
    BY <1>1, <2>1 DEF Issue, PutInvite
  <2>3. row.who = s /\ row.state = "live"
    OBVIOUS
  <2>4. row # None
    <3>1. th[t].to \in Courses \cup {None} /\ th[t].over \in SUBSET (1..MaxInvites)
      BY <1>1, JobFields
    <3>2. row \in Invite
      BY <3>1 DEF Invite
    <3> QED
      BY <3>2, NoRowAssumption
  <2> HIDE DEF row
  <2>5. k \in 1..MaxInvites /\ minted'.invites = k /\ k \in 1..k
    BY <2>2, IssueAssumption DEF TypeInv, TypeOK
  <2>6. invite'[k] = row
    BY <2>2, <2>5 DEF TypeInv, TypeOK, AccountsOK
  <2>7. k \in LiveRows(invite', minted'.invites, s)
    BY <2>3, <2>4, <2>5, <2>6 DEF LiveRows
  <2> QED
    BY <2>7 DEF Served
<1>6. CASE th[t].pc = "owner"
  <2>1. Owner(t)
    BY <1>3, <1>6, PeopleAt DEF At, AccountStep
  <2>2. user' = user
    BY <2>1 DEF Owner, tables, people
  <2>3. CASE user[s] = None
    BY <2>2, <2>3 DEF Served
  <2>4. CASE user[s] # None
    <3>1. Go(t, "password")
      BY <1>1, <2>1, <2>4 DEF Owner
    <3>2. th'[t].pc = "password" /\ th'[t].who = s
      BY <1>1, <3>1 DEF Go, Set, Job
    <3> QED
      BY <3>2 DEF Served, Serving, Idle
  <2> QED
    BY <2>3, <2>4
<1>7. CASE th[t].pc = "password"
  <2>1. SetPassword(t)
    BY <1>3, <1>7, PeopleAt DEF At, AccountStep
  <2>2. CASE user[s] = None
    BY <1>1, <2>1, <2>2 DEF SetPassword, Served
  <2>3. CASE user[s] # None
    <3>1. user' = [user EXCEPT ![s].pwd = th[t].n]
      BY <1>1, <2>1, <2>3 DEF SetPassword
    <3>2. user[s] \in Account /\ user \in [Students -> Account \cup {None}]
      BY <2>3 DEF TypeInv, TypeOK, AccountsOK
    <3>3. th[t].n \in Nat /\ th[t].n # 0
      BY <2>1, PeopleAt, Here
    <3>4. user'[s].pwd = th[t].n
      BY <3>1, <3>2, <3>3 DEF Account
    <3> QED
      BY <3>3, <3>4 DEF Served, Activated
  <2> QED
    BY <2>2, <2>3
<1>8. CASE th[t].pc = "enrol"
  <2>1. Enrol(t) /\ Issues(th[t])
    BY <1>3, <1>8, PeopleAt DEF At, AccountStep, Serving
  <2>2. Go(t, "void") /\ th[t].req.op = "add"
    BY <2>1 DEF Enrol, Issues
  <2>3. th'[t].pc = "void" /\ th'[t].who = s /\ th'[t].req = th[t].req
    BY <1>1, <2>2 DEF Go, Set, Job
  <2> QED
    BY <2>2, <2>3 DEF Served, Serving, Idle
<1> QED
  BY <1>1, <1>4, <1>5, <1>6, <1>7, <1>8

LEMMA ServedStays ==
  ASSUME TypeInv, RedeemSees, RemovalKnown, NEW t \in Threads, Act(t), Calm',
         NEW s \in Students, ServedNow(s)
  PROVE  Served(user', invite', minted'.invites, th', s)
<1>1. CASE Insert(t) /\ s = th[t].who
  <2>1. /\ th[t] \in Job /\ th \in [Threads -> Job \cup {Idle}]
        /\ th[t].req.op \in {"add", "join"}
    BY <1>1, PeopleAt, Here, Working DEF Fits, Routed
  <2> DEFINE pc == IF th[t].req.op = "add" THEN "enrol" ELSE "password"
  <2>2. th'[t] = [th[t] EXCEPT !.invited = TRUE, !.pc = pc]
    BY <1>1, SetTo DEF Insert
  <2>3. (pc = "enrol" /\ th[t].req.op = "add") \/ pc = "password"
    OBVIOUS
  <2> HIDE DEF pc
  <2>4. /\ th'[t].pc = pc /\ th'[t].who = s /\ th'[t].invited = TRUE
        /\ th'[t].req = th[t].req
    BY <1>1, <2>1, <2>2 DEF Job
  <2> QED
    BY <2>3, <2>4 DEF Served, Serving, Issues, Idle
<1>2. CASE user[s] = None \/ Activated(user[s])
  BY <1>1, <1>2, UserMoves DEF Served
<1>3. CASE \E o \in Threads : Serving(th[o], s)
  <2>1. PICK o \in Threads : Serving(th[o], s)
    BY <1>3
  <2>2. CASE o = t
    BY <2>1, <2>2, ServerGoesOn
  <2>3. CASE o # t
    <3>1. Kept(th[o], th'[o]) /\ Sound(th[o]) /\ th'[o] \in Job \cup {Idle}
      BY <2>3, ActMoves, MovesTurn DEF Turn, TypeInv, FramesOK
    <3>2. Serving(th'[o], s)
      BY <2>1, <3>1, KeptSound DEF Serving, Issues
    <3> QED
      BY <3>2 DEF Served
  <2> QED
    BY <2>2, <2>3
<1>4. CASE LiveRows(invite, minted.invites, s) # {}
  <2>1. PICK i \in 1..minted.invites :
          invite[i] # None /\ invite[i].who = s /\ invite[i].state = "live"
    BY <1>4 DEF LiveRows
  <2>2. CASE invite'[i] = None
    <3>1. Wipe(t) /\ th[t].who = s
      BY <2>1, <2>2, InviteGone
    <3>2. user'[s] = None
      BY <3>1 DEF Wipe, DropStudent, TypeInv, TypeOK, AccountsOK
    <3> QED
      BY <3>2 DEF Served
  <2>3. CASE invite'[i] # None
    <3>1. /\ invite'[i].who = s
          /\ \/ invite'[i].state = "live"
             \/ Void(t) /\ th[t].who = s
             \/ Redeem(t) /\ i = th[t].ref /\ invite'[i].state = "redeemed"
      BY <2>1, <2>3, InviteTurns
    <3>2. CASE invite'[i].state = "live"
      <4>1. i \in 1..minted'.invites
        <5>1. /\ minted'.invites \in Nat /\ minted.invites \in Nat
              /\ minted'.invites >= minted.invites
          BY InvitesMove
        <5> QED
          BY <5>1
      <4>2. i \in LiveRows(invite', minted'.invites, s)
        BY <2>3, <3>1, <3>2, <4>1 DEF LiveRows
      <4> QED
        BY <4>2 DEF Served
    <3>3. CASE Void(t) /\ th[t].who = s
      <4>1. th[t] # Idle /\ th[t].pc = "void"
        BY <3>3, PeopleAt, Here
      <4>2. th[t].req.op # "remove"
        BY <4>1, CalmBefore DEF RemovalKnown
      <4>3. Serving(th[t], s)
        BY <3>3, <4>1, <4>2 DEF Serving
      <4> QED
        BY <4>3, ServerGoesOn
    <3>4. CASE Redeem(t) /\ i = th[t].ref /\ invite'[i].state = "redeemed"
      <4>1. /\ th[t] # Idle /\ th[t].pc = "redeem" /\ th[t] \in Job
            /\ th \in [Threads -> Job \cup {Idle}]
        BY <3>4, PeopleAt, Here, Working
      <4>2. th[t].who = s
        BY <2>1, <3>4, <4>1 DEF RedeemSees
      <4>3. Redeemable(i)
        BY <2>1 DEF Redeemable, Issued
      <4>4. Go(t, "owner")
        BY <3>4, <4>3 DEF Redeem
      <4>5. th'[t].pc = "owner" /\ th'[t].who = s
        BY <4>1, <4>2, <4>4 DEF Go, Set, Job
      <4> QED
        BY <4>5 DEF Served, Serving, Idle
    <3> QED
      BY <3>1, <3>2, <3>3, <3>4
  <2> QED
    BY <2>2, <2>3
<1> QED
  BY <1>2, <1>3, <1>4 DEF ServedNow, Served

\* A job that will enrol a student, and send no link.
Claim(job) ==
  \/ job.req.op = "mejoin"
  \/ job.req.op = "join" /\ (job.made \/ job.pc = "enrol")
  \/ job.req.op = "add" /\ job.pc = "enrol" /\ ~job.invited

\* A sign-up enrols the account it made.
JoinsMade ==
  \A t \in Threads :
    th[t] # Idle /\ th[t].pc = "enrol" /\ th[t].req.op = "join" => th[t].made

LEMMA JoinsMadeAct ==
  ASSUME TypeInv, JoinsMade, NEW t \in Threads, Act(t)
  PROVE  JoinsMade'
<1> SUFFICES ASSUME NEW s \in Threads, th'[s] # Idle, th'[s].pc = "enrol",
                    th'[s].req.op = "join"
             PROVE  th'[s].made
  BY DEF JoinsMade
<1>1. CASE s # t
  BY <1>1, OthersKept DEF JoinsMade
<1>2. CASE s = t
  <2>1. Turn(t) /\ th[t] # Idle /\ th[t] \in Job /\ th[t].req.op = "join"
        /\ th \in [Threads -> Job \cup {Idle}]
    BY <1>2, ActMoves, MovesTurn DEF Turn, Follows, TypeInv, TypeOK
  <2>2. Count(t) \/ Find(t) \/ Insert(t) \/ SetPassword(t) \/ Target(t) \/ Launch(t)
    <3>1. CASE AccountStep(t)
      BY <1>2, <3>1, PeopleLead DEF AccountStep, To
    <3>2. CASE DeskStep(t)
      BY <1>2, <3>2, DeskLeads DEF DeskStep, To
    <3>3. CASE FormationStep(t)
      BY <1>2, <3>3, FormationLeads DEF FormationStep, To
    <3>4. CASE TileStep(t)
      BY <1>2, <3>4, TilesLead DEF TileStep, To
    <3>5. ~Fail(t)
      BY <1>2, SetTo DEF Fail, Finish
    <3> QED
      BY <3>1, <3>2, <3>3, <3>4, <3>5 DEF Act
  <2>3. CASE Count(t)
    <3> DEFINE pc == AfterCount(th[t])
    <3>1. th'[t] = [th[t] EXCEPT !.pc = pc, !.counted = TRUE]
      BY <1>2, <2>3, SetTo DEF Count, Finish
    <3>2. pc = "enrol" => th[t].made
      BY <2>1 DEF AfterCount
    <3> HIDE DEF pc
    <3>3. th'[t].pc = pc /\ th'[t].made = th[t].made
      BY <2>1, <3>1 DEF Job
    <3> QED
      BY <1>2, <3>2, <3>3
  <2>4. CASE Find(t)
    <3>1. th'[t] = [th[t] EXCEPT !.pc = "insert"]
      BY <1>2, <2>1, <2>4, SetTo DEF Find, Finish, Go, Existing
    <3>2. th'[t].pc = "insert"
      BY <2>1, <3>1 DEF Job
    <3> QED
      BY <1>2, <3>2
  <2>5. CASE Insert(t)
    <3>1. th'[t] = [th[t] EXCEPT !.invited = TRUE, !.pc = "password"]
      BY <2>1, <2>5, SetTo DEF Insert
    <3>2. th'[t].pc = "password"
      BY <2>1, <3>1 DEF Job
    <3> QED
      BY <1>2, <3>2
  <2>6. CASE SetPassword(t)
    <3>1. th'[t] = AfterPassword(th[t])
      BY <2>6, SetTo DEF SetPassword
    <3>2. AfterPassword(th[t]).made
      BY <2>1 DEF AfterPassword, Job
    <3> QED
      BY <1>2, <3>1, <3>2
  <2>7. CASE Target(t)
    <3>1. th'[t] = [th[t] EXCEPT !.pc = "account"]
      BY <1>2, <2>1, <2>7, SetTo DEF Target, Finish, Go
    <3>2. th'[t].pc = "account"
      BY <2>1, <3>1 DEF Job
    <3> QED
      BY <1>2, <3>2
  <2>8. CASE Launch(t)
    BY <2>1, <2>8, PeopleAt, Here DEF Fits, Routed
  <2> QED
    BY <2>2, <2>3, <2>4, <2>5, <2>6, <2>7, <2>8
<1> QED
  BY <1>1, <1>2

\* A request keeps to the student it claims to have served.
LEMMA ClaimMoves ==
  ASSUME TypeInv, JoinsMade, NEW t \in Threads, Act(t), th'[t] # Idle, Claim(th'[t])
  PROVE  /\ th'[t].who \in Students
         /\ \/ th[t] # Idle /\ Claim(th[t]) /\ th'[t].who = th[t].who
            \/ user'[th'[t].who] = None \/ Activated(user'[th'[t].who])
<1>1. /\ Turn(t) /\ th[t] # Idle /\ th[t] \in Job /\ Framed(th[t]) /\ th'[t].req = th[t].req
      /\ Follows(th[t], th'[t]) /\ th \in [Threads -> Job \cup {Idle}]
      /\ th'[t] \in Job /\ Framed(th'[t])
  BY ActMoves, MovesTurn DEF Turn, Follows, Sound, TypeInv, TypeOK, FramesOK
<1>2. th'[t].who \in Students
  BY <1>1 DEF Claim, Framed, Fits, OfStudent, AtStudent
<1>3. ~Fail(t)
  BY SetTo DEF Fail, Finish
<1>4. ASSUME th[t].req.op \in Joining
      PROVE  th'[t].who = th[t].who
  <2> SUFFICES ASSUME th'[t].who # th[t].who PROVE FALSE
    OBVIOUS
  <2>1. th[t].pc \in {"find", "enrol"} /\ th[t].todo = {}
    BY <1>1, <1>4 DEF Follows, Framed, Fits, Routed, Joining
  <2>2. AccountStep(t)
    BY <1>3, <2>1, OnlyPeople
  <2>3. CASE th[t].pc = "find"
    <3>1. Find(t)
      BY <2>2, <2>3, PeopleAt DEF At, AccountStep
    <3>2. th'[t] = [th[t] EXCEPT !.pc = "insert"]
      BY <1>4, <3>1, SetTo DEF Find, Finish, Go, Existing, Joining
    <3> QED
      BY <1>1, <3>2 DEF Job
  <2>4. CASE th[t].pc = "enrol"
    <3>1. Enrol(t)
      BY <2>2, <2>4, PeopleAt DEF At, AccountStep
    <3>2. ToNext(t)
      BY <1>4, <3>1 DEF Enrol, Issues, Joining
    <3>3. th'[t] \in Advance(th[t])
      BY <1>1, <2>4, <3>2, ToNextTurn DEF Busy
    <3> QED
      BY <1>1, <2>1, <3>3, NextOf
  <2> QED
    BY <2>1, <2>3, <2>4
<1>5. CASE th[t].req.op = "mejoin"
  BY <1>1, <1>2, <1>4, <1>5 DEF Claim, Joining
<1>6. CASE th[t].req.op = "join"
  <2>1. th'[t].made
    BY <1>1, <1>6, JoinsMadeAct DEF JoinsMade, Claim
  <2>2. CASE th[t].made
    BY <1>1, <1>2, <1>4, <1>6, <2>2 DEF Claim, Joining
  <2>3. CASE ~th[t].made
    <3>1. th[t].pc = "password"
      BY <1>1, <2>1, <2>3 DEF Follows
    <3>2. SetPassword(t)
      BY <1>3, <3>1, OnlyPeople, PeopleAt DEF At, AccountStep
    <3>3. th'[t].who = th[t].who
      BY <1>4, <1>6 DEF Joining
    <3>4. user[th[t].who] = None => user' = user
      BY <3>2 DEF SetPassword
    <3>5. ASSUME user[th[t].who] # None
          PROVE  Activated(user'[th[t].who])
      <4> DEFINE x == th[t].who
      <4>1. user' = [user EXCEPT ![x].pwd = th[t].n]
        BY <3>2, <3>5 DEF SetPassword
      <4>2. user[x] \in Account /\ user \in [Students -> Account \cup {None}]
        BY <1>2, <3>3, <3>5 DEF TypeInv, TypeOK, AccountsOK
      <4>3. th[t].n \in Nat /\ th[t].n # 0
        BY <3>2, PeopleAt, Here
      <4>4. user'[x].pwd = th[t].n
        BY <1>2, <3>3, <4>1, <4>2, <4>3 DEF Account
      <4> QED
        BY <4>3, <4>4 DEF Activated
    <3> QED
      BY <1>2, <3>3, <3>4, <3>5
  <2> QED
    BY <2>2, <2>3
<1>7. CASE th[t].req.op = "add" /\ th'[t].pc = "enrol" /\ ~th'[t].invited
  <2>1. Count(t) \/ Find(t) \/ Insert(t) \/ SetPassword(t) \/ Target(t) \/ Launch(t)
    <3>1. CASE AccountStep(t)
      BY <1>7, <3>1, PeopleLead DEF AccountStep, To
    <3>2. CASE DeskStep(t)
      BY <1>7, <3>2, DeskLeads DEF DeskStep, To
    <3>3. CASE FormationStep(t)
      BY <1>7, <3>3, FormationLeads DEF FormationStep, To
    <3>4. CASE TileStep(t)
      BY <1>7, <3>4, TilesLead DEF TileStep, To
    <3> QED
      BY <1>3, <3>1, <3>2, <3>3, <3>4 DEF Act
  <2>2. ~SetPassword(t) /\ ~Target(t) /\ ~Launch(t)
    BY <1>7, PeopleAt, Here DEF Fits, Routed, Joining
  <2>3. CASE Count(t)
    <3>1. AfterCount(th[t]) = "next"
      BY <1>7 DEF AfterCount
    <3>2. th'[t] = [th[t] EXCEPT !.pc = "next", !.counted = TRUE]
      BY <2>3, <3>1, SetTo DEF Count, Finish
    <3>3. th'[t].pc = "next"
      BY <1>1, <3>2 DEF Job
    <3> QED
      BY <1>7, <3>3
  <2>4. CASE Insert(t)
    <3>1. th'[t] = [th[t] EXCEPT !.invited = TRUE, !.pc = "enrol"]
      BY <1>7, <2>4, SetTo DEF Insert
    <3>2. th'[t].invited = TRUE
      BY <1>1, <3>1 DEF Job
    <3> QED
      BY <1>7, <3>2
  <2>5. CASE Find(t)
    <3>1. user' = user /\ th[t].pc = "find" /\ th[t].who \in Students
      BY <2>5, PeopleAt, HereStudent DEF Find, tables, people, At, AtStudent
    <3>2. \/ Go(t, "insert") \/ ToNext(t)
          \/ th'[t] = [th[t] EXCEPT !.invited = ~Activated(user[th[t].who]), !.pc = "enrol"]
      BY <1>7, <2>5, SetTo DEF Find, Existing
    <3>3. ~Go(t, "insert")
      <4> SUFFICES ASSUME Go(t, "insert") PROVE FALSE
        OBVIOUS
      <4>1. th'[t].pc = "insert"
        BY <1>1 DEF Go, Set, Job
      <4> QED
        BY <1>7, <4>1
    <3>4. ~ToNext(t)
      <4> SUFFICES ASSUME ToNext(t) PROVE FALSE
        OBVIOUS
      <4>1. th'[t] \in Advance(th[t])
        BY <1>1, <3>1, ToNextTurn DEF Busy
      <4>2. th'[t].pc = "find"
        BY <1>1, <1>7, <4>1, NextOf DEF FirstFor
      <4> QED
        BY <1>7, <4>2
    <3> DEFINE b == ~Activated(user[th[t].who])
    <3>5. th'[t] = [th[t] EXCEPT !.invited = b, !.pc = "enrol"]
      BY <3>2, <3>3, <3>4
    <3> HIDE DEF b
    <3>6. th'[t].invited = b /\ th'[t].who = th[t].who
      BY <1>1, <3>5 DEF Job
    <3>7. ~b
      BY <1>7, <3>6
    <3> QED
      BY <1>2, <3>1, <3>6, <3>7 DEF b
  <2> QED
    BY <2>1, <2>2, <2>3, <2>4, <2>5
<1> QED
  BY <1>1, <1>5, <1>6, <1>7 DEF Claim

LEMMA RedeemSeesAct ==
  ASSUME TypeInv, RedeemSees, NEW t \in Threads, Act(t)
  PROVE  RedeemSees'
<1> SUFFICES ASSUME NEW s \in Threads, th'[s] # Idle, th'[s].pc = "redeem"
             PROVE  /\ th'[s].ref \in 1..minted'.invites
                    /\ invite'[th'[s].ref] # None => invite'[th'[s].ref].who = th'[s].who
  BY DEF RedeemSees
<1>1. /\ th'[s].ref \in 1..minted.invites
      /\ invite[th'[s].ref] # None => invite[th'[s].ref].who = th'[s].who
  <2>1. CASE s # t
    BY <2>1, OthersKept DEF RedeemSees
  <2>2. CASE s = t
    <3>1. /\ Look(t) /\ th[t] \in Job /\ th \in [Threads -> Job \cup {Idle}]
      BY <2>2, Arrivals, PeopleAt, Here, Working
    <3> DEFINE i == th[t].ref
               who == invite[i].who
               to == invite[i].course
    <3>2. Redeemable(i) /\ th'[t] = [th[t] EXCEPT !.who = who, !.to = to, !.pc = "redeem"]
      BY <2>2, <3>1, SetTo DEF Look, Finish
    <3> HIDE DEF who, to
    <3>3. th'[t].who = who /\ th'[t].ref = i
      BY <3>1, <3>2 DEF Job
    <3> QED
      BY <2>2, <3>2, <3>3 DEF who, Redeemable, Issued
  <2> QED
    BY <2>1, <2>2
<1>2. th'[s].ref \in 1..minted'.invites
  <2>1. minted'.invites \in Nat /\ minted.invites \in Nat /\ minted'.invites >= minted.invites
    BY InvitesMove
  <2> QED
    BY <1>1, <2>1
<1>3. invite'[th'[s].ref] # None => invite'[th'[s].ref].who = invite[th'[s].ref].who
                                    /\ invite[th'[s].ref] # None
  BY <1>1, InvitesMove
<1> QED
  BY <1>1, <1>2, <1>3

LEMMA RemovalKnownAct ==
  ASSUME TypeInv, RemovalKnown, NEW t \in Threads, Act(t)
  PROVE  RemovalKnown'
<1> SUFFICES ASSUME NEW s \in Threads, th'[s] # Idle, th'[s].pc = "void",
                    th'[s].req.op = "remove"
             PROVE  "removed" \in lost'
  BY DEF RemovalKnown
<1>1. CASE s # t
  <2>1. "removed" \in lost
    BY <1>1, OthersKept DEF RemovalKnown
  <2> QED
    BY <2>1, LostGrows
<1>2. CASE s = t
  <2>1. th[t].req.op = "remove" /\ th[t] # Idle
    BY <1>2, ActMoves, MovesTurn DEF Turn, Follows
  <2>2. ~Fail(t)
    BY <1>2, SetTo DEF Fail, Finish
  <2>3. Enrol(t) \/ Issue(t) \/ Unenrol(t) \/ Holder(t) \/ Holders(t) \/ ResetRequest(t)
    <3>1. CASE AccountStep(t)
      BY <1>2, <3>1, PeopleLead DEF AccountStep, To
    <3>2. CASE DeskStep(t)
      BY <1>2, <3>2, DeskLeads DEF DeskStep, To
    <3>3. CASE FormationStep(t)
      BY <1>2, <3>3, FormationLeads DEF FormationStep, To
    <3>4. CASE TileStep(t)
      BY <1>2, <3>4, TilesLead DEF TileStep, To
    <3> QED
      BY <2>2, <3>1, <3>2, <3>3, <3>4 DEF Act
  <2>4. Unenrol(t)
    BY <2>1, <2>3, PeopleAt, Here DEF Fits, Routed, Joining
  <2>5. th[t].who \in roster[th[t].to]
    BY <1>2, <2>4, SetTo DEF Unenrol, Finish
  <2> QED
    BY <2>4, <2>5 DEF Unenrol
<1> QED
  BY <1>1, <1>2

\* Whoever a request claims to have served is; so is everybody on a roster,
\* unless they came by a link that asks nothing of them.
Claims == \A t \in Threads : th[t] # Idle /\ Claim(th[t]) => ServedNow(th[t].who)

EnrolledServed == "uncounted" \notin lost => \A s \in Enrolled : ServedNow(s)

ServedInv == JoinsMade /\ RedeemSees /\ RemovalKnown /\ (Calm => Claims /\ EnrolledServed)

LEMMA ClaimsAct ==
  ASSUME TypeInv, ServedInv, NEW t \in Threads, Act(t), Calm'
  PROVE  Claims'
<1> USE DEF ServedInv
<1> SUFFICES ASSUME NEW s \in Threads, th'[s] # Idle, Claim(th'[s])
             PROVE  Served(user', invite', minted'.invites, th', th'[s].who)
  BY DEF Claims, ServedNow
<1>1. Claims
  BY CalmBefore
<1>2. CASE s = t
  <2>1. CASE th[t] # Idle /\ Claim(th[t]) /\ th'[t].who = th[t].who
    <3>1. ServedNow(th[t].who) /\ th[t].who \in Students
      BY <1>1, <1>2, <2>1, ClaimMoves DEF Claims
    <3> QED
      BY <1>2, <2>1, <3>1, ServedStays
  <2>2. CASE user'[th'[t].who] = None \/ Activated(user'[th'[t].who])
    BY <1>2, <2>2 DEF Served
  <2> QED
    BY <1>2, <2>1, <2>2, ClaimMoves
<1>3. CASE s # t
  <2>1. th[s] # Idle /\ Claim(th[s]) /\ th'[s].who = th[s].who /\ Sound(th[s])
    BY <1>3, OthersKept DEF Claim
  <2>2. th[s].who \in Students
    BY <2>1 DEF Sound, Claim, Framed, Fits, OfStudent, AtStudent
  <2> QED
    BY <1>1, <2>1, <2>2, ServedStays DEF Claims
<1> QED
  BY <1>2, <1>3

\* Who is put on a roster.
LEMMA EnrolledBy ==
  ASSUME TypeInv, NEW t \in Threads, Act(t), NEW s \in Enrolled', s \notin Enrolled
  PROVE  Enrol(t) /\ s = th[t].who
<1>1. PICK c \in Courses : s \in roster'[c]
  BY DEF Enrolled
<1>2. s \notin roster[c] /\ roster \in [Courses -> SUBSET Students]
  BY DEF Enrolled, TypeInv, TypeOK, AccountsOK
<1>3. ~Unenrol(t) /\ ~Wipe(t) /\ ~DeleteCourse(t)
  BY <1>1, <1>2 DEF Unenrol, DeleteEnrollment, Wipe, DropStudent, DeleteCourse, DropCourse
<1>4. Enrol(t)
  BY <1>1, <1>2, <1>3, Writers
<1>5. s = th[t].who
  BY <1>1, <1>2, <1>4 DEF Enrol, PutEnrollment
<1> QED
  BY <1>4, <1>5

LEMMA EnrolledServedAct ==
  ASSUME TypeInv, ServedInv, NEW t \in Threads, Act(t), Calm'
  PROVE  EnrolledServed'
<1> SUFFICES ASSUME "uncounted" \notin lost', NEW s \in Enrolled'
             PROVE  Served(user', invite', minted'.invites, th', s)
  BY DEF EnrolledServed, ServedNow
<1>1. Claims /\ \A x \in Enrolled : ServedNow(x)
  BY CalmBefore, LostGrows DEF ServedInv, EnrolledServed
<1>2. \A x \in Enrolled : x \in Students
  BY DEF Enrolled, TypeInv, TypeOK, AccountsOK
<1>3. CASE s \in Enrolled
  BY <1>1, <1>2, <1>3, ServedStays DEF ServedInv
<1>4. CASE s \notin Enrolled
  <2>1. Enrol(t) /\ s = th[t].who
    BY <1>4, EnrolledBy
  <2>2. /\ th[t] # Idle /\ th[t].pc = "enrol" /\ s \in Students
        /\ th[t].req.op \in {"add", "redeem", "launch", "join", "mejoin"}
        /\ th[t].invited \in BOOLEAN
    BY <2>1, PeopleAt, Here, HereStudent, JobFields DEF Fits, Routed, Joining, AtStudent
  <2>3. th[t].req.op \notin {"redeem", "launch"}
    BY <1>4, <2>1 DEF Enrol
  <2>4. Serving(th[t], s) \/ Claim(th[t])
    BY <2>1, <2>2, <2>3 DEF Serving, Issues, Claim
  <2>5. ServedNow(s)
    BY <1>1, <2>1, <2>2, <2>4 DEF ServedNow, Served, Claims
  <2> QED
    BY <2>2, <2>5, ServedStays DEF ServedInv
<1> QED
  BY <1>3, <1>4

LEMMA ServedNext ==
  ASSUME TypeInv, ServedInv, [Next]_vars
  PROVE  ServedInv'
<1>1. ASSUME NEW t \in Threads, Act(t) PROVE ServedInv'
  <2>1. JoinsMade' /\ RedeemSees' /\ RemovalKnown'
    BY <1>1, JoinsMadeAct, RedeemSeesAct, RemovalKnownAct DEF ServedInv
  <2>2. Calm' => Claims' /\ EnrolledServed'
    BY <1>1, ClaimsAct, EnrolledServedAct
  <2> QED
    BY <2>1, <2>2 DEF ServedInv
<1>2. ASSUME NEW t \in Threads, Begin(t) PROVE ServedInv'
  <2>1. /\ UNCHANGED <<user, invite, roster, lost>> /\ minted'.invites = minted.invites
        /\ th[t] = Idle /\ \A s \in Threads \ {t} : th'[s] = th[s]
        /\ th'[t] # Idle /\ th'[t].pc \in Firsts /\ th'[t].made = FALSE
    BY <1>2, BeginWrites, BeginSound
  <2>2. th'[t].pc \notin {"enrol", "void", "redeem"}
    BY <2>1 DEF Firsts
  <2>3. JoinsMade' /\ RedeemSees' /\ RemovalKnown'
    BY <2>1, <2>2 DEF ServedInv, JoinsMade, RedeemSees, RemovalKnown
  <2>4. ASSUME NEW s, ServedNow(s) PROVE Served(user', invite', minted'.invites, th', s)
    <3>1. \A o \in Threads : Serving(th[o], s) => Serving(th'[o], s)
      BY <2>1 DEF Serving
    <3> QED
      BY <2>1, <2>4, <3>1 DEF ServedNow, Served
  <2>5. Claim(th'[t]) => Served(user', invite', minted'.invites, th', th'[t].who)
    <3> SUFFICES ASSUME Claim(th'[t])
                 PROVE  Served(user', invite', minted'.invites, th', th'[t].who)
      OBVIOUS
    <3>1. th'[t].req.op = "mejoin"
      BY <2>1, <2>2 DEF Claim
    <3>2. th'[t].who = Named(th'[t].req) /\ Possible(th'[t].req)
      BY <1>2, BeginAsks
    <3>3. Activated(user[th'[t].who])
      BY <3>1, <3>2 DEF Possible
    <3> QED
      BY <2>1, <3>3 DEF Served
  <2>6. ASSUME Calm' PROVE Claims' /\ EnrolledServed'
    <3>1. Claims /\ EnrolledServed
      BY <2>1, <2>6 DEF ServedInv, Calm, Without
    <3>2. Claims'
      <4> SUFFICES ASSUME NEW s \in Threads, th'[s] # Idle, Claim(th'[s])
                   PROVE  Served(user', invite', minted'.invites, th', th'[s].who)
        BY DEF Claims, ServedNow
      <4>1. CASE s = t
        BY <2>5, <4>1
      <4>2. CASE s # t
        BY <2>1, <2>4, <3>1, <4>2 DEF Claims
      <4> QED
        BY <4>1, <4>2
    <3>3. EnrolledServed'
      <4> SUFFICES ASSUME "uncounted" \notin lost, NEW s \in Enrolled
                   PROVE  Served(user', invite', minted'.invites, th', s)
        BY <2>1 DEF EnrolledServed, ServedNow, Enrolled
      <4> QED
        BY <2>4, <3>1 DEF EnrolledServed
    <3> QED
      BY <3>2, <3>3
  <2> QED
    BY <2>3, <2>6 DEF ServedInv
<1>3. ASSUME UNCHANGED <<user, roster, th, lost, minted>>,
             invite' = invite \/ \E i \in Issued : Expire(i)
      PROVE  ServedInv'
  <2>1. \A j : /\ invite'[j] # None => invite[j] # None
               /\ invite[j] # None => /\ invite'[j] # None
                                      /\ invite'[j].state = invite[j].state
                                      /\ invite'[j].who = invite[j].who
    BY <1>3, PassInvites DEF SameRows
  <2>2. JoinsMade' /\ RedeemSees' /\ RemovalKnown'
    BY <1>3, <2>1 DEF ServedInv, JoinsMade, RedeemSees, RemovalKnown
  <2>3. \A s : ServedNow(s) => Served(user', invite', minted'.invites, th', s)
    BY <1>3, <2>1 DEF ServedNow, Served, LiveRows
  <2>4. ASSUME Calm' PROVE Claims' /\ EnrolledServed'
    <3>1. Claims /\ EnrolledServed
      BY <1>3, <2>4 DEF ServedInv, Calm, Without
    <3>2. Claims'
      BY <1>3, <2>3, <3>1 DEF Claims, ServedNow
    <3>3. EnrolledServed'
      BY <1>3, <2>3, <3>1 DEF EnrolledServed, ServedNow, Enrolled
    <3> QED
      BY <3>2, <3>3
  <2> QED
    BY <2>2, <2>4 DEF ServedInv
<1> QED
  BY <1>1, <1>2, <1>3, Steps, PassWrites

\* The students of the first state have their passwords, or the one of them
\* that waits has the invite.
LEMMA ServedInit == Init => ServedInv
<1> SUFFICES ASSUME Init PROVE ServedInv
  OBVIOUS
<1>1. PICK sc \in Scenarios :
        /\ user = [s \in Students |-> CASE sc.stage[s] = "new" -> None
                                        [] sc.stage[s] = "active" -> [pwd |-> 1, by |-> 1]
                                        [] OTHER -> Placeholder(1)]
        /\ roster = [c \in Courses |-> IF c = sc.first
                       THEN In(sc, {"invited", "active"}) ELSE {}]
        /\ InitInvites(sc)
  BY DEF Init
<1>2. \A t \in Threads : th[t] = Idle
  BY DEF Init
<1>3. ASSUME NEW s \in Enrolled PROVE ServedNow(s)
  <2>1. s \in Students /\ sc.stage[s] \in {"invited", "active"}
    BY <1>1, <1>3 DEF Enrolled, In
  <2>2. CASE sc.stage[s] = "active"
    <3>1. user[s] = [pwd |-> 1, by |-> 1]
      BY <1>1, <2>1, <2>2
    <3> QED
      BY <3>1 DEF ServedNow, Served, Activated
  <2>3. CASE sc.stage[s] = "invited"
    <3> DEFINE invited == In(sc, {"invited"})
    <3>1. s \in invited /\ IsFiniteSet(invited)
      BY <2>1, <2>3, FiniteAssumption, FS_Subset DEF In
    <3>2. Cardinality(invited) <= 1 /\ Cardinality(invited) <= MaxInvites
      BY ScenarioAssumption
    <3>3. Cardinality(invited) = 1
      BY <3>1, <3>2, FS_CardinalityType, FS_EmptySet
    <3>4. invited = {s}
      BY <3>1, <3>3, FS_Singleton
    <3>5. (CHOOSE x \in invited : TRUE) = s
      BY <3>4
    <3> DEFINE row == [who |-> CHOOSE x \in invited : TRUE, course |-> sc.first,
                       state |-> "live", old |-> FALSE, uses |-> 0, over |-> {}]
    <3>6. 1 \in 1..MaxInvites /\ minted.invites = 1 /\ 1 \in 1..1
      BY <1>1, <3>2, <3>3, IssueAssumption DEF InitInvites
    <3>7. invite[1] = row
      BY <1>1, <3>1, <3>6 DEF InitInvites
    <3>8. row.who = s /\ row.state = "live"
      BY <3>5
    <3>9. row # None
      <4>1. row \in Invite
        BY <2>1, <3>5, ScenarioAssumption DEF Invite, Scenario
      <4> QED
        BY <4>1, NoRowAssumption
    <3> HIDE DEF row
    <3>10. 1 \in LiveRows(invite, minted.invites, s)
      BY <3>6, <3>7, <3>8, <3>9 DEF LiveRows
    <3> QED
      BY <3>10 DEF ServedNow, Served
  <2> QED
    BY <2>1, <2>2, <2>3
<1> QED
  BY <1>2, <1>3 DEF ServedInv, JoinsMade, RedeemSees, RemovalKnown, Claims, EnrolledServed

\* InvitedHasLink: a student on a roster whose account waits for its password
\* has a live link to set it with whenever no request is under way, however
\* the issues, redemptions and sign-ups of the student interleaved, in every
\* history without a failed store call, a removal, or an enrolment by a link
\* that asks nothing of the account (roster_add, invites.issue).
THEOREM InvitedStudentsHaveLinks == Spec => []InvitedHasLink
<1>1. ServedInv => InvitedHasLink
  <2> SUFFICES ASSUME ServedInv, Quiet, Without({"fault", "removed", "uncounted"}),
                      NEW s \in Enrolled, user[s] # None, ~Activated(user[s])
               PROVE  LiveOf(s) # {}
    BY DEF InvitedHasLink
  <2>1. ServedNow(s)
    BY DEF ServedInv, Calm, Without, EnrolledServed
  <2>2. \A t \in Threads : ~Serving(th[t], s)
    BY DEF Quiet, Busy, Serving
  <2> QED
    BY <2>1, <2>2, LiveAre DEF ServedNow, Served
<1> QED
  BY <1>1, ServedInit, ServedNext, TypesStay, PTL DEF Spec

-----------------------------------------------------------------------------
(* The cap on students.                                                     *)

Capped == Without({"fault", "rush", "uncounted", "overtaken", "stale exam"})

\* Requests that ask whether there is a seat.
Filling == {"add"} \cup Joining

\* The students that a request is yet to enrol.
Batch(job) == job.todo \cup ({job.who} \cap Students)

LEMMA CappedBefore ==
  ASSUME NEW t \in Threads, Act(t), Capped'
  PROVE  /\ Capped /\ "fault" \notin lost' /\ "rush" \notin lost'
         /\ "uncounted" \notin lost' /\ "overtaken" \notin lost' /\ "stale exam" \notin lost'
BY LostGrows DEF Capped, Without

LEMMA FillsBy ==
  ASSUME TypeInv, NEW t \in Threads, Act(t), th'[t] # Idle, th'[t].req.op \in Filling
  PROVE  /\ AccountStep(t) /\ Turn(t) /\ Follows(th[t], th'[t])
         /\ th[t] # Idle /\ th[t] \in Job /\ Framed(th[t]) /\ th[t].req.op \in Filling
         /\ th \in [Threads -> Job \cup {Idle}]
<1>1. /\ Turn(t) /\ Follows(th[t], th'[t]) /\ th[t] # Idle /\ th[t] \in Job
      /\ Framed(th[t]) /\ th[t].req.op \in Filling /\ th \in [Threads -> Job \cup {Idle}]
  BY ActMoves, MovesTurn DEF Turn, Follows, Sound, TypeInv, TypeOK, FramesOK
<1>2. th[t].req.op \in {"add", "join", "mejoin"}
  BY <1>1 DEF Filling, Joining
<1>3. Routed(th[t].req.op, th[t].pc)
  BY <1>1 DEF Framed, Fits
<1>4. ~DeskStep(t)
  BY <1>2, <1>3 DEF Routed, DeskStep, CreateExam, NamedCourse, CountExams, ReadExam, PutExam,
     DeleteExam, ReadCourse, PutCourse, CourseExams, DeleteCourse, Since, Parked, ReadPark,
     WritePark, At
<1>5. ~FormationStep(t)
  BY <1>2, <1>3 DEF Routed, FormationStep, Mine, ReadOpen, OpenPathway, Reach, StepOn, At
<1>6. ~TileStep(t)
  BY <1>2, <1>3 DEF Routed, TileStep, Purge, ReadWall, OpenWall, ReadToken, Beat, OwnedWall,
     CloseWall, At
<1>7. ~Fail(t)
  BY SetTo DEF Fail, Finish
<1> QED
  BY <1>1, <1>4, <1>5, <1>6, <1>7 DEF Act

\* A batch only gets smaller.
LEMMA BatchShrinks ==
  ASSUME TypeInv, NEW t \in Threads, Act(t), th'[t] # Idle, th'[t].req.op \in Filling
  PROVE  Batch(th'[t]) \subseteq Batch(th[t])
<1>1. /\ AccountStep(t) /\ Turn(t) /\ Follows(th[t], th'[t])
      /\ th[t] # Idle /\ th[t] \in Job /\ Framed(th[t]) /\ th[t].req.op \in Filling
      /\ th \in [Threads -> Job \cup {Idle}]
  BY FillsBy
<1>2. ASSUME NEW pc, Go(t, pc) PROVE Batch(th'[t]) = Batch(th[t])
  BY <1>1, <1>2 DEF Go, Set, Batch, Job
<1>3. ASSUME NEW job \in Job, NEW next \in Advance(job), next # Idle,
             job.todo = th[t].todo, th'[t] = next
      PROVE  Batch(th'[t]) \subseteq Batch(th[t])
  BY <1>3, NextOf DEF Batch
<1>4. ToNext(t) => Batch(th'[t]) \subseteq Batch(th[t])
  BY <1>1, <1>3, SetTo DEF ToNext
<1>5. ~Finish(t)
  BY SetTo DEF Finish
<1>6. CASE OwnedCourse(t)
  BY <1>2, <1>5, <1>6 DEF OwnedCourse
<1>7. CASE CountNew(t)
  <2> DEFINE n == Fresh(th[t].todo \cup ({th[t].who} \cap Students))
  <2>1. th'[t] = [th[t] EXCEPT !.new = n, !.pc = "count"]
    BY <1>7, SetTo DEF CountNew
  <2> HIDE DEF n
  <2> QED
    BY <1>1, <2>1 DEF Batch, Job
<1>8. CASE Count(t)
  <2> DEFINE pc == AfterCount(th[t])
  <2>1. th'[t] = [th[t] EXCEPT !.pc = pc, !.counted = TRUE]
    BY <1>5, <1>8, SetTo DEF Count
  <2> HIDE DEF pc
  <2> QED
    BY <1>1, <2>1 DEF Batch, Job
<1>9. CASE NextStudent(t)
  BY <1>4, <1>9 DEF NextStudent
<1>10. CASE Find(t)
  <2>1. Go(t, "insert") \/ ToNext(t) \/ Set(t, Existing(th[t]))
    BY <1>5, <1>10 DEF Find
  <2>2. CASE Set(t, Existing(th[t]))
    <3> DEFINE b == ~Activated(user[th[t].who])
    <3>1. th'[t] = [th[t] EXCEPT !.invited = b, !.pc = "enrol"]
      BY <2>2, SetTo DEF Existing
    <3> HIDE DEF b
    <3> QED
      BY <1>1, <3>1 DEF Batch, Job
  <2> QED
    BY <1>2, <1>4, <2>1, <2>2
<1>11. CASE Insert(t)
  <2> DEFINE pc == IF th[t].req.op = "add" THEN "enrol" ELSE "password"
  <2>1. th'[t] = [th[t] EXCEPT !.invited = TRUE, !.pc = pc]
    BY <1>11, SetTo DEF Insert
  <2> HIDE DEF pc
  <2> QED
    BY <1>1, <2>1 DEF Batch, Job
<1>12. CASE SetPassword(t)
  <2>1. th'[t] = AfterPassword(th[t])
    BY <1>12, SetTo DEF SetPassword
  <2>2. \E pc : th'[t] = [th[t] EXCEPT !.made = TRUE, !.pc = pc]
    BY <2>1 DEF AfterPassword
  <2> QED
    BY <1>1, <2>2 DEF Batch, Job
<1>13. CASE Enrol(t)
  BY <1>2, <1>4, <1>13 DEF Enrol
<1>14. CASE Void(t)
  <2> DEFINE over == LiveOf(th[t].who)
  <2>1. th'[t] = [th[t] EXCEPT !.over = over, !.pc = "issue"]
    BY <1>5, <1>14, SetTo DEF Void
  <2> HIDE DEF over
  <2> QED
    BY <1>1, <2>1 DEF Batch, Job
<1>15. CASE Issue(t)
  <2> DEFINE job == [th[t] EXCEPT !.over = {}]
  <2>1. job \in Job /\ job.todo = th[t].todo
    BY <1>1 DEF Job
  <2>2. \E next \in Advance(job) : Set(t, next)
    BY <1>15 DEF Issue
  <2> HIDE DEF job
  <2> QED
    BY <1>3, <2>1, <2>2, SetTo
<1>16. CASE FindLink(t)
  <2> DEFINE to == link[th[t].ref].course
  <2>1. th'[t] = [th[t] EXCEPT !.to = to, !.pc = "target"]
    BY <1>5, <1>16, SetTo DEF FindLink
  <2> HIDE DEF to
  <2> QED
    BY <1>1, <2>1 DEF Batch, Job
<1>17. CASE Target(t) \/ ReadAccount(t) \/ Me(t)
  BY <1>2, <1>5, <1>17 DEF Target, ReadAccount, Me
<1>18. \/ OwnedCourse(t) \/ CountNew(t) \/ Count(t) \/ NextStudent(t) \/ Find(t) \/ Insert(t)
       \/ SetPassword(t) \/ Enrol(t) \/ Void(t) \/ Issue(t) \/ FindLink(t) \/ Target(t)
       \/ ReadAccount(t) \/ Me(t)
  <2>1. th[t].req.op \in {"add", "join", "mejoin"}
    BY <1>1 DEF Filling, Joining
  <2>2. Routed(th[t].req.op, th[t].pc)
    BY <1>1 DEF Framed, Fits
  <2> QED
    BY <1>1, <2>1, <2>2, PeopleAt DEF Routed, AccountStep, At, Linking
<1> QED
  BY <1>6, <1>7, <1>8, <1>9, <1>10, <1>11, <1>12, <1>13, <1>14, <1>15, <1>16, <1>17, <1>18

\* A request that was counted in holds its seats until it ends.
Seated(job) == job # Idle /\ job.req.op \in Filling /\ job.counted

\* Points past the count.
PastCount == {"next", "find", "insert", "password", "enrol", "void", "issue"}

LEMMA SeatedBy ==
  ASSUME TypeInv, NEW t \in Threads, Act(t), Seated(th'[t])
  PROVE  Seated(th[t]) \/ Count(t)
<1>1. /\ AccountStep(t) /\ Follows(th[t], th'[t]) /\ th[t] # Idle /\ th[t] \in Job
      /\ Framed(th[t]) /\ th[t].req.op \in Filling
  BY FillsBy DEF Seated
<1>2. CASE th[t].pc = "count"
  BY <1>1, <1>2, PeopleAt DEF AccountStep, At
<1>3. CASE th[t].pc = "exams"
  BY <1>1, <1>3 DEF Framed, Fits, Routed, Filling, Joining
<1>4. CASE th[t].pc \notin {"count", "exams"}
  BY <1>1, <1>4 DEF Seated, Follows
<1> QED
  BY <1>2, <1>3, <1>4

\* In a free workspace nobody gets past the count without it.
CountedIn ==
  \A t \in Threads :
    th[t] # Idle /\ th[t].req.op \in Filling /\ th[t].pc \in PastCount => th[t].counted

LEMMA CountedInAct ==
  ASSUME TypeInv, SelfServe, CountedIn, NEW t \in Threads, Act(t), Capped'
  PROVE  CountedIn'
<1> SUFFICES ASSUME NEW s \in Threads, th'[s] # Idle, th'[s].req.op \in Filling,
                    th'[s].pc \in PastCount
             PROVE  th'[s].counted
  BY DEF CountedIn
<1>1. CASE s # t
  BY <1>1, OthersKept DEF CountedIn
<1>2. CASE s = t
  <2>1. /\ AccountStep(t) /\ Follows(th[t], th'[t]) /\ th[t] # Idle /\ th[t] \in Job
        /\ Framed(th[t]) /\ th[t].req.op \in Filling /\ th'[t].req = th[t].req
        /\ th \in [Threads -> Job \cup {Idle}]
    BY <1>2, FillsBy DEF Follows
  <2>2. th[t].req.op \in {"add", "join", "mejoin"} /\ Routed(th[t].req.op, th[t].pc)
    BY <2>1 DEF Filling, Joining, Framed, Fits
  <2>3. CASE th[t].pc \in PastCount
    <3>1. th'[t].counted = th[t].counted
      BY <2>1, <2>3 DEF Follows, PastCount
    <3> QED
      BY <1>2, <2>1, <2>3, <3>1 DEF CountedIn
  <2>4. CASE Count(t)
    <3> DEFINE pc == AfterCount(th[t])
    <3>1. th'[t] = [th[t] EXCEPT !.pc = pc, !.counted = TRUE]
      BY <1>2, <2>4, SetTo DEF Count, Finish
    <3> HIDE DEF pc
    <3> QED
      BY <1>2, <2>1, <3>1 DEF Job
  <2>5. CASE th[t].pc \notin PastCount /\ ~Count(t)
    <3>1. OwnedCourse(t) \/ CountNew(t) \/ FindLink(t) \/ Target(t) \/ ReadAccount(t) \/ Me(t)
      BY <2>1, <2>2, <2>5, PeopleAt DEF Routed, AccountStep, At, Linking, PastCount
    <3>2. th'[t].pc \in {"new", "next", "unenrol", "member", "members", "active", "voidlinks",
                         "count", "target", "account", "enrol", "find", "link"}
      BY <1>2, <3>1, PeopleLead DEF To
    <3>3. th'[t].pc \in {"next", "find", "enrol"}
      BY <1>2, <3>2 DEF PastCount
    <3>4. ~CountNew(t) /\ ~FindLink(t) /\ ~Me(t)
      BY <1>2, <3>3, PeopleLead DEF To
    <3>5. ASSUME NEW pc, Go(t, pc) PROVE th'[t].pc = pc
      BY <2>1, <3>5 DEF Go, Set, Job
    <3>6. ~Finish(t)
      BY <1>2, SetTo DEF Finish
    <3>7. CASE OwnedCourse(t)
      <4>1. Go(t, AfterCourse(th[t])) /\ th[t].req.op = "add"
        BY <2>2, <3>6, <3>7 DEF OwnedCourse, Linking, Rostering
      <4>2. AfterCourse(th[t]) = "new"
        BY <4>1 DEF AfterCourse
      <4> QED
        BY <3>3, <3>5, <4>1, <4>2
    <3>8. CASE Target(t)
      BY <3>3, <3>5, <3>6, <3>8 DEF Target
    <3>9. CASE ReadAccount(t)
      BY <3>3, <3>5, <3>6, <3>9 DEF ReadAccount
    <3> QED
      BY <3>1, <3>4, <3>7, <3>8, <3>9
  <2> QED
    BY <2>3, <2>4, <2>5
<1> QED
  BY <1>1, <1>2

\* No two are counted in at once.
OneSeated == \A s, t \in Threads : Seated(th[s]) /\ Seated(th[t]) => s = t

LEMMA OneSeatedAct ==
  ASSUME TypeInv, OneSeated, NEW t \in Threads, Act(t), Capped'
  PROVE  OneSeated'
<1>1. ASSUME NEW s \in Threads \ {t}, Seated(th'[s])
      PROVE  Seated(th[s]) /\ ~Seated(th'[t])
  <2>1. Seated(th[s])
    BY <1>1, OthersKept DEF Seated
  <2>2. ~Seated(th[t])
    BY <1>1, <2>1 DEF OneSeated
  <2>3. ASSUME Count(t), th'[t] # Idle PROVE FALSE
    <3>1. s \in Others(t) /\ th[s].counted /\ th[s].req.op # "create"
      BY <2>1 DEF Seated, Others, Busy, Filling, Joining
    <3>2. ~Finish(t)
      BY <2>3, SetTo DEF Finish
    <3>3. "rush" \in lost'
      BY <2>3, <3>1, <3>2 DEF Count
    <3> QED
      BY <3>3, CappedBefore
  <2> QED
    BY <2>1, <2>2, <2>3, SeatedBy DEF Seated
<1> QED
  BY <1>1 DEF OneSeated

LEMMA Sizes ==
  ASSUME NEW S \in SUBSET Students, NEW T \in SUBSET Students
  PROVE  /\ IsFiniteSet(S) /\ Cardinality(S) \in Nat
         /\ S \subseteq T => Cardinality(S) <= Cardinality(T)
         /\ Cardinality(S \cup T) <= Cardinality(S) + Cardinality(T \ S)
<1>1. IsFiniteSet(S) /\ IsFiniteSet(T) /\ IsFiniteSet(T \ S)
  BY FiniteAssumption, FS_Subset
<1>2. Cardinality(S) \in Nat /\ Cardinality(T \ S) \in Nat
  BY <1>1, FS_CardinalityType
<1>3. S \subseteq T => Cardinality(S) <= Cardinality(T)
  BY <1>1, FS_Subset
<1>4. Cardinality(S \cup (T \ S)) = Cardinality(S) + Cardinality(T \ S)
                                     - Cardinality(S \cap (T \ S))
  BY <1>1, FS_Union
<1>5. S \cup (T \ S) = S \cup T /\ S \cap (T \ S) = {}
  OBVIOUS
<1>6. Cardinality(S \cap (T \ S)) = 0
  BY <1>5, FS_EmptySet
<1> QED
  BY <1>1, <1>2, <1>3, <1>4, <1>5, <1>6

LEMMA EnrolledTyped ==
  ASSUME TypeInv
  PROVE  /\ Enrolled \in SUBSET Students
         /\ \A t \in Threads : Act(t) => Enrolled' \in SUBSET Students
<1>1. Enrolled \in SUBSET Students
  BY DEF Enrolled, TypeInv, TypeOK, AccountsOK
<1>2. ASSUME NEW t \in Threads, Act(t), NEW s \in Enrolled' PROVE s \in Students
  <2>1. CASE s \in Enrolled
    BY <1>1, <2>1
  <2>2. CASE s \notin Enrolled
    BY <1>2, <2>2, EnrolledBy, PeopleAt, HereStudent DEF AtStudent
  <2> QED
    BY <2>1, <2>2
<1> QED
  BY <1>1, <1>2

\* Whoever is enrolled has a seat.
LEMMA EnrolledSeated ==
  ASSUME TypeInv, CountedIn, NEW t \in Threads, Act(t), Capped',
         NEW s \in Enrolled', s \notin Enrolled
  PROVE  Seated(th[t]) /\ s \in Batch(th[t])
<1>1. Enrol(t) /\ s = th[t].who
  BY EnrolledBy
<1>2. /\ th[t] # Idle /\ th[t].pc = "enrol" /\ s \in Students
      /\ th[t].req.op \in {"add", "redeem", "launch"} \cup Joining
  BY <1>1, PeopleAt, Here, HereStudent DEF Fits, Routed, AtStudent
<1>3. th[t].req.op \notin {"redeem", "launch"}
  BY <1>1, CappedBefore DEF Enrol
<1>4. th[t].req.op \in Filling /\ th[t].pc \in PastCount
  BY <1>2, <1>3 DEF Filling, PastCount
<1>5. Seated(th[t])
  BY <1>2, <1>4 DEF CountedIn, Seated
<1> QED
  BY <1>1, <1>2, <1>5 DEF Batch

\* Nobody whom a request has counted as enrolled is taken off before it ends
\* its count.
LEMMA CountedStay ==
  ASSUME TypeInv, NEW t \in Threads, Act(t), Capped', NEW s \in Enrolled, s \notin Enrolled',
         NEW o \in Others(t), At(o, "count")
  PROVE  s \notin Batch(th[o])
<1>1. PICK c \in Courses : s \in roster[c]
  BY DEF Enrolled
<1>2. roster \in [Courses -> SUBSET Students] /\ s \in Students /\ s \notin roster'[c]
  BY <1>1 DEF Enrolled, TypeInv, TypeOK, AccountsOK
<1>3. "overtaken" \notin lost'
  BY CappedBefore
<1>4. ~DeleteCourse(t)
  BY <1>3 DEF DeleteCourse
<1>5. ~Enrol(t)
  BY <1>1, <1>2 DEF Enrol, PutEnrollment
<1>6. ~About(o, s) => s \notin Batch(th[o])
  BY DEF About, Batch, Others
<1>7. CASE Unenrol(t)
  <2>1. roster' # roster
    BY <1>1, <1>2
  <2>2. /\ roster' = [roster EXCEPT ![th[t].to] = @ \ {th[t].who}]
        /\ (\E x \in Others(t) : About(x, th[t].who)) => "overtaken" \in lost'
    BY <1>7, <2>1 DEF Unenrol, DeleteEnrollment
  <2>3. s = th[t].who
    BY <1>1, <1>2, <2>2
  <2> QED
    BY <1>3, <1>6, <2>2, <2>3
<1>8. CASE Wipe(t)
  <2>1. roster' = [x \in Courses |-> roster[x] \ {th[t].who}]
    BY <1>8 DEF Wipe, DropStudent
  <2>2. s = th[t].who
    BY <1>1, <1>2, <2>1
  <2>3. (\E x \in Others(t) : About(x, th[t].who)) => "overtaken" \in lost'
    BY <1>8 DEF Wipe
  <2> QED
    BY <1>3, <1>6, <2>2, <2>3
<1> QED
  BY <1>1, <1>2, <1>4, <1>5, <1>7, <1>8, Writers

\* What a request counted as new covers what it is still to enrol.
NewCovers ==
  \A t \in Threads :
    th[t] # Idle /\ th[t].pc = "count" =>
      Cardinality(Batch(th[t]) \ Enrolled) <= th[t].new

\* There is room for the request that has been counted in.
SeatsKept ==
  /\ Cardinality(Enrolled) <= MaxStudents
  /\ \A t \in Threads :
       Seated(th[t]) => Cardinality(Enrolled \cup Batch(th[t])) <= MaxStudents

SeatsInv == SelfServe /\ Capped => CountedIn /\ OneSeated /\ NewCovers /\ SeatsKept

LEMMA BatchTyped ==
  ASSUME NEW job \in Job \cup {Idle}, job # Idle
  PROVE  Batch(job) \in SUBSET Students
BY DEF Batch, Job

LEMMA NewCoversAct ==
  ASSUME TypeInv, NewCovers, NEW t \in Threads, Act(t), Capped'
  PROVE  NewCovers'
<1> SUFFICES ASSUME NEW s \in Threads, th'[s] # Idle, th'[s].pc = "count"
             PROVE  Cardinality(Batch(th'[s]) \ Enrolled') <= th'[s].new
  BY DEF NewCovers
<1>1. th'[s] \in Job /\ th \in [Threads -> Job \cup {Idle}]
  BY ActMoves, MovesTurn DEF Turn, TypeInv, TypeOK
<1>2. Enrolled \in SUBSET Students /\ Enrolled' \in SUBSET Students
      /\ Batch(th'[s]) \in SUBSET Students
  BY <1>1, EnrolledTyped, BatchTyped
<1>3. CASE s # t
  <2>1. /\ th[s] # Idle /\ th[s].pc = "count" /\ th'[s].new = th[s].new
        /\ Batch(th'[s]) = Batch(th[s]) /\ th[s] \in Job
    BY <1>3, OthersKept DEF Batch
  <2>2. s \in Others(t) /\ At(s, "count")
    BY <1>3, <2>1 DEF Others, Busy, At
  <2>3. Batch(th'[s]) \ Enrolled' \subseteq Batch(th[s]) \ Enrolled
    BY <2>1, <2>2, CountedStay
  <2>4. Cardinality(Batch(th[s]) \ Enrolled) <= th[s].new
    BY <2>1 DEF NewCovers
  <2> DEFINE S == Batch(th'[s]) \ Enrolled'
             T == Batch(th[s]) \ Enrolled
  <2>5. S \in SUBSET Students /\ T \in SUBSET Students
    BY <1>2, <2>1
  <2>6. /\ Cardinality(S) <= Cardinality(T) /\ Cardinality(S) \in Nat /\ Cardinality(T) \in Nat
        /\ th[s].new \in Nat
    BY <2>1, <2>3, <2>5, Sizes, JobFields
  <2> HIDE DEF S, T
  <2> QED
    BY <2>1, <2>4, <2>6 DEF S, T
<1>4. CASE s = t
  <2>1. th'[t].req.op \in Filling
    BY <1>4, ActMoves, MovesTurn DEF Turn, Sound, Framed, Fits, Routed, Filling
  <2>2. AccountStep(t)
    BY <1>4, <2>1, FillsBy
  <2>3. CountNew(t)
    BY <1>4, <2>2, PeopleLead DEF AccountStep, To
  <2> DEFINE batch == th[t].todo \cup ({th[t].who} \cap Students)
             n == Fresh(batch)
  <2>4. th'[t] = [th[t] EXCEPT !.new = n, !.pc = "count"] /\ roster' = roster /\ th[t] \in Job
    BY <2>1, <1>4, <2>3, SetTo, FillsBy DEF CountNew, tables
  <2>5. batch = Batch(th[t]) /\ n = Cardinality(batch \ Enrolled)
    BY DEF Batch, Fresh
  <2> HIDE DEF n, batch
  <2>6. th'[t].new = n /\ Enrolled' = Enrolled
    BY <2>4 DEF Job, Enrolled
  <2>7. Batch(th'[t]) \ Enrolled' \subseteq batch \ Enrolled
    BY <1>4, <2>1, <2>5, <2>6, BatchShrinks
  <2>8. batch \ Enrolled \in SUBSET Students
    BY <2>4, <2>5, BatchTyped, JobFields
  <2>9. Cardinality(Batch(th'[t]) \ Enrolled') <= Cardinality(batch \ Enrolled)
    BY <1>2, <1>4, <2>7, <2>8, Sizes
  <2> QED
    BY <1>4, <2>5, <2>6, <2>9
<1> QED
  BY <1>3, <1>4

LEMMA SeatsKeptAct ==
  ASSUME TypeInv, SelfServe, CountedIn, OneSeated, NewCovers, SeatsKept,
         NEW t \in Threads, Act(t), Capped'
  PROVE  SeatsKept'
<1>1. Enrolled \in SUBSET Students /\ Enrolled' \in SUBSET Students /\ MaxStudents \in Nat
  BY EnrolledTyped, CapAssumption
<1>2. ASSUME NEW S \in SUBSET Students, NEW T \in SUBSET Students, S \subseteq T,
             Cardinality(T) <= MaxStudents
      PROVE  Cardinality(S) <= MaxStudents
  <2>1. Cardinality(S) <= Cardinality(T) /\ Cardinality(S) \in Nat /\ Cardinality(T) \in Nat
    BY <1>2, Sizes
  <2> QED
    BY <1>1, <1>2, <2>1
<1>3. th \in [Threads -> Job \cup {Idle}] /\ th' \in [Threads -> Job \cup {Idle}]
  BY ActMoves, MovesTurn DEF Turn, TypeInv, TypeOK
<1>4. Cardinality(Enrolled') <= MaxStudents
  <2>1. CASE Enrolled' \subseteq Enrolled
    BY <1>1, <1>2, <2>1 DEF SeatsKept
  <2>2. CASE ~(Enrolled' \subseteq Enrolled)
    <3>1. Seated(th[t]) /\ Enrolled' \subseteq Enrolled \cup Batch(th[t])
      BY <2>2, EnrolledSeated
    <3>2. Batch(th[t]) \in SUBSET Students
      BY <1>3, <3>1, BatchTyped DEF Seated
    <3>3. Enrolled \cup Batch(th[t]) \in SUBSET Students
      BY <1>1, <3>2
    <3> QED
      BY <1>1, <1>2, <3>1, <3>3 DEF SeatsKept
  <2> QED
    BY <2>1, <2>2
<1>5. ASSUME NEW s \in Threads, Seated(th'[s])
      PROVE  Cardinality(Enrolled' \cup Batch(th'[s])) <= MaxStudents
  <2>1. Batch(th'[s]) \in SUBSET Students /\ Enrolled' \cup Batch(th'[s]) \in SUBSET Students
    BY <1>1, <1>3, <1>5, BatchTyped DEF Seated
  <2>2. CASE s # t
    <3>1. Seated(th[s]) /\ Batch(th'[s]) = Batch(th[s])
      BY <1>5, <2>2, OthersKept DEF Seated, Batch
    <3>2. Enrolled' \subseteq Enrolled
      BY <2>2, <3>1, EnrolledSeated DEF OneSeated
    <3> QED
      BY <1>1, <1>2, <2>1, <3>1, <3>2 DEF SeatsKept
  <2>3. CASE s = t /\ Seated(th[t])
    <3>1. Batch(th'[t]) \subseteq Batch(th[t]) /\ Batch(th[t]) \in SUBSET Students
      BY <1>3, <1>5, <2>3, BatchShrinks, BatchTyped DEF Seated
    <3>2. Enrolled' \cup Batch(th'[t]) \subseteq Enrolled \cup Batch(th[t])
      BY <3>1, EnrolledSeated
    <3>3. Enrolled \cup Batch(th[t]) \in SUBSET Students
      BY <1>1, <3>1
    <3> QED
      BY <1>2, <2>1, <2>3, <3>2, <3>3 DEF SeatsKept
  <2>4. CASE s = t /\ Count(t)
    <3>1. ~Full(th[t]) /\ roster' = roster
      BY <1>5, <2>4, SetTo DEF Count, Finish, Seated, tables
    <3>2. th[t] # Idle /\ th[t] \in Job /\ th[t].pc = "count" /\ th[t].new \in Nat
      BY <2>4, PeopleAt, Here, JobFields
    <3>3. Batch(th'[t]) \subseteq Batch(th[t]) /\ Batch(th[t]) \in SUBSET Students
      BY <1>3, <1>5, <2>4, <3>2, BatchShrinks, BatchTyped DEF Seated
    <3>4. Enrolled' = Enrolled
      BY <3>1 DEF Enrolled
    <3> DEFINE a == Cardinality(Enrolled)
               b == Cardinality(Batch(th[t]) \ Enrolled)
               m == Cardinality(Enrolled \cup Batch(th[t]))
    <3>5. b <= th[t].new /\ ~(a + th[t].new > MaxStudents)
      BY <3>1, <3>2 DEF NewCovers, Full
    <3>6. m <= a + b /\ a \in Nat
      BY <1>1, <3>3, Sizes
    <3>7. b \in Nat
      <4>1. Batch(th[t]) \ Enrolled \in SUBSET Students
        BY <3>3
      <4> QED
        BY <4>1, Sizes
    <3>8. Enrolled \cup Batch(th[t]) \in SUBSET Students
      BY <1>1, <3>3
    <3>9. m \in Nat
      BY <3>8, Sizes
    <3> HIDE DEF a, b, m
    <3>10. m <= MaxStudents
      BY <1>1, <3>2, <3>5, <3>6, <3>7, <3>9
    <3>11. Enrolled' \cup Batch(th'[t]) \subseteq Enrolled \cup Batch(th[t])
      BY <3>3, <3>4
    <3> QED
      BY <1>2, <2>1, <2>4, <3>8, <3>10, <3>11 DEF m
  <2> QED
    BY <1>5, <2>2, <2>3, <2>4, SeatedBy
<1> QED
  BY <1>4, <1>5 DEF SeatsKept

-----------------------------------------------------------------------------
(* The cap on exams.                                                        *)

Creating(job) == job # Idle /\ job.req.op = "create"

\* In a free workspace an exam is created after the count.
CreatesCounted ==
  \A t \in Threads : Creating(th[t]) /\ th[t].pc = "putexam" => th[t].counted

OneCreates ==
  \A s, t \in Threads :
    Creating(th[s]) /\ th[s].counted /\ Creating(th[t]) /\ th[t].counted => s = t

\* A fresh copy is of a row that is there.
CopiesOfRows ==
  \A t \in Threads :
    th[t] # Idle /\ th[t].pc \in {"named", "putexam"} /\ th[t].fresh
      /\ th[t].req.op \in {"patch", "release"} => exam[th[t].req.exam] # None

\* There is room for the exam that has been counted in.
ExamsKept ==
  /\ Cardinality(Listed) <= MaxExams
  /\ \A t \in Threads :
       Creating(th[t]) /\ th[t].counted =>
         Cardinality(Listed \cup {th[t].req.exam}) <= MaxExams

ExamsInv ==
  /\ CopiesOfRows
  /\ SelfServe /\ Capped => CreatesCounted /\ OneCreates /\ ExamsKept

\* How an exam is created.
LEMMA CreateBy ==
  ASSUME TypeInv, NEW t \in Threads, Act(t), Creating(th'[t])
  PROVE  /\ Follows(th[t], th'[t]) /\ Creating(th[t]) /\ th[t] \in Job /\ Framed(th[t])
         /\ th \in [Threads -> Job \cup {Idle}]
         /\ th[t].req.exam \in Exams /\ th'[t].req = th[t].req
         /\ th[t].pc = "exams" => CountExams(t)
         /\ th[t].counted = th'[t].counted \/ CountExams(t)
<1>1. /\ Follows(th[t], th'[t]) /\ Creating(th[t]) /\ th[t] \in Job
      /\ th \in [Threads -> Job \cup {Idle}] /\ th'[t].req = th[t].req
      /\ Framed(th[t]) /\ Asked(th[t].req)
  BY ActMoves, MovesTurn DEF Turn, Follows, Creating, TypeInv, TypeOK, FramesOK, Sound
<1>2. th[t].req.exam \in Exams
  BY <1>1 DEF Asked, OfExam, Creating
<1>3. ASSUME th[t].pc = "exams" PROVE CountExams(t)
  <2>1. ~AccountStep(t)
    BY <1>3, PeopleAt DEF AccountStep, At
  <2>2. DeskStep(t) => CountExams(t)
    BY <1>1, <1>3 DEF DeskStep, CreateExam, NamedCourse, ReadExam, PutExam, DeleteExam,
       ReadCourse, PutCourse, CourseExams, DeleteCourse, Since, Parked, ReadPark, WritePark,
       At, Creating
  <2>3. ~FormationStep(t)
    BY <1>3 DEF FormationStep, Mine, ReadOpen, OpenPathway, Reach, StepOn, At
  <2>4. ~TileStep(t)
    BY <1>3 DEF TileStep, Purge, ReadWall, OpenWall, ReadToken, Beat, OwnedWall, CloseWall, At
  <2>5. ~Fail(t)
    BY SetTo DEF Fail, Finish, Creating
  <2> QED
    BY <2>1, <2>2, <2>3, <2>4, <2>5 DEF Act
<1>4. th[t].pc # "count"
  BY <1>1 DEF Framed, Fits, Routed, Creating, Joining
<1>5. th[t].counted = th'[t].counted \/ CountExams(t)
  BY <1>1, <1>3, <1>4 DEF Follows
<1> QED
  BY <1>1, <1>2, <1>3, <1>5

LEMMA CreatesCountedAct ==
  ASSUME TypeInv, SelfServe, CreatesCounted, NEW t \in Threads, Act(t), Capped'
  PROVE  CreatesCounted'
<1> SUFFICES ASSUME NEW s \in Threads, Creating(th'[s]), th'[s].pc = "putexam"
             PROVE  th'[s].counted
  BY DEF CreatesCounted
<1>1. CASE s # t
  BY <1>1, OthersKept DEF CreatesCounted, Creating
<1>2. CASE s = t
  <2>1. /\ Creating(th[t]) /\ th[t] \in Job /\ Framed(th[t]) /\ th'[t] # Idle
        /\ th \in [Threads -> Job \cup {Idle}]
    BY <1>2, CreateBy DEF Creating
  <2>2. CreateExam(t) \/ ReadExam(t) \/ NamedCourse(t) \/ CountExams(t) \/ ReadCourse(t)
    BY <1>2, <2>1, Arrivals
  <2>3. ~ReadExam(t) /\ ~ReadCourse(t)
    BY <2>1 DEF ReadExam, ReadCourse, At, Framed, Fits, Routed, Creating
  <2>4. CASE CreateExam(t)
    <3> DEFINE row == Edited(th[t], Blank)
               pc == BeforePut(th[t].req)
    <3>1. th'[t] = [th[t] EXCEPT !.doc = row, !.fresh = TRUE, !.pc = pc]
      BY <2>4, SetTo DEF CreateExam
    <3>2. pc # "putexam"
      BY <2>1 DEF BeforePut, Creating
    <3> HIDE DEF row, pc
    <3>3. th'[t].pc = pc
      BY <2>1, <3>1 DEF Job
    <3> QED
      BY <1>2, <3>2, <3>3
  <2>5. CASE NamedCourse(t)
    <3>1. Go(t, "exams")
      BY <1>2, <2>1, <2>5, SetTo DEF NamedCourse, Finish, Creating
    <3>2. th'[t].pc = "exams"
      BY <2>1, <3>1 DEF Go, Set, Job
    <3> QED
      BY <1>2, <3>2
  <2>6. CASE CountExams(t)
    <3>1. th'[t] = [th[t] EXCEPT !.pc = "putexam", !.counted = TRUE]
      BY <2>1, <2>6, SetTo, CappedBefore DEF CountExams, Finish
    <3> QED
      BY <1>2, <2>1, <3>1 DEF Job
  <2> QED
    BY <2>2, <2>3, <2>4, <2>5, <2>6
<1> QED
  BY <1>1, <1>2

LEMMA OneCreatesAct ==
  ASSUME TypeInv, OneCreates, NEW t \in Threads, Act(t), Capped'
  PROVE  OneCreates'
<1>1. ASSUME NEW s \in Threads \ {t}, Creating(th'[s]), th'[s].counted
      PROVE  Creating(th[s]) /\ th[s].counted /\ ~(Creating(th'[t]) /\ th'[t].counted)
  <2>1. Creating(th[s]) /\ th[s].counted
    BY <1>1, OthersKept DEF Creating
  <2>2. ~(Creating(th[t]) /\ th[t].counted)
    BY <1>1, <2>1 DEF OneCreates
  <2>3. ASSUME CountExams(t) PROVE FALSE
    <3>1. s \in Others(t)
      BY <1>1, <2>1 DEF Creating, Others, Busy
    <3>2. "rush" \in lost' \/ "fault" \in lost'
      BY <2>1, <2>3, <3>1 DEF CountExams, Creating
    <3> QED
      BY <3>2, CappedBefore
  <2> QED
    BY <2>1, <2>2, <2>3, CreateBy
<1> QED
  BY <1>1 DEF OneCreates

\* Rows of exams are put and deleted.
LEMMA ExamsMove ==
  ASSUME TypeInv, NEW t \in Threads, Act(t), NEW e \in Exams
  PROVE  \/ exam'[e] = exam[e]
         \/ PutExam(t) /\ e = th[t].req.exam /\ exam'[e] # None
         \/ DeleteExam(t) /\ e = th[t].req.exam /\ exam'[e] = None
<1>1. exam \in [Exams -> Exam \cup {None}]
  BY DEF TypeInv, TypeOK, DeskOK
<1>2. CASE PutExam(t)
  <2>1. exam' = [exam EXCEPT ![th[t].req.exam] = th[t].doc]
    BY <1>2 DEF PutExam, PutRow
  <2>2. th[t].doc # None
    <3>1. At(t, "putexam")
      BY <1>2 DEF PutExam
    <3>2. th[t].doc \in Exam
      BY <3>1, Here DEF Fits
    <3> QED
      BY <3>2, NoRowAssumption
  <2> QED
    BY <1>1, <1>2, <2>1, <2>2
<1>3. CASE DeleteExam(t)
  <2>1. exam' = [exam EXCEPT ![th[t].req.exam] = None]
    BY <1>3 DEF DeleteExam, DropExam
  <2> QED
    BY <1>1, <1>3, <2>1
<1> QED
  BY <1>2, <1>3, Writers

LEMMA CopiesOfRowsAct ==
  ASSUME TypeInv, CopiesOfRows, NEW t \in Threads, Act(t)
  PROVE  CopiesOfRows'
<1> SUFFICES ASSUME NEW s \in Threads, th'[s] # Idle, th'[s].pc \in {"named", "putexam"},
                    th'[s].fresh, th'[s].req.op \in {"patch", "release"}
             PROVE  exam'[th'[s].req.exam] # None
  BY DEF CopiesOfRows
<1>1. CASE s # t
  <2>1. th'[s] = th[s] /\ th[s] \in Job /\ Sound(th[s])
    BY <1>1, OthersKept
  <2>2. exam[th[s].req.exam] # None /\ th[s].req.exam \in Exams
    BY <2>1 DEF CopiesOfRows, Sound, Asked, OfExam
  <2>3. ASSUME DeleteExam(t), th[t].req.exam = th[s].req.exam PROVE FALSE
    <3>1. s \in Holding(t, th[t].req.exam)
      BY <1>1, <2>1, <2>3 DEF Holding, Others, Busy
    <3>2. th'[s] = [th[s] EXCEPT !.fresh = FALSE]
      BY <1>1, <2>3, <3>1 DEF DeleteExam, SetOver
    <3>3. th'[s].fresh = FALSE
      BY <2>1, <3>2 DEF Job
    <3> QED
      BY <3>3
  <2> QED
    BY <2>1, <2>2, <2>3, ExamsMove
<1>2. CASE s = t
  <2>1. /\ th[t] # Idle /\ th[t] \in Job /\ Framed(th[t]) /\ th'[t].req = th[t].req
        /\ th \in [Threads -> Job \cup {Idle}] /\ th[t].req.exam \in Exams
    BY <1>2, ActMoves, MovesTurn
       DEF Turn, Follows, TypeInv, TypeOK, FramesOK, Sound, Asked, OfExam
  <2>2. CreateExam(t) \/ ReadExam(t) \/ NamedCourse(t) \/ CountExams(t) \/ ReadCourse(t)
    BY <1>2, Arrivals
  <2>3. ~CreateExam(t) /\ ~CountExams(t) /\ ~ReadCourse(t)
    BY <1>2, <2>1 DEF CreateExam, CountExams, ReadCourse, At, Framed, Fits, Routed
  <2>4. CASE ReadExam(t)
    <3>1. exam[th[t].req.exam] # None /\ exam' = exam
      BY <1>2, <2>4, SetTo DEF ReadExam, Finish, tables, desk
    <3> QED
      BY <1>2, <2>1, <3>1
  <2>5. CASE NamedCourse(t)
    <3>1. th[t].pc = "named" /\ exam' = exam
      BY <2>5 DEF NamedCourse, At, tables, desk
    <3>2. \E pc : Go(t, pc)
      BY <1>2, <2>5, SetTo DEF NamedCourse, Finish
    <3>3. th'[t].fresh = th[t].fresh
      BY <2>1, <3>2 DEF Go, Set, Job
    <3> QED
      BY <1>2, <2>1, <3>1, <3>3 DEF CopiesOfRows
  <2> QED
    BY <2>2, <2>3, <2>4, <2>5
<1> QED
  BY <1>1, <1>2

\* An exam is added by a request that was counted in.
LEMMA ExamCounted ==
  ASSUME TypeInv, CreatesCounted, CopiesOfRows, NEW t \in Threads, Act(t), Capped',
         NEW e \in Listed', e \notin Listed
  PROVE  Creating(th[t]) /\ th[t].counted /\ e = th[t].req.exam /\ th'[t] = Idle
<1>1. e \in Exams /\ exam'[e] # None /\ exam[e] = None
  BY DEF Listed
<1>2. PutExam(t) /\ e = th[t].req.exam
  BY <1>1, ExamsMove
<1>3. /\ th[t] # Idle /\ th[t].pc = "putexam"
      /\ th[t].req.op \in {"create", "patch", "release"}
  BY <1>2, Here DEF PutExam, Fits, Routed
<1>4. th[t].fresh
  BY <1>2, CappedBefore DEF PutExam
<1>5. th[t].req.op = "create"
  BY <1>1, <1>2, <1>3, <1>4 DEF CopiesOfRows
<1>6. th'[t] = Idle
  BY <1>2 DEF PutExam, SetOver
<1> QED
  BY <1>2, <1>3, <1>5, <1>6 DEF CreatesCounted, Creating

LEMMA ListedTyped ==
  ASSUME TRUE
  PROVE  Listed \in SUBSET Exams /\ Listed' \in SUBSET Exams
BY DEF Listed

LEMMA ExamSizes ==
  ASSUME NEW S \in SUBSET Exams, NEW T \in SUBSET Exams, S \subseteq T,
         Cardinality(T) <= MaxExams
  PROVE  Cardinality(S) <= MaxExams
<1>1. IsFiniteSet(S) /\ IsFiniteSet(T) /\ Cardinality(S) <= Cardinality(T)
  BY FiniteAssumption, FS_Subset
<1>2. Cardinality(S) \in Nat /\ Cardinality(T) \in Nat /\ MaxExams \in Nat
  BY <1>1, FS_CardinalityType, CapAssumption
<1> QED
  BY <1>1, <1>2

LEMMA ExamsKeptAct ==
  ASSUME TypeInv, CopiesOfRows, SelfServe, CreatesCounted, OneCreates, ExamsKept,
         NEW t \in Threads, Act(t), Capped'
  PROVE  ExamsKept'
<1>1. Cardinality(Listed') <= MaxExams
  <2>1. CASE Listed' \subseteq Listed
    BY <2>1, ListedTyped, ExamSizes DEF ExamsKept
  <2>2. CASE ~(Listed' \subseteq Listed)
    <3>1. /\ Creating(th[t]) /\ th[t].counted
          /\ Listed' \subseteq Listed \cup {th[t].req.exam}
      BY <2>2, ExamCounted
    <3>2. Listed \cup {th[t].req.exam} \in SUBSET Exams
      BY <2>2, ExamCounted, ListedTyped
    <3> QED
      BY <3>1, <3>2, ListedTyped, ExamSizes DEF ExamsKept
  <2> QED
    BY <2>1, <2>2
<1>2. ASSUME NEW s \in Threads, Creating(th'[s]), th'[s].counted
      PROVE  Cardinality(Listed' \cup {th'[s].req.exam}) <= MaxExams
  <2>1. th'[s].req.exam \in Exams
    <3>1. Sound(th'[s])
      <4>1. CASE s = t
        BY <4>1, ActMoves, MovesTurn DEF Turn
      <4>2. CASE s # t
        <5>1. Sound(th[s]) /\ Kept(th[s], th'[s]) /\ th'[s] \in Job \cup {Idle}
          BY <4>2, ActMoves, MovesTurn DEF Turn, TypeInv, FramesOK
        <5> QED
          BY <5>1, KeptSound
      <4> QED
        BY <4>1, <4>2
    <3> QED
      BY <1>2, <3>1 DEF Creating, Sound, Asked, OfExam
  <2> DEFINE e == th'[s].req.exam
  <2>2. Listed' \cup {e} \in SUBSET Exams /\ Listed \cup {e} \in SUBSET Exams
    BY <2>1, ListedTyped
  <2>3. CASE s # t
    <3>1. Creating(th[s]) /\ th[s].counted /\ th[s].req.exam = e
      BY <1>2, <2>3, OthersKept DEF Creating
    <3>2. Listed' \subseteq Listed
      BY <2>3, <3>1, ExamCounted DEF OneCreates
    <3>3. Cardinality(Listed \cup {e}) <= MaxExams
      BY <3>1 DEF ExamsKept
    <3> HIDE DEF e
    <3> QED
      BY <2>2, <3>2, <3>3, ExamSizes DEF e
  <2>4. CASE s = t
    <3>1. Creating(th[t]) /\ th[t].req.exam = e /\ (th[t].counted \/ CountExams(t))
      BY <1>2, <2>4, CreateBy
    <3>2. Listed' \subseteq Listed
      BY <1>2, <2>4, ExamCounted DEF Creating
    <3>3. CASE th[t].counted
      <4>1. Cardinality(Listed \cup {e}) <= MaxExams
        BY <3>1, <3>3 DEF ExamsKept
      <4> HIDE DEF e
      <4> QED
        BY <2>2, <3>2, <4>1, ExamSizes DEF e
    <3>4. CASE CountExams(t)
      <4>1. ~AtCap(Cardinality(Listed))
        <5>1. ~Finish(t)
          BY <1>2, <2>4, SetTo DEF Finish, Creating
        <5> QED
          BY <3>4, <5>1, CappedBefore DEF CountExams
      <4>2. IsFiniteSet(Listed) /\ Cardinality(Listed) \in Nat /\ MaxExams \in Nat
        BY ListedTyped, FiniteAssumption, FS_Subset, FS_CardinalityType, CapAssumption
      <4>3. Cardinality(Listed \cup {e}) <= Cardinality(Listed) + 1
        <5> HIDE DEF e
        <5>1. Cardinality(Listed \cup {e}) = IF e \in Listed THEN Cardinality(Listed)
                                             ELSE Cardinality(Listed) + 1
          BY <4>2, FS_AddElement
        <5> QED
          BY <4>2, <5>1
      <4>4. Cardinality(Listed \cup {e}) \in Nat
        BY <4>2, FS_AddElement, FS_CardinalityType
      <4>5. Cardinality(Listed \cup {e}) <= MaxExams
        <5> HIDE DEF e
        <5> QED
          BY <4>1, <4>2, <4>3, <4>4 DEF AtCap
      <4> HIDE DEF e
      <4> QED
        BY <2>2, <3>2, <4>5, ExamSizes DEF e
    <3> QED
      BY <3>1, <3>3, <3>4
  <2> QED
    BY <2>3, <2>4
<1> QED
  BY <1>1, <1>2 DEF ExamsKept

LEMMA CapsNext ==
  ASSUME TypeInv, SeatsInv, ExamsInv, [Next]_vars
  PROVE  SeatsInv' /\ ExamsInv'
<1>1. ASSUME NEW t \in Threads, Act(t) PROVE SeatsInv' /\ ExamsInv'
  <2>1. CopiesOfRows'
    BY <1>1, CopiesOfRowsAct DEF ExamsInv
  <2>2. ASSUME SelfServe, Capped'
        PROVE  /\ CountedIn' /\ OneSeated' /\ NewCovers' /\ SeatsKept'
               /\ CreatesCounted' /\ OneCreates' /\ ExamsKept'
    <3>1. /\ CountedIn /\ OneSeated /\ NewCovers /\ SeatsKept /\ CopiesOfRows
          /\ CreatesCounted /\ OneCreates /\ ExamsKept
      BY <1>1, <2>2, CappedBefore DEF SeatsInv, ExamsInv
    <3>2. CountedIn' /\ OneSeated' /\ NewCovers' /\ SeatsKept'
      BY <1>1, <2>2, <3>1, CountedInAct, OneSeatedAct, NewCoversAct, SeatsKeptAct
    <3>3. CreatesCounted' /\ OneCreates' /\ ExamsKept'
      BY <1>1, <2>2, <3>1, CreatesCountedAct, OneCreatesAct, ExamsKeptAct
    <3> QED
      BY <3>2, <3>3
  <2> QED
    BY <2>1, <2>2 DEF SeatsInv, ExamsInv
<1>2. ASSUME NEW t \in Threads, Begin(t) PROVE SeatsInv' /\ ExamsInv'
  <2>1. /\ UNCHANGED <<roster, exam, lost>>
        /\ th[t] = Idle /\ \A s \in Threads \ {t} : th'[s] = th[s]
        /\ th'[t] # Idle /\ th'[t].pc \in Firsts /\ th'[t].counted = FALSE
    BY <1>2, BeginWrites, BeginSound
  <2>2. th'[t].pc \notin PastCount \cup {"count", "named", "putexam"}
    BY <2>1 DEF Firsts, PastCount
  <2>3. CopiesOfRows'
    BY <2>1, <2>2 DEF ExamsInv, CopiesOfRows
  <2>4. ASSUME SelfServe, Capped'
        PROVE  /\ CountedIn' /\ OneSeated' /\ NewCovers' /\ SeatsKept'
               /\ CreatesCounted' /\ OneCreates' /\ ExamsKept'
    <3>1. /\ CountedIn /\ OneSeated /\ NewCovers /\ SeatsKept
          /\ CreatesCounted /\ OneCreates /\ ExamsKept
      BY <2>1, <2>4 DEF SeatsInv, ExamsInv, Capped, Without
    <3>2. ~Seated(th'[t]) /\ Enrolled' = Enrolled /\ Listed' = Listed
      BY <2>1 DEF Seated, Enrolled, Listed
    <3>3. CountedIn' /\ OneSeated' /\ NewCovers'
      BY <2>1, <2>2, <3>1, <3>2 DEF CountedIn, OneSeated, NewCovers
    <3>4. SeatsKept'
      BY <2>1, <3>1, <3>2 DEF SeatsKept
    <3>5. CreatesCounted' /\ OneCreates'
      BY <2>1, <2>2, <3>1 DEF CreatesCounted, OneCreates
    <3>6. ExamsKept'
      BY <2>1, <3>1, <3>2 DEF ExamsKept
    <3> QED
      BY <3>3, <3>4, <3>5, <3>6
  <2> QED
    BY <2>3, <2>4 DEF SeatsInv, ExamsInv
<1>3. ASSUME UNCHANGED <<roster, exam, th, lost>> PROVE SeatsInv' /\ ExamsInv'
  BY <1>3 DEF SeatsInv, ExamsInv, CopiesOfRows, Capped, Without, CountedIn, OneSeated,
     NewCovers, SeatsKept, CreatesCounted, OneCreates, ExamsKept, Enrolled, Listed
<1> QED
  BY <1>1, <1>2, <1>3, Steps, PassWrites

LEMMA CapsInit == Init => SeatsInv /\ ExamsInv
<1> SUFFICES ASSUME Init PROVE SeatsInv /\ ExamsInv
  OBVIOUS
<1>1. PICK sc \in Scenarios :
        /\ roster = [c \in Courses |-> IF c = sc.first
                       THEN In(sc, {"invited", "active"}) ELSE {}]
        /\ InitDesk(sc)
  BY DEF Init
<1>2. \A t \in Threads : th[t] = Idle
  BY DEF Init
<1>3. ASSUME SelfServe
      PROVE  /\ Cardinality(In(sc, {"invited", "active"})) <= MaxStudents
             /\ Cardinality({e \in Exams : sc.exams[e] # None}) <= MaxExams
             /\ sc.first \in Courses
  BY <1>3, ScenarioAssumption DEF Scenario
<1>4. Listed \subseteq {e \in Exams : sc.exams[e] # None}
  BY <1>1 DEF Listed, InitDesk
<1>5. ASSUME SelfServe PROVE Cardinality(Listed) <= MaxExams
  BY <1>3, <1>4, <1>5, ListedTyped, ExamSizes
<1>6. ASSUME SelfServe PROVE Cardinality(Enrolled) <= MaxStudents
  <2>1. Enrolled = In(sc, {"invited", "active"})
    BY <1>1, <1>3, <1>6 DEF Enrolled
  <2> QED
    BY <1>3, <1>6, <2>1
<1> QED
  BY <1>2, <1>5, <1>6 DEF SeatsInv, ExamsInv, CopiesOfRows, CountedIn, OneSeated, NewCovers,
     SeatsKept, CreatesCounted, OneCreates, ExamsKept, Seated, Creating

\* CapsKept: in a free workspace the students on rosters and the exams stay
\* within the caps of bluebook_rules.py, however additions, sign-ups, removals,
\* erasures and deletions interleave, in every history in which no two requests
\* were let in by one count, no student came by a link that does not count, no
\* removal crossed a count and no deleted exam was put back by a stale edit.
THEOREM CapsAreKept == Spec => []CapsKept
<1>1. SeatsInv /\ ExamsInv => CapsKept
  BY DEF SeatsInv, ExamsInv, CapsKept, Capped, SeatsKept, ExamsKept
<1>2. Init => SeatsInv /\ ExamsInv
  BY CapsInit
<1>3. SeatsInv /\ ExamsInv /\ TypeInv /\ [Next]_vars => SeatsInv' /\ ExamsInv'
  BY CapsNext
<1> QED
  BY <1>1, <1>2, <1>3, TypesStay, PTL DEF Spec
=============================================================================
