---------------------------- MODULE ServerProofs ----------------------------
(***************************************************************************)
(* Theorems about what a server has beside its Tables: the installation it *)
(* starts from (Installation) and the files of Attachments                 *)
(* (AttachmentUpload), for every value of their constants: any number of   *)
(* processes of each kind, of releases, of names and of secrets; any       *)
(* Attachments, contents, and numbers of uploads, downloads, deletions and *)
(* Record mutations.                                                       *)
(***************************************************************************)
EXTENDS Installation, AttachmentUpload, FiniteSetTheorems, SequenceTheorems, TLAPS

(***************************************************************************)
(* The installation: the inductive invariant.                              *)
(***************************************************************************)

\* The migrations that have taken effect are the first ones.
FirstOnes ==
  executed = [i \in 1..Len(executed) |-> i] /\ versions = 1..Len(executed)

\* A process that has come to a file found the ones before it.
FoundBefore ==
  \A p \in Migrators : migrator[p].stage # "stopped" =>
    migrator[p].at >= 1 /\ \A n \in 1..(migrator[p].at - 1) : n \in versions

WithinRelease ==
  \A p \in Migrators : migrator[p].stage \in {"execute", "record", "commit"} =>
    migrator[p].at <= migrator[p].release

\* What is about to be committed is new, and one process at most commits it.
CommitsNew ==
  \A p \in Migrators : migrator[p].stage = "commit" => migrator[p].at \notin versions

CommitsAlone ==
  \A p, r \in Migrators :
    /\ migrator[p].stage = "commit" /\ migrator[r].stage = "commit"
    /\ migrator[p].at = migrator[r].at
    => p = r

SeenThere == \A v \in Servers : server[v].seen \subseteq versions

MigratedInOrder ==
  FirstOnes /\ FoundBefore /\ WithinRelease /\ CommitsNew /\ CommitsAlone /\ SeenThere

\* The Operators who hold a secret that nobody else has.
Drawing == {o \in Operators : operator[o].stage # "ready" /\ operator[o].revoking = 0}

\* What an Operator has found out stays true until its COMMIT.
CommandTrue(o) ==
  LET r == operator[o]
  IN /\ r.stage \in {"bootstrap", "waiting", "inserted", "checked"} => r.revoking = 0
     /\ r.stage \in {"lock", "locked", "checked"} => actors # {}
     /\ r.stage = "inserted" => r.seen = {}
     /\ r.stage = "checked" => Active(r.name) = {}
     /\ r.told # "constraint"

CommandsTrue ==
  /\ \A o \in Drawing : operator[o].name \in Names /\ operator[o].secret \in 1..drawn
  /\ \A o \in Operators : CommandTrue(o)

\* The advisory lock of a bootstrap and the row lock on the Actor.
LocksHeldOnce ==
  \A o, p \in Operators :
    \/ o = p
    \/ /\ ~(operator[o].stage = "inserted" /\ operator[p].stage = "inserted")
       /\ ~(operator[o].stage \in {"locked", "checked"} /\ operator[p].stage \in {"locked", "checked"})

SecretsDistinct ==
  /\ \A o, p \in Drawing : operator[o].secret = operator[p].secret => o = p
  /\ \A o \in Drawing, t \in tokens : t.secret # operator[o].secret
  /\ \A t, u \in tokens : t.secret = u.secret => t = u

TokensOfActor ==
  /\ \A a, b \in actors : a = b
  /\ \A t \in tokens : t.secret \in 1..drawn /\ t.actor \in actors
  /\ \A s \in shown : \E t \in tokens : t.secret = s
  /\ \A t, u \in tokens : t.name = u.name /\ ~t.revoked /\ ~u.revoked => t = u

AuthInv == CommandsTrue /\ LocksHeldOnce /\ SecretsDistinct /\ TokensOfActor

InstallationInv == TypeOK /\ MigratedInOrder /\ AuthInv /\ CursorKeyShared

(***************************************************************************)
(* Migrations.                                                             *)
(***************************************************************************)

\* A step of a process that leaves the versions as they are.
LEMMA ProcessKeepsOrder ==
  ASSUME TypeOK, MigratedInOrder, NEW p \in Migrators, NEW to \in Migrator,
         migrator' = [migrator EXCEPT ![p] = to], UNCHANGED <<executed, versions, server>>,
         to.stage # "stopped" => to.at >= 1 /\ \A n \in 1..(to.at - 1) : n \in versions,
         to.stage \in {"execute", "record", "commit"} => to.at <= to.release,
         to.stage = "commit" =>
           /\ to.at \notin versions
           /\ \A r \in Migrators : migrator[r].stage = "commit" => migrator[r].at # to.at
  PROVE  migrator' \in [Migrators -> Migrator] /\ MigratedInOrder'
<1>1. migrator' \in [Migrators -> Migrator]
  BY DEF TypeOK
<1>2. \A r \in Migrators : migrator'[r] = IF r = p THEN to ELSE migrator[r]
  BY DEF TypeOK
<1>3. FirstOnes'
  BY DEF MigratedInOrder, FirstOnes
<1>4. FoundBefore'
  BY <1>2 DEF MigratedInOrder, FoundBefore
<1>5. WithinRelease'
  BY <1>2 DEF MigratedInOrder, WithinRelease
<1>6. CommitsNew'
  BY <1>2 DEF MigratedInOrder, CommitsNew
<1>7. CommitsAlone'
  BY <1>2 DEF MigratedInOrder, CommitsAlone
<1>8. SeenThere'
  BY DEF MigratedInOrder, SeenThere
<1> QED BY <1>1, <1>3, <1>4, <1>5, <1>6, <1>7, <1>8 DEF MigratedInOrder

LEMMA MigrateKeepsOrder ==
  ASSUME TypeOK, MigratedInOrder, NEW p \in Migrators, Migrate(p), UNCHANGED server
  PROVE  /\ executed' \in Seq(1..Files) /\ versions' \subseteq 1..Files
         /\ migrator' \in [Migrators -> Migrator]
         /\ MigratedInOrder'
<1>1. /\ executed \in Seq(1..Files) /\ versions \subseteq 1..Files
      /\ migrator \in [Migrators -> Migrator] /\ Files \in Nat \ {0}
  BY InstallationAssumption DEF TypeOK
<1>2. PICK q \in Migrator : q = migrator[p]
  BY <1>1
<1>3. /\ q.at \in 0..(Files + 1) /\ q.release \in 0..Files
      /\ q.stage # "stopped" => q.at >= 1 /\ \A n \in 1..(q.at - 1) : n \in versions
      /\ q.stage \in {"execute", "record", "commit"} => q.at <= q.release
  BY <1>2 DEF Migrator, MigratedInOrder, FoundBefore, WithinRelease
<1>4. CASE StartMigrator(p)
  <2>1. PICK release \in 1..Files :
          migrator' = [migrator EXCEPT ![p] = [stage |-> "check", release |-> release, at |-> 1]]
    BY <1>4 DEF StartMigrator
  <2>2. [stage |-> "check", release |-> release, at |-> 1] \in Migrator
    BY <1>1 DEF Migrator
  <2>3. UNCHANGED <<executed, versions>>
    BY <1>4 DEF StartMigrator
  <2>4. PICK to \in Migrator : to = [stage |-> "check", release |-> release, at |-> 1]
    BY <2>2
  <2>5. to.stage = "check" /\ to.at >= 1 /\ \A n \in 1..(to.at - 1) : n \in versions
    BY <2>4
  <2>6. migrator' = [migrator EXCEPT ![p] = to]
    BY <2>1, <2>4
  <2> QED BY <1>1, <2>3, <2>5, <2>6, ProcessKeepsOrder
<1>5. CASE CheckVersion(p)
  <2>1. q.stage = "check" /\ q.at <= q.release /\ UNCHANGED <<executed, versions>>
    BY <1>2, <1>5 DEF CheckVersion
  <2>2. CASE q.at \in versions
    <3>1. PICK to : to = [stage |-> "check", release |-> q.release, at |-> q.at + 1]
      OBVIOUS
    <3>2. migrator' = [migrator EXCEPT ![p] = to]
      BY <1>2, <1>5, <2>2, <3>1 DEF CheckVersion, To
    <3>3. to \in Migrator /\ to.stage = "check" /\ to.at = q.at + 1
      BY <1>1, <1>3, <2>1, <3>1 DEF Migrator
    <3>4. to.at >= 1 /\ \A n \in 1..(to.at - 1) : n \in versions
      BY <1>3, <2>1, <2>2, <3>3
    <3> QED BY <1>1, <2>1, <3>2, <3>3, <3>4, ProcessKeepsOrder
  <2>3. CASE q.at \notin versions
    <3>1. PICK to : to = [stage |-> "execute", release |-> q.release, at |-> q.at]
      OBVIOUS
    <3>2. migrator' = [migrator EXCEPT ![p] = to]
      BY <1>2, <1>5, <2>3, <3>1 DEF CheckVersion, To
    <3>3. to \in Migrator /\ to.stage = "execute" /\ to.at = q.at /\ to.release = q.release
      BY <1>1, <1>3, <2>1, <3>1 DEF Migrator
    <3> QED BY <1>1, <1>3, <2>1, <3>2, <3>3, ProcessKeepsOrder
  <2> QED BY <2>2, <2>3
<1>6. CASE ExecuteFile(p)
  <2>1. q.stage = "execute" /\ UNCHANGED <<executed, versions>>
    BY <1>2, <1>6 DEF ExecuteFile
  <2>2. PICK to : to = [stage |-> "record", release |-> q.release, at |-> q.at]
    OBVIOUS
  <2>3. migrator' = [migrator EXCEPT ![p] = to]
    BY <1>2, <1>6, <2>2 DEF ExecuteFile, To
  <2>4. to \in Migrator /\ to.stage = "record" /\ to.at = q.at /\ to.release = q.release
    BY <2>2 DEF Migrator
  <2> QED BY <1>1, <1>3, <2>1, <2>3, <2>4, ProcessKeepsOrder
<1>7. CASE RecordVersion(p)
  <2>1. /\ q.stage = "record" /\ UNCHANGED <<executed, versions>> /\ q.at \notin versions
        /\ \A r \in Migrators : migrator[r].stage = "commit" => migrator[r].at # q.at
    BY <1>2, <1>7 DEF RecordVersion, VersionIsNew
  <2>2. PICK to : to = [stage |-> "commit", release |-> q.release, at |-> q.at]
    OBVIOUS
  <2>3. migrator' = [migrator EXCEPT ![p] = to]
    BY <1>2, <1>7, <2>2 DEF RecordVersion, To
  <2>4. to \in Migrator /\ to.stage = "commit" /\ to.at = q.at /\ to.release = q.release
    BY <2>2 DEF Migrator
  <2> QED BY <1>1, <1>3, <2>1, <2>3, <2>4, ProcessKeepsOrder
<1>8. CASE CommitMigration(p)
  <2>1. /\ q.stage = "commit" /\ executed' = Append(executed, q.at)
        /\ versions' = versions \cup {q.at}
    BY <1>2, <1>8 DEF CommitMigration
  <2>2. PICK to : to = [stage |-> "check", release |-> q.release, at |-> q.at + 1]
    OBVIOUS
  <2>3. migrator' = [migrator EXCEPT ![p] = to]
    BY <1>2, <1>8, <2>2 DEF CommitMigration, To
  <2>4. q.at \in 1..Files
    BY <1>1, <1>3, <2>1
  <2>5. to \in Migrator /\ to.stage = "check" /\ to.at = q.at + 1 /\ to.release = q.release
    BY <1>1, <2>2, <2>4 DEF Migrator
  <2>6. PICK n \in Nat : n = Len(executed) /\ versions = 1..n
    <3>1. Len(executed) \in Nat
      BY <1>1
    <3> QED BY <3>1 DEF MigratedInOrder, FirstOnes
  <2>7. ASSUME NEW r \in Migrators, migrator[r].stage = "commit"
        PROVE  migrator[r].at = n + 1
    <3>1. PICK x \in 0..(Files + 1) : x = migrator[r].at
      BY <1>1 DEF Migrator
    <3>2. x >= 1 /\ x \notin 1..n /\ \A m \in 1..(x - 1) : m \in 1..n
      BY <2>6, <2>7, <3>1 DEF MigratedInOrder, FoundBefore, CommitsNew
    <3>3. x <= n + 1
      <4>1. SUFFICES ASSUME x > n + 1 PROVE FALSE
        BY <2>6, <3>1
      <4>2. n + 1 \in 1..(x - 1)
        BY <2>6, <3>1, <4>1
      <4> QED BY <2>6, <3>2, <4>2
    <3> QED BY <2>6, <3>1, <3>2, <3>3
  <2>8. q.at = n + 1
    BY <1>2, <2>1, <2>7
  <2>9. \A r \in Migrators : migrator[r].stage = "commit" => r = p
    BY <1>2, <2>1, <2>7, <2>8 DEF MigratedInOrder, CommitsAlone
  <2>10. \A r \in Migrators : migrator'[r] = IF r = p THEN to ELSE migrator[r]
    BY <1>1, <2>3
  <2>11. migrator' \in [Migrators -> Migrator]
    BY <1>1, <2>3, <2>5
  <2>12. versions' = 1..(n + 1) /\ versions' \subseteq 1..Files
    BY <1>1, <2>1, <2>4, <2>6, <2>8
  <2>13. executed' \in Seq(1..Files) /\ Len(executed') = n + 1
    BY <1>1, <2>1, <2>4, <2>6
  <2>14. FirstOnes'
    <3>1. \A i \in 1..(n + 1) : executed'[i] = i
      BY <1>1, <2>1, <2>6, <2>8 DEF MigratedInOrder, FirstOnes
    <3>2. executed' = [i \in 1..(n + 1) |-> i]
      BY <2>13, <3>1
    <3> QED BY <2>12, <2>13, <3>2 DEF FirstOnes
  <2>15. FoundBefore'
    <3>1. \A m \in 1..(to.at - 1) : m \in versions'
      BY <2>5, <2>8, <2>12, <2>6
    <3> QED BY <2>1, <2>4, <2>5, <2>10, <3>1 DEF MigratedInOrder, FoundBefore
  <2>16. WithinRelease'
    BY <2>5, <2>10 DEF MigratedInOrder, WithinRelease
  <2>17. CommitsNew' /\ CommitsAlone'
    BY <2>5, <2>9, <2>10 DEF CommitsNew, CommitsAlone
  <2>18. SeenThere'
    BY <2>1 DEF MigratedInOrder, SeenThere
  <2> QED BY <2>11, <2>12, <2>13, <2>14, <2>15, <2>16, <2>17, <2>18 DEF MigratedInOrder
<1>9. CASE StopMigrator(p)
  <2>1. Stopped \in Migrator /\ Stopped.stage = "stopped"
    BY <1>1 DEF Stopped, Migrator
  <2>2. migrator' = [migrator EXCEPT ![p] = Stopped] /\ UNCHANGED <<executed, versions>>
    BY <1>9 DEF StopMigrator
  <2> QED BY <1>1, <2>1, <2>2, ProcessKeepsOrder
<1> QED BY <1>4, <1>5, <1>6, <1>7, <1>8, <1>9 DEF Migrate

(***************************************************************************)
(* Servers.                                                                *)
(***************************************************************************)

\* A Server's step draws secrets and shares a key, and sees versions that are there.
LEMMA ServeKeepsKey ==
  ASSUME TypeOK, MigratedInOrder, CursorKeyShared, NEW v \in Servers, Serve(v),
         UNCHANGED <<executed, versions, migrator>>
  PROVE  /\ secretKey' \in Secrets /\ server' \in [Servers -> Server]
         /\ drawn' \in Secrets /\ drawn <= drawn'
         /\ MigratedInOrder' /\ CursorKeyShared'
<1>1. /\ secretKey \in Secrets /\ server \in [Servers -> Server]
      /\ drawn \in Secrets /\ MaxSecrets \in Nat
  BY InstallationAssumption DEF TypeOK
<1>2. PICK s \in Server : s = server[v]
  BY <1>1
<1>3. \A w \in Servers : server[w].key \in {0, secretKey} /\ (server[w].generated # 0 => secretKey # 0)
  BY DEF CursorKeyShared
<1>4. ASSUME NEW to \in Server, server' = [server EXCEPT ![v] = to], to.seen \subseteq versions,
             to.key \in {0, secretKey'}, to.generated # 0 => secretKey' # 0,
             secretKey' = secretKey \/ (secretKey = 0 /\ secretKey' # 0)
      PROVE  server' \in [Servers -> Server] /\ MigratedInOrder' /\ CursorKeyShared'
  <2>1. server' \in [Servers -> Server] /\ \A w \in Servers : server'[w] = IF w = v THEN to ELSE server[w]
    BY <1>1, <1>4
  <2>2. SeenThere'
    BY <1>4, <2>1 DEF MigratedInOrder, SeenThere
  <2>3. FirstOnes' /\ FoundBefore' /\ WithinRelease' /\ CommitsNew' /\ CommitsAlone'
    BY DEF MigratedInOrder, FirstOnes, FoundBefore, WithinRelease, CommitsNew, CommitsAlone
  <2>4. CursorKeyShared'
    BY <1>3, <1>4, <2>1 DEF CursorKeyShared
  <2> QED BY <2>1, <2>2, <2>3, <2>4 DEF MigratedInOrder
<1>5. CASE CheckReady(v)
  <2>1. PICK version \in Checked \ server[v].seen :
          LET seen == IF version \in versions THEN server[v].seen \cup {version} ELSE {}
          IN  server' = [server EXCEPT ![v] = [@ EXCEPT !.seen = seen]]
    BY <1>5 DEF CheckReady
  <2>2. PICK to : to = [s EXCEPT !.seen = IF version \in versions THEN s.seen \cup {version} ELSE {}]
    OBVIOUS
  <2>3. to \in Server /\ to.key = s.key /\ to.generated = s.generated
    BY <1>2, <2>2 DEF Server
  <2>4. to.seen \subseteq versions
    BY <1>2, <2>2 DEF Server, MigratedInOrder, SeenThere
  <2>5. server' = [server EXCEPT ![v] = to] /\ UNCHANGED <<secretKey, drawn>>
    BY <1>2, <1>5, <2>1, <2>2 DEF CheckReady
  <2>6. to.key \in {0, secretKey'} /\ (to.generated # 0 => secretKey' # 0)
    BY <1>2, <1>3, <2>3, <2>5
  <2>7. server' \in [Servers -> Server] /\ MigratedInOrder' /\ CursorKeyShared'
    BY <1>4, <2>3, <2>4, <2>5, <2>6
  <2> QED BY <1>1, <2>5, <2>7 DEF Secrets
<1>6. CASE InitializeKey(v)
  <2>1. /\ drawn < MaxSecrets /\ drawn' = drawn + 1
        /\ secretKey' = IF secretKey = 0 THEN drawn + 1 ELSE secretKey
    BY <1>6 DEF InitializeKey
  <2>2. PICK to : to = [s EXCEPT !.generated = drawn + 1]
    OBVIOUS
  <2>3. server' = [server EXCEPT ![v] = to]
    BY <1>2, <1>6, <2>2 DEF InitializeKey
  <2>4. to \in Server /\ to.key = s.key /\ to.seen = s.seen
    BY <1>1, <1>2, <2>1, <2>2 DEF Server, Secrets
  <2>5. to.seen \subseteq versions
    BY <1>2, <2>4 DEF MigratedInOrder, SeenThere
  <2>6. secretKey' \in Secrets /\ drawn' \in Secrets /\ drawn <= drawn' /\ secretKey' # 0
    BY <1>1, <2>1 DEF Secrets
  <2>7. to.key \in {0, secretKey'}
    BY <1>2, <1>3, <2>1, <2>4
  <2>8. secretKey' = secretKey \/ (secretKey = 0 /\ secretKey' # 0)
    BY <2>1, <2>6
  <2> QED BY <1>4, <2>3, <2>4, <2>5, <2>6, <2>7, <2>8
<1>7. CASE CursorKey(v)
  <2>1. PICK to : to = [s EXCEPT !.key = secretKey]
    OBVIOUS
  <2>2. server' = [server EXCEPT ![v] = to] /\ UNCHANGED <<secretKey, drawn>>
    BY <1>2, <1>7, <2>1 DEF CursorKey, StoredKey
  <2>3. to \in Server /\ to.key = secretKey /\ to.seen = s.seen /\ to.generated = s.generated
    BY <1>1, <2>1 DEF Server
  <2>4. to.seen \subseteq versions
    BY <1>2, <2>3 DEF MigratedInOrder, SeenThere
  <2>5. to.generated # 0 => secretKey' # 0
    BY <1>2, <1>3, <2>2, <2>3
  <2>6. server' \in [Servers -> Server] /\ MigratedInOrder' /\ CursorKeyShared'
    BY <1>4, <2>2, <2>3, <2>4, <2>5
  <2> QED BY <1>1, <2>2, <2>6 DEF Secrets
<1>8. CASE Restart(v)
  <2>1. Fresh \in Server /\ Fresh.seen = {} /\ Fresh.key = 0 /\ Fresh.generated = 0
    BY <1>1 DEF Fresh, Server, Secrets
  <2>2. server' = [server EXCEPT ![v] = Fresh] /\ UNCHANGED <<secretKey, drawn>>
    BY <1>8 DEF Restart
  <2>3. server' \in [Servers -> Server] /\ MigratedInOrder' /\ CursorKeyShared'
    BY <1>4, <2>1, <2>2
  <2> QED BY <1>1, <2>2, <2>3 DEF Secrets
<1> QED BY <1>5, <1>6, <1>7, <1>8 DEF Serve

(***************************************************************************)
(* The commands of loomtable-admin.                                        *)
(***************************************************************************)

\* A step of an Operator that leaves Actors and Tokens as they are, told by what it
\* makes of the command.
LEMMA CommandKeepsAuth ==
  ASSUME TypeOK, AuthInv, NEW o \in Operators, NEW r \in Command,
         operator' = [operator EXCEPT ![o] = r], UNCHANGED <<actors, tokens, shown>>,
         drawn' \in Secrets, drawn <= drawn',
         r.stage # "ready" /\ r.revoking = 0 =>
           /\ r.name \in Names /\ r.secret \in 1..drawn'
           /\ \A p \in Drawing : p # o => operator[p].secret # r.secret
           /\ \A t \in tokens : t.secret # r.secret,
         r.stage \in {"bootstrap", "waiting", "inserted", "checked"} => r.revoking = 0,
         r.stage \in {"lock", "locked", "checked"} => actors # {},
         r.stage = "inserted" =>
           r.seen = {} /\ \A p \in Operators : p # o => operator[p].stage # "inserted",
         r.stage \in {"locked", "checked"} =>
           \A p \in Operators : p # o => operator[p].stage \notin {"locked", "checked"},
         r.stage = "checked" => Active(r.name) = {},
         r.told # "constraint"
  PROVE  operator' \in [Operators -> Command] /\ AuthInv'
<1>1. /\ operator' \in [Operators -> Command]
      /\ \A p \in Operators : operator'[p] = IF p = o THEN r ELSE operator[p]
  BY DEF TypeOK
<1>3. \A p \in Operators : p # o => (p \in Drawing' <=> p \in Drawing)
  BY <1>1 DEF Drawing
<1>4. o \in Drawing' <=> r.stage # "ready" /\ r.revoking = 0
  BY <1>1 DEF Drawing
<1>5. drawn \in Nat /\ drawn' \in Nat
  BY InstallationAssumption DEF TypeOK, Secrets
<1>6. CommandsTrue'
  <2>1. ASSUME NEW p \in Drawing'
        PROVE  operator'[p].name \in Names /\ operator'[p].secret \in 1..drawn'
    <3>1. p \in Operators
      BY <2>1 DEF Drawing
    <3>2. CASE p = o
      BY <1>1, <1>4, <2>1, <3>2
    <3>3. CASE p # o
      BY <1>1, <1>3, <1>5, <2>1, <3>1, <3>3 DEF AuthInv, CommandsTrue
    <3> QED BY <3>2, <3>3
  <2>2. ASSUME NEW p \in Operators
        PROVE  CommandTrue(p)'
    <3>1. CASE p = o
      BY <1>1, <3>1 DEF CommandTrue, Active
    <3>2. CASE p # o
      <4>1. CommandTrue(p) /\ operator'[p] = operator[p]
        BY <1>1, <3>2 DEF AuthInv, CommandsTrue
      <4> QED BY <4>1 DEF CommandTrue, Active
    <3> QED BY <3>1, <3>2
  <2> QED BY <2>1, <2>2 DEF CommandsTrue
<1>7. LocksHeldOnce'
  BY <1>1 DEF AuthInv, LocksHeldOnce
<1>8. SecretsDistinct'
  <2>1. ASSUME NEW p \in Drawing', NEW q \in Drawing', operator'[p].secret = operator'[q].secret
        PROVE  p = q
    <3>1. p \in Operators /\ q \in Operators
      BY <2>1 DEF Drawing
    <3> QED BY <1>1, <1>3, <1>4, <2>1, <3>1 DEF AuthInv, SecretsDistinct
  <2>2. ASSUME NEW p \in Drawing', NEW t \in tokens
        PROVE  t.secret # operator'[p].secret
    <3>1. p \in Operators
      BY <2>2 DEF Drawing
    <3> QED BY <1>1, <1>3, <1>4, <2>2, <3>1 DEF AuthInv, SecretsDistinct
  <2> QED BY <2>1, <2>2 DEF AuthInv, SecretsDistinct
<1>9. TokensOfActor'
  BY <1>5 DEF AuthInv, TokensOfActor, TypeOK, Token
<1> QED BY <1>1, <1>6, <1>7, <1>8, <1>9 DEF AuthInv

\* A command ends, whatever its Operator is told.
LEMMA EndKeepsAuth ==
  ASSUME TypeOK, AuthInv, NEW o \in Operators, NEW told \in (Answers \cup {None}) \ {"constraint"},
         Do(o, Ready(told)), UNCHANGED <<actors, tokens, shown, drawn>>
  PROVE  operator' \in [Operators -> Command] /\ AuthInv'
<1>1. /\ Ready(told) \in Command /\ Ready(told).stage = "ready" /\ Ready(told).told = told
  BY InstallationAssumption DEF Ready, Command, Secrets
<1>2. drawn' \in Secrets /\ drawn <= drawn'
  BY InstallationAssumption DEF TypeOK, Secrets
<1>3. operator' = [operator EXCEPT ![o] = Ready(told)]
  BY DEF Do
<1> QED BY <1>1, <1>2, <1>3, CommandKeepsAuth

\* A secret that is drawn is nobody's.
LEMMA FreshSecret ==
  ASSUME TypeOK, AuthInv
  PROVE  /\ drawn \in Nat /\ \A p \in Drawing : operator[p].secret # drawn + 1
         /\ \A t \in tokens : t.secret # drawn + 1
BY InstallationAssumption DEF AuthInv, CommandsTrue, TokensOfActor, TypeOK, Secrets

\* The steps of a command up to its COMMIT.
LEMMA BeforeCommitKeepsAuth ==
  ASSUME TypeOK, AuthInv, NEW o \in Operators,
         \/ \E name \in Names : BootstrapState(o, name) \/ PersonalActor(o, 0, name)
         \/ \E t \in tokens : ~t.revoked /\ PersonalActor(o, t.secret, None)
         \/ BeginBootstrap(o) \/ BootstrapAuth(o) \/ lockPersonalActor(o) \/ CheckName(o)
         \/ Abandon(o)
  PROVE  /\ operator' \in [Operators -> Command] /\ AuthInv' /\ UNCHANGED <<actors, tokens, shown>>
         /\ drawn' \in Secrets
<1>1. /\ operator \in [Operators -> Command] /\ drawn \in Secrets /\ MaxSecrets \in Nat
      /\ actors \subseteq Secrets /\ tokens \subseteq Token
  BY InstallationAssumption DEF TypeOK
<1>2. PICK q \in Command : q = operator[o]
  BY <1>1
<1>3. CommandTrue(o) /\ (o \in Drawing <=> q.stage # "ready" /\ q.revoking = 0)
  BY <1>2 DEF AuthInv, CommandsTrue, Drawing
<1>4. /\ o \in Drawing => q.name \in Names /\ q.secret \in 1..drawn
      /\ \A p \in Drawing : o \in Drawing /\ p # o => operator[p].secret # q.secret
      /\ \A t \in tokens : o \in Drawing => t.secret # q.secret
  BY <1>2 DEF AuthInv, CommandsTrue, SecretsDistinct
<1>5. {None, "complete", "duplicate"} \subseteq (Answers \cup {None}) \ {"constraint"}
  BY InstallationAssumption DEF Answers
<1>6. drawn <= drawn
  BY <1>1 DEF Secrets
<1>0. /\ \A p \in Drawing : operator[p].secret # drawn + 1
      /\ \A t \in tokens : t.secret # drawn + 1
  BY FreshSecret
\* A command moves on with the secret that it has.
<1>7. ASSUME NEW r \in Command, Do(o, r), UNCHANGED <<actors, tokens, shown, drawn>>,
             q.stage # "ready", r.stage # "ready",
             r.name = q.name, r.secret = q.secret, r.revoking = q.revoking, r.told = q.told,
             r.stage \in {"bootstrap", "waiting", "inserted", "checked"} => r.revoking = 0,
             r.stage \in {"lock", "locked", "checked"} => actors # {},
             r.stage = "inserted" =>
               r.seen = {} /\ \A p \in Operators : p # o => operator[p].stage # "inserted",
             r.stage \in {"locked", "checked"} =>
               \A p \in Operators : p # o => operator[p].stage \notin {"locked", "checked"},
             r.stage = "checked" => Active(r.name) = {}
      PROVE  operator' \in [Operators -> Command] /\ AuthInv'
  <2>1. operator' = [operator EXCEPT ![o] = r] /\ UNCHANGED <<actors, tokens, shown>>
    BY <1>7 DEF Do
  <2>2. drawn' \in Secrets /\ drawn <= drawn' /\ drawn' = drawn
    BY <1>1, <1>6, <1>7
  <2>3. r.stage # "ready" /\ r.revoking = 0 =>
           /\ r.name \in Names /\ r.secret \in 1..drawn'
           /\ \A p \in Drawing : p # o => operator[p].secret # r.secret
           /\ \A t \in tokens : t.secret # r.secret
    BY <1>3, <1>4, <1>7
  <2>4. r.told # "constraint"
    BY <1>2, <1>3, <1>7 DEF CommandTrue
  <2> QED BY <1>7, <2>1, <2>2, <2>3, <2>4, CommandKeepsAuth
<1>8. CASE \E name \in Names : BootstrapState(o, name)
  <2>1. PICK name \in Names : BootstrapState(o, name)
    BY <1>8
  <2>2. CASE actors # {}
    BY <1>1, <1>5, <2>1, <2>2, EndKeepsAuth DEF BootstrapState, End
  <2>3. CASE actors = {}
    <3>1. PICK r : r = [stage |-> "bootstrap", name |-> name, secret |-> drawn + 1, seen |-> {},
                        revoking |-> 0, told |-> None]
      OBVIOUS
    <3>2. /\ Do(o, r) /\ drawn' = drawn + 1 /\ drawn < MaxSecrets /\ UNCHANGED <<actors, tokens, shown>>
      BY <2>1, <2>3, <3>1 DEF BootstrapState, Begun
    <3>3. r \in Command /\ drawn' \in Secrets /\ drawn <= drawn' /\ r.secret \in 1..drawn'
      BY <1>1, <3>1, <3>2 DEF Command, Secrets
    <3>4. operator' = [operator EXCEPT ![o] = r]
      BY <3>2 DEF Do
    <3>5. r.stage = "bootstrap" /\ r.name \in Names /\ r.revoking = 0 /\ r.told # "constraint"
      BY <1>5, <3>1
    <3>6. /\ \A p \in Drawing : p # o => operator[p].secret # r.secret
          /\ \A t \in tokens : t.secret # r.secret
      <4>1. r.secret = drawn + 1
        BY <3>1
      <4> QED BY <1>0, <4>1
    <3> QED BY <3>2, <3>3, <3>4, <3>5, <3>6, CommandKeepsAuth
  <2> QED BY <2>2, <2>3
<1>9. ASSUME NEW name \in Names \cup {None}, NEW revoking \in Secrets,
             revoking = 0 => name \in Names, PersonalActor(o, revoking, name)
      PROVE  /\ operator' \in [Operators -> Command] /\ AuthInv' /\ UNCHANGED <<actors, tokens, shown>>
             /\ drawn' \in Secrets
  <2>1. PICK r : r = [stage |-> "lock", name |-> name, secret |-> drawn + 1, seen |-> {},
                      revoking |-> revoking, told |-> None]
    OBVIOUS
  <2>2. /\ Do(o, r) /\ drawn' = (IF revoking = 0 THEN drawn + 1 ELSE drawn) /\ drawn < MaxSecrets
        /\ UNCHANGED <<actors, tokens, shown>> /\ Cardinality(actors) = 1
    BY <1>9, <2>1 DEF PersonalActor, Begun
  <2>3. /\ r \in Command /\ drawn' \in Secrets /\ drawn <= drawn'
        /\ revoking = 0 => r.secret \in 1..drawn'
    BY <1>1, <2>1, <2>2 DEF Command, Secrets
  <2>4. operator' = [operator EXCEPT ![o] = r]
    BY <2>2 DEF Do
  <2>5. actors # {}
    BY <2>2, FS_EmptySet
  <2>6. r.stage = "lock" /\ r.revoking = revoking /\ r.name = name /\ r.told # "constraint"
    BY <1>5, <2>1
  <2>7. /\ \A p \in Drawing : p # o => operator[p].secret # r.secret
        /\ \A t \in tokens : t.secret # r.secret
    <3>1. r.secret = drawn + 1
      BY <2>1
    <3> QED BY <1>0, <3>1
  <2> QED BY <1>9, <2>2, <2>3, <2>4, <2>5, <2>6, <2>7, CommandKeepsAuth
<1>10. CASE \E name \in Names : PersonalActor(o, 0, name)
  BY <1>1, <1>9, <1>10 DEF Secrets
<1>11. CASE \E t \in tokens : ~t.revoked /\ PersonalActor(o, t.secret, None)
  <2>1. PICK t \in tokens : PersonalActor(o, t.secret, None)
    BY <1>11
  <2>2. t.secret \in Secrets /\ t.secret # 0
    BY <1>1 DEF Token, AuthInv, TokensOfActor
  <2> QED BY <1>9, <2>1, <2>2
<1>12. CASE BeginBootstrap(o)
  <2>1. PICK r : r = [q EXCEPT !.stage = "waiting", !.seen = actors]
    OBVIOUS
  <2>2. q.stage = "bootstrap" /\ Do(o, r) /\ UNCHANGED <<actors, tokens, shown, drawn>>
    BY <1>2, <1>12, <2>1 DEF BeginBootstrap
  <2>3. /\ r \in Command /\ r.stage = "waiting" /\ r.name = q.name /\ r.secret = q.secret
        /\ r.revoking = q.revoking /\ r.told = q.told
    BY <1>1, <2>1 DEF Command
  <2>4. q.revoking = 0
    BY <1>2, <1>3, <2>2 DEF CommandTrue
  <2> QED BY <1>1, <1>7, <2>2, <2>3, <2>4
<1>13. CASE BootstrapAuth(o)
  <2>1. q.stage = "waiting" /\ q.revoking = 0
    BY <1>2, <1>3, <1>13 DEF BootstrapAuth, CommandTrue
  <2>2. CASE q.seen # {}
    BY <1>1, <1>2, <1>5, <1>13, <2>2, EndKeepsAuth DEF BootstrapAuth, End
  <2>3. CASE q.seen = {}
    <3>1. PICK r : r = [q EXCEPT !.stage = "inserted"]
      OBVIOUS
    <3>2. Do(o, r) /\ UNCHANGED <<actors, tokens, shown, drawn>> /\ BootstrapFree
      BY <1>2, <1>13, <2>3, <3>1 DEF BootstrapAuth
    <3>3. /\ r \in Command /\ r.stage = "inserted" /\ r.name = q.name /\ r.secret = q.secret
          /\ r.revoking = q.revoking /\ r.told = q.told /\ r.seen = q.seen
      BY <1>1, <3>1 DEF Command
    <3> QED BY <1>1, <1>7, <2>1, <2>3, <3>2, <3>3 DEF BootstrapFree
  <2> QED BY <2>2, <2>3
<1>14. CASE lockPersonalActor(o)
  <2>1. PICK r : r = [q EXCEPT !.stage = "locked"]
    OBVIOUS
  <2>2. q.stage = "lock" /\ Do(o, r) /\ UNCHANGED <<actors, tokens, shown, drawn>> /\ ActorFree
    BY <1>2, <1>14, <2>1 DEF lockPersonalActor
  <2>3. /\ r \in Command /\ r.stage = "locked" /\ r.name = q.name /\ r.secret = q.secret
        /\ r.revoking = q.revoking /\ r.told = q.told
    BY <1>1, <2>1 DEF Command
  <2>4. actors # {}
    BY <1>2, <1>3, <2>2 DEF CommandTrue
  <2> QED BY <1>1, <1>7, <2>2, <2>3, <2>4 DEF ActorFree
<1>15. CASE CheckName(o)
  <2>1. q.stage = "locked" /\ q.revoking = 0
    BY <1>2, <1>15 DEF CheckName
  <2>2. CASE Active(q.name) # {}
    BY <1>1, <1>2, <1>5, <1>15, <2>2, EndKeepsAuth DEF CheckName, End
  <2>3. CASE Active(q.name) = {}
    <3>1. PICK r : r = [q EXCEPT !.stage = "checked"]
      OBVIOUS
    <3>2. Do(o, r) /\ UNCHANGED <<actors, tokens, shown, drawn>>
      BY <1>2, <1>15, <2>3, <3>1 DEF CheckName
    <3>3. /\ r \in Command /\ r.stage = "checked" /\ r.name = q.name /\ r.secret = q.secret
          /\ r.revoking = q.revoking /\ r.told = q.told
      BY <1>1, <3>1 DEF Command
    <3>4. actors # {}
      BY <1>2, <1>3, <2>1 DEF CommandTrue
    <3>5. \A p \in Operators : p # o => operator[p].stage \notin {"locked", "checked"}
      BY <1>2, <2>1 DEF AuthInv, LocksHeldOnce
    <3>6. Active(r.name) = {}
      BY <2>3, <3>3
    <3> QED BY <1>1, <1>7, <2>1, <3>2, <3>3, <3>4, <3>5, <3>6
  <2> QED BY <2>2, <2>3
<1>16. CASE Abandon(o)
  BY <1>1, <1>5, <1>16, EndKeepsAuth DEF Abandon, End
<1> QED BY <1>8, <1>10, <1>11, <1>12, <1>13, <1>14, <1>15, <1>16

\* Everything but the uniqueness of what is there: Tokens that are the old ones or newer
\* forms of them, and one command that ends.
LEMMA CommittedKeepsAuth ==
  ASSUME TypeOK, AuthInv, NEW o \in Operators, NEW told \in (Answers \cup {None}) \ {"constraint"},
         Do(o, Ready(told)), drawn' = drawn,
         tokens' \subseteq Token, actors' \subseteq Secrets,
         actors \subseteq actors', \A a, b \in actors' : a = b,
         \A p \in Operators : p # o /\ operator[p].stage = "checked" =>
           \A t \in tokens' : t.name = operator[p].name => t.revoked,
         \A p \in Drawing, t \in tokens' : p # o => t.secret # operator[p].secret,
         \A t, u \in tokens' : t.secret = u.secret => t = u,
         \A t \in tokens' : t.secret \in 1..drawn /\ t.actor \in actors',
         \A s \in shown' : \E t \in tokens' : t.secret = s,
         \A t, u \in tokens' : t.name = u.name /\ ~t.revoked /\ ~u.revoked => t = u
  PROVE  operator' \in [Operators -> Command] /\ AuthInv'
<1>1. /\ Ready(told) \in Command /\ Ready(told).stage = "ready" /\ Ready(told).told = told
  BY InstallationAssumption DEF Ready, Command, Secrets
<1>2. /\ operator' \in [Operators -> Command]
      /\ \A p \in Operators : operator'[p] = IF p = o THEN Ready(told) ELSE operator[p]
  BY <1>1 DEF TypeOK, Do
<1>3. \A p \in Operators : p \in Drawing' <=> p # o /\ p \in Drawing
  BY <1>1, <1>2 DEF Drawing
<1>4. Drawing' \subseteq Operators
  BY DEF Drawing
<1>5. CommandsTrue'
  <2>1. ASSUME NEW p \in Operators PROVE CommandTrue(p)'
    <3>1. CASE p = o
      BY <1>1, <1>2, <3>1 DEF CommandTrue
    <3>2. CASE p # o
      <4>1. CommandTrue(p) /\ operator'[p] = operator[p]
        BY <1>2, <3>2 DEF AuthInv, CommandsTrue
      <4> QED BY <3>2, <4>1 DEF CommandTrue, Active
    <3> QED BY <3>1, <3>2
  <2>2. \A p \in Drawing' : operator'[p].name \in Names /\ operator'[p].secret \in 1..drawn'
    BY <1>2, <1>3, <1>4 DEF AuthInv, CommandsTrue
  <2> QED BY <2>1, <2>2 DEF CommandsTrue
<1>6. LocksHeldOnce'
  BY <1>1, <1>2 DEF AuthInv, LocksHeldOnce
<1>7. SecretsDistinct'
  BY <1>2, <1>3, <1>4 DEF AuthInv, SecretsDistinct
<1>8. TokensOfActor'
  BY DEF TokensOfActor
<1> QED BY <1>2, <1>5, <1>6, <1>7, <1>8 DEF AuthInv

\* The transactions of the commands: a Token of the first or of the one Actor, or one that
\* is revoked.
LEMMA CommitKeepsAuth ==
  ASSUME TypeOK, AuthInv, NEW o \in Operators,
         CommitBootstrap(o) \/ CreateAuthToken(o) \/ RevokeAuthToken(o)
  PROVE  /\ operator' \in [Operators -> Command] /\ AuthInv'
         /\ actors' \subseteq Secrets /\ tokens' \subseteq Token /\ shown' \subseteq Secrets
         /\ drawn' = drawn
<1>1. /\ operator \in [Operators -> Command] /\ drawn \in Secrets /\ MaxSecrets \in Nat
      /\ actors \subseteq Secrets /\ tokens \subseteq Token /\ shown \subseteq Secrets
  BY InstallationAssumption DEF TypeOK
<1>2. PICK q \in Command : q = operator[o]
  BY <1>1
<1>3. CommandTrue(o) /\ (o \in Drawing <=> q.stage # "ready" /\ q.revoking = 0)
  BY <1>2 DEF AuthInv, CommandsTrue, Drawing
<1>4. /\ o \in Drawing => q.name \in Names /\ q.secret \in 1..drawn
      /\ \A p \in Drawing : o \in Drawing /\ p # o => operator[p].secret # q.secret
      /\ \A t \in tokens : o \in Drawing => t.secret # q.secret
      /\ \A p \in Drawing, t \in tokens : t.secret # operator[p].secret
      /\ \A t, u \in tokens : t.secret = u.secret => t = u
  BY <1>2 DEF AuthInv, CommandsTrue, SecretsDistinct
<1>5. /\ \A a, b \in actors : a = b
      /\ \A t \in tokens : t.secret \in 1..drawn /\ t.actor \in actors
      /\ \A s \in shown : \E t \in tokens : t.secret = s
      /\ \A t, u \in tokens : t.name = u.name /\ ~t.revoked /\ ~u.revoked => t = u
  BY DEF AuthInv, TokensOfActor
<1>6. \A p \in Operators : operator[p].stage = "checked" =>
        actors # {} /\ \A t \in tokens : t.name = operator[p].name => t.revoked
  BY DEF AuthInv, CommandsTrue, CommandTrue, Active
<1>7. {None, "serialization", "shown", "lost", "revoked"} \subseteq (Answers \cup {None}) \ {"constraint"}
  BY InstallationAssumption DEF Answers
\* What is printed, and how the command ends, when a Token is added.
<1>8. ASSUME NEW t, Printed(o), tokens' = tokens \cup {t}, t.secret = q.secret, q.secret \in Secrets
      PROVE  /\ Do(o, Ready("shown")) \/ Do(o, Ready("lost"))
             /\ \A s \in shown' : \E u \in tokens' : u.secret = s
             /\ shown' \subseteq Secrets
  <2>1. shown' = shown \cup {q.secret} \/ shown' = shown
    BY <1>2, <1>8 DEF Printed
  <2> QED BY <1>1, <1>5, <1>8, <2>1 DEF Printed
<1>9. CASE CommitBootstrap(o)
  <2>1. q.stage = "inserted" /\ q.seen = {} /\ q.revoking = 0
    BY <1>2, <1>3, <1>9 DEF CommitBootstrap, CommandTrue
  <2>2. CASE actors # {}
    <3>1. End(o, "serialization")
      BY <1>2, <1>9, <2>1, <2>2 DEF CommitBootstrap, Serializable
    <3> QED BY <1>1, <1>7, <3>1, EndKeepsAuth DEF End
  <2>3. CASE actors = {}
    <3>1. PICK t : t = [secret |-> q.secret, actor |-> q.secret, name |-> q.name, revoked |-> FALSE]
      OBVIOUS
    <3>2. /\ actors' = {q.secret} /\ tokens' = tokens \cup {t} /\ Printed(o) /\ drawn' = drawn
      BY <1>2, <1>9, <2>1, <2>3, <3>1 DEF CommitBootstrap, Serializable, TokenOf
    <3>3. tokens = {}
      BY <1>5, <2>3
    <3>4. q.secret \in Secrets /\ q.secret \in 1..drawn /\ q.name \in Names
      BY <1>1, <1>3, <1>4, <2>1 DEF Secrets
    <3>5. /\ t \in Token /\ t.secret = q.secret /\ t.actor = q.secret
      BY <3>1, <3>4 DEF Token
    <3>6. tokens' = {t} /\ tokens' \subseteq Token /\ actors' \subseteq Secrets
      BY <3>2, <3>3, <3>4, <3>5
    <3>7. /\ Do(o, Ready("shown")) \/ Do(o, Ready("lost"))
          /\ \A s \in shown' : \E u \in tokens' : u.secret = s
          /\ shown' \subseteq Secrets
      BY <1>8, <3>2, <3>4, <3>5
    <3>8. \A p \in Drawing, u \in tokens' : p # o => u.secret # operator[p].secret
      BY <1>3, <1>4, <2>1, <3>5, <3>6
    <3>9. /\ \A u, w \in tokens' : u = w
          /\ \A u \in tokens' : u.secret \in 1..drawn /\ u.actor \in actors'
          /\ actors \subseteq actors' /\ \A a, b \in actors' : a = b
          /\ \A p \in Operators : operator[p].stage # "checked"
      BY <1>6, <2>3, <3>2, <3>4, <3>5, <3>6
    <3> QED BY <1>7, <3>2, <3>6, <3>7, <3>8, <3>9, CommittedKeepsAuth
  <2> QED BY <2>2, <2>3
<1>10. CASE CreateAuthToken(o)
  <2>1. q.stage = "checked" /\ q.revoking = 0 /\ actors # {} /\ Active(q.name) = {}
    BY <1>2, <1>3, <1>10 DEF CreateAuthToken, CommandTrue
  <2>2. PICK a \in actors : a = CHOOSE b \in actors : TRUE
    BY <2>1
  <2>3. PICK t : t = [secret |-> q.secret, actor |-> a, name |-> q.name, revoked |-> FALSE]
    OBVIOUS
  <2>4. /\ tokens' = tokens \cup {t} /\ Printed(o) /\ UNCHANGED <<actors, drawn>>
    BY <1>2, <1>10, <2>1, <2>2, <2>3 DEF CreateAuthToken, TokenOf
  <2>5. q.secret \in Secrets /\ q.secret \in 1..drawn /\ q.name \in Names
    BY <1>1, <1>3, <1>4, <2>1 DEF Secrets
  <2>6. /\ t \in Token /\ t.secret = q.secret /\ t.actor \in actors /\ t.name = q.name
    BY <1>1, <2>2, <2>3, <2>5 DEF Token
  <2>7. tokens' \subseteq Token /\ actors' \subseteq Secrets
    BY <1>1, <2>4, <2>6
  <2>8. /\ Do(o, Ready("shown")) \/ Do(o, Ready("lost"))
        /\ \A s \in shown' : \E u \in tokens' : u.secret = s
        /\ shown' \subseteq Secrets
    BY <1>8, <2>4, <2>5, <2>6
  <2>9. /\ \A p \in Drawing, u \in tokens' : p # o => u.secret # operator[p].secret
        /\ \A u, w \in tokens' : u.secret = w.secret => u = w
    BY <1>3, <1>4, <2>1, <2>4, <2>6
  <2>10. \A u, w \in tokens' : u.name = w.name /\ ~u.revoked /\ ~w.revoked => u = w
    BY <1>5, <2>1, <2>4, <2>6 DEF Active
  <2>11. \A p \in Operators : p # o => operator[p].stage # "checked"
    BY <1>2, <2>1 DEF AuthInv, LocksHeldOnce
  <2>12. /\ \A u \in tokens' : u.secret \in 1..drawn /\ u.actor \in actors'
         /\ actors \subseteq actors' /\ \A c, b \in actors' : c = b
    BY <1>5, <2>4, <2>5, <2>6
  <2> QED BY <1>7, <2>4, <2>7, <2>8, <2>9, <2>10, <2>11, <2>12, CommittedKeepsAuth
<1>11. CASE RevokeAuthToken(o)
  <2> DEFINE After(t) == IF t.secret = q.revoking THEN [t EXCEPT !.revoked = TRUE] ELSE t
  <2>1. /\ tokens' = {After(t) : t \in tokens}
        /\ Do(o, Ready("revoked")) /\ UNCHANGED <<actors, shown, drawn>>
    BY <1>2, <1>11 DEF RevokeAuthToken
  <2>2. ASSUME NEW t \in tokens
        PROVE  /\ After(t) \in Token /\ After(t).secret = t.secret
               /\ After(t).actor = t.actor /\ After(t).name = t.name
               /\ ~After(t).revoked => After(t) = t
               /\ t.revoked => After(t).revoked
    <3>1. t \in Token
      BY <1>1
    <3> QED BY <3>1 DEF Token
  <2> HIDE DEF After
  <2>3. \A t \in tokens : After(t) \in tokens' /\ After(t).secret = t.secret
    BY <2>1, <2>2
  <2>4. tokens' \subseteq Token /\ \A s \in shown' : \E u \in tokens' : u.secret = s
    BY <1>5, <2>1, <2>2, <2>3
  <2>5. \A p \in Drawing, u \in tokens' : u.secret # operator[p].secret
    BY <1>4, <2>1, <2>2
  <2>6. /\ \A u, w \in tokens' : u.secret = w.secret => u = w
        /\ \A u, w \in tokens' : u.name = w.name /\ ~u.revoked /\ ~w.revoked => u = w
    BY <1>4, <1>5, <2>1, <2>2
  <2>7. /\ \A u \in tokens' : u.secret \in 1..drawn /\ u.actor \in actors'
        /\ actors' = actors
    BY <1>5, <2>1, <2>2
  <2>8. \A p \in Operators : operator[p].stage = "checked" =>
          \A u \in tokens' : u.name = operator[p].name => u.revoked
    BY <1>6, <2>1, <2>2
  <2> QED BY <1>1, <1>5, <1>7, <2>1, <2>4, <2>5, <2>6, <2>7, <2>8, CommittedKeepsAuth
<1> QED BY <1>9, <1>10, <1>11

\* What no Operator does leaves the invariant of the commands, though secrets are drawn.
LEMMA DrawingKeepsAuth ==
  ASSUME TypeOK, AuthInv, UNCHANGED authVars, drawn' \in Secrets, drawn <= drawn'
  PROVE  AuthInv'
<1>1. UNCHANGED <<actors, tokens, operator, shown>>
  BY DEF authVars
<1>2. drawn \in Nat /\ drawn' \in Nat
  BY InstallationAssumption DEF TypeOK, Secrets
<1>3. Drawing' = Drawing
  BY <1>1 DEF Drawing
<1>4. CommandsTrue'
  <2>1. \A o \in Operators : CommandTrue(o)'
    BY <1>1 DEF AuthInv, CommandsTrue, CommandTrue, Active
  <2> QED BY <1>1, <1>2, <1>3, <2>1 DEF AuthInv, CommandsTrue
<1>5. LocksHeldOnce'
  BY <1>1 DEF AuthInv, LocksHeldOnce
<1>6. SecretsDistinct'
  BY <1>1, <1>3 DEF AuthInv, SecretsDistinct
<1>7. TokensOfActor'
  BY <1>1, <1>2 DEF AuthInv, TokensOfActor, TypeOK, Token
<1> QED BY <1>4, <1>5, <1>6, <1>7 DEF AuthInv

LEMMA InstallationInvHolds ==
  Spec => []InstallationInv
<1>1. Init => InstallationInv
  <2> SUFFICES ASSUME Init PROVE InstallationInv
    OBVIOUS
  <2>1. Stopped \in Migrator /\ Stopped.stage = "stopped"
    BY InstallationAssumption DEF Stopped, Migrator
  <2>2. /\ Ready(None) \in Command /\ Ready(None).stage = "ready" /\ Ready(None).told = None
    BY InstallationAssumption DEF Ready, Command, Secrets
  <2>3. Fresh \in Server /\ Fresh.seen = {} /\ Fresh.generated = 0 /\ Fresh.key = 0
    BY InstallationAssumption DEF Fresh, Server, Secrets
  <2>4. /\ migrator = [p \in Migrators |-> Stopped] /\ operator = [o \in Operators |-> Ready(None)]
        /\ server = [v \in Servers |-> Fresh]
    BY DEF Init
  <2>5. TypeOK
    <3>1. /\ migrator \in [Migrators -> Migrator] /\ operator \in [Operators -> Command]
          /\ server \in [Servers -> Server]
      BY <2>1, <2>2, <2>3, <2>4
    <3>2. executed \in Seq(1..Files) /\ 0 \in Secrets
      BY InstallationAssumption DEF Init, Secrets
    <3> QED BY <3>1, <3>2 DEF Init, TypeOK
  <2>6. MigratedInOrder
    <3>1. FirstOnes
      BY DEF Init, FirstOnes
    <3>2. \A p \in Migrators : migrator[p].stage = "stopped"
      BY <2>1, <2>4
    <3>3. SeenThere
      BY <2>3, <2>4 DEF Init, SeenThere
    <3> QED BY <3>1, <3>2, <3>3
            DEF MigratedInOrder, FoundBefore, WithinRelease, CommitsNew, CommitsAlone
  <2>7. AuthInv
    <3>1. Drawing = {}
      BY <2>2, <2>4 DEF Drawing
    <3>2. \A o \in Operators : operator[o].stage = "ready" /\ operator[o].told # "constraint"
      BY <2>2, <2>4, InstallationAssumption DEF Answers
    <3>3. tokens = {} /\ actors = {} /\ shown = {}
      BY DEF Init
    <3> QED BY <3>1, <3>2, <3>3
            DEF AuthInv, CommandsTrue, CommandTrue, LocksHeldOnce, SecretsDistinct, TokensOfActor
  <2>8. CursorKeyShared
    BY <2>3, <2>4 DEF CursorKeyShared
  <2> QED BY <2>5, <2>6, <2>7, <2>8 DEF InstallationInv
<1>2. InstallationInv /\ [Next]_vars => InstallationInv'
  <2> SUFFICES ASSUME InstallationInv, [Next]_vars PROVE InstallationInv'
    OBVIOUS
  <2>1. TypeOK /\ MigratedInOrder /\ AuthInv /\ CursorKeyShared
    BY DEF InstallationInv
  <2>2. drawn \in Secrets /\ drawn <= drawn
    BY <2>1, InstallationAssumption DEF TypeOK, Secrets
  <2>3. CASE \E p \in Migrators : Migrate(p) /\ UNCHANGED <<authVars, drawn, serverVars>>
    <3>1. PICK p \in Migrators : Migrate(p)
      BY <2>3
    <3>2. UNCHANGED <<actors, tokens, operator, shown, drawn, secretKey, server>>
      BY <2>3 DEF authVars, serverVars
    <3>3. /\ executed' \in Seq(1..Files) /\ versions' \subseteq 1..Files
          /\ migrator' \in [Migrators -> Migrator] /\ MigratedInOrder'
      BY <2>1, <3>1, <3>2, MigrateKeepsOrder
    <3>4. TypeOK'
      BY <2>1, <3>2, <3>3 DEF TypeOK
    <3>5. AuthInv'
      BY <2>1, <2>2, <2>3, <3>2, DrawingKeepsAuth
    <3>6. CursorKeyShared'
      BY <2>1, <3>2 DEF CursorKeyShared
    <3> QED BY <3>3, <3>4, <3>5, <3>6 DEF InstallationInv
  <2>4. CASE \E o \in Operators : Administer(o) /\ UNCHANGED <<migrationVars, serverVars>>
    <3>1. PICK o \in Operators : Administer(o)
      BY <2>4
    <3>2. UNCHANGED <<executed, versions, migrator, secretKey, server>>
      BY <2>4 DEF migrationVars, serverVars
    <3>3. /\ operator' \in [Operators -> Command] /\ AuthInv' /\ drawn' \in Secrets
          /\ actors' \subseteq Secrets /\ tokens' \subseteq Token /\ shown' \subseteq Secrets
      <4>1. CASE CommitBootstrap(o) \/ CreateAuthToken(o) \/ RevokeAuthToken(o)
        BY <2>1, <2>2, <4>1, CommitKeepsAuth
      <4>2. CASE ~(CommitBootstrap(o) \/ CreateAuthToken(o) \/ RevokeAuthToken(o))
        <5>1. /\ operator' \in [Operators -> Command] /\ AuthInv' /\ UNCHANGED <<actors, tokens, shown>>
              /\ drawn' \in Secrets
          BY <2>1, <3>1, <4>2, BeforeCommitKeepsAuth DEF Administer
        <5> QED BY <2>1, <5>1 DEF TypeOK
      <4> QED BY <4>1, <4>2
    <3>4. TypeOK'
      BY <2>1, <3>2, <3>3 DEF TypeOK
    <3>5. MigratedInOrder' /\ CursorKeyShared'
      BY <2>1, <3>2 DEF MigratedInOrder, FirstOnes, FoundBefore, WithinRelease, CommitsNew,
                        CommitsAlone, SeenThere, CursorKeyShared
    <3> QED BY <3>3, <3>4, <3>5 DEF InstallationInv
  <2>5. CASE \E v \in Servers : Serve(v) /\ UNCHANGED <<migrationVars, authVars>>
    <3>1. PICK v \in Servers : Serve(v)
      BY <2>5
    <3>2. UNCHANGED <<executed, versions, migrator, actors, tokens, operator, shown>>
      BY <2>5 DEF migrationVars, authVars
    <3>3. /\ secretKey' \in Secrets /\ server' \in [Servers -> Server]
          /\ drawn' \in Secrets /\ drawn <= drawn' /\ MigratedInOrder' /\ CursorKeyShared'
      BY <2>1, <3>1, <3>2, ServeKeepsKey
    <3>4. AuthInv'
      BY <2>1, <2>5, <3>3, DrawingKeepsAuth
    <3>5. TypeOK'
      BY <2>1, <3>2, <3>3 DEF TypeOK
    <3> QED BY <3>3, <3>4, <3>5 DEF InstallationInv
  <2>6. CASE UNCHANGED vars
    <3>1. UNCHANGED <<executed, versions, migrator, actors, tokens, operator, shown, drawn,
                      secretKey, server>> /\ UNCHANGED authVars
      BY <2>6 DEF vars, migrationVars, authVars, serverVars
    <3>2. AuthInv'
      BY <2>1, <2>2, <3>1, DrawingKeepsAuth
    <3>3. MigratedInOrder' /\ CursorKeyShared'
      BY <2>1, <3>1 DEF MigratedInOrder, FirstOnes, FoundBefore, WithinRelease, CommitsNew,
                        CommitsAlone, SeenThere, CursorKeyShared
    <3>4. TypeOK'
      BY <2>1, <3>1 DEF TypeOK
    <3> QED BY <3>2, <3>3, <3>4 DEF InstallationInv
  <2> QED BY <2>3, <2>4, <2>5, <2>6 DEF Next
<1> QED BY <1>1, <1>2, PTL DEF Spec

(***************************************************************************)
(* The theorems.                                                           *)
(***************************************************************************)

\* ApplyMigrations checks, executes and records in this order and in a transaction of its
\* own for every file: whoever runs it and wherever it stops, the migrations take effect
\* once each and in order, so that the last one, which ReadyChecker asks for, stands for
\* all of them.
THEOREM MigratedOnceInOrder == Spec => []ReadyIsMigrated
<1>1. InstallationInv => ReadyIsMigrated
  <2> SUFFICES ASSUME InstallationInv PROVE ReadyIsMigrated
    OBVIOUS
  <2>1. TypeOK /\ FirstOnes /\ SeenThere
    BY DEF InstallationInv, MigratedInOrder
  <2>2. /\ executed = [i \in 1..Len(executed) |-> i] /\ versions = 1..Len(executed)
        /\ Len(executed) \in Nat /\ versions \subseteq 1..Files
    BY <2>1 DEF FirstOnes, TypeOK
  <2>3. versions = ToSet(executed)
    <3>1. \A i \in 1..Len(executed) : executed[i] = i
      BY <2>2
    <3>2. ToSet(executed) = {executed[i] : i \in 1..Len(executed)}
      BY <2>2 DEF ToSet
    <3> QED BY <2>2, <3>1, <3>2
  <2>4. ASSUME NEW v \in Servers, IsReady(v)
        PROVE  versions = 1..Files
    <3>1. Files \in versions
      BY <2>1, <2>4, InstallationAssumption DEF IsReady, SeenThere
    <3>2. Len(executed) = Files
      <4>1. Files <= Len(executed)
        BY <2>2, <3>1, InstallationAssumption
      <4>2. Len(executed) <= Files
        <5>1. SUFFICES ASSUME Len(executed) > Files PROVE FALSE
          BY <2>2, InstallationAssumption
        <5>2. Len(executed) \in versions
          BY <2>2, <5>1, InstallationAssumption
        <5> QED BY <2>2, <5>1, <5>2, InstallationAssumption
      <4>3. Len(executed) \in Nat /\ Files \in Nat
        BY <2>2, InstallationAssumption
      <4> QED BY <4>1, <4>2, <4>3
    <3> QED BY <2>2, <3>2
  <2> QED BY <2>1, <2>2, <2>3, <2>4 DEF ReadyIsMigrated
<1> QED BY <1>1, InstallationInvHolds, PTL

\* A set that does not have two different members.
LEMMA AtMostOne ==
  ASSUME NEW S, \A a, b \in S : a = b
  PROVE  Cardinality(S) <= 1
<1>1. CASE S = {}
  BY <1>1, FS_EmptySet
<1>2. CASE S # {}
  <2>1. PICK a \in S : S = {a}
    BY <1>2
  <2>2. Cardinality(S) = 1
    BY <2>1, FS_Singleton
  <2> QED BY <2>2
<1> QED BY <1>1, <1>2

\* Two bootstraps that have both found no Actor: the advisory lock orders them, and the
\* SERIALIZABLE transaction of the second, whose snapshot is older than the COMMIT of the
\* first, fails at its own (BootstrapAuth).
THEOREM OneActorEver == Spec => []OneActor
<1>1. InstallationInv => OneActor
  <2> SUFFICES ASSUME InstallationInv PROVE OneActor
    OBVIOUS
  <2>1. /\ \A a, b \in actors : a = b
        /\ \A t \in tokens : t.actor \in actors
        /\ \A t, u \in tokens : t.secret = u.secret => t = u
    BY DEF InstallationInv, AuthInv, TokensOfActor, SecretsDistinct
  <2>2. \A t, u \in {w \in tokens : w.actor = w.secret} : t = u
    BY <2>1
  <2> QED BY <2>1, <2>2, AtMostOne DEF OneActor
<1> QED BY <1>1, InstallationInvHolds, PTL

\* A printed secret is one whose Token was committed (Bootstrap and Create of admin.go
\* print after the COMMIT), and stays the only one with that secret.
THEOREM PrintedSecretsWork == Spec => []ShownSecretsWork
<1>1. InstallationInv => ShownSecretsWork
  <2> SUFFICES ASSUME InstallationInv, NEW s \in shown
               PROVE  \/ Authenticate(s) = actors
                      \/ \E t \in tokens : t.secret = s /\ t.revoked
    BY DEF ShownSecretsWork
  <2>1. /\ \A a, b \in actors : a = b
        /\ \A t \in tokens : t.actor \in actors
        /\ \A t, u \in tokens : t.secret = u.secret => t = u
    BY DEF InstallationInv, AuthInv, TokensOfActor, SecretsDistinct
  <2>2. PICK t \in tokens : t.secret = s
    BY DEF InstallationInv, AuthInv, TokensOfActor
  <2>3. CASE t.revoked
    BY <2>2, <2>3
  <2>4. CASE ~t.revoked
    <3>1. {u \in tokens : u.secret = s /\ ~u.revoked} = {t}
      BY <2>1, <2>2, <2>4
    <3>2. Authenticate(s) = {t.actor}
      BY <3>1 DEF Authenticate
    <3>3. actors = {t.actor}
      BY <2>1
    <3> QED BY <3>2, <3>3
  <2> QED BY <2>3, <2>4
<1> QED BY <1>1, InstallationInvHolds, PTL

\* The row lock on the Actor (lockPersonalActor) is held from the check of a name to the
\* COMMIT of CreateAuthToken, so that the index never has to refuse a Token.
THEOREM NamesStayUnique == Spec => []NamesUnique
<1>1. InstallationInv => NamesUnique
  BY DEF InstallationInv, AuthInv, TokensOfActor, CommandsTrue, CommandTrue, NamesUnique
<1> QED BY <1>1, InstallationInvHolds, PTL

\* A server reads the key back after its insert (CursorKey), and a stored key is never
\* replaced: no server signs with a key of its own.
THEOREM OneCursorKey == Spec => []CursorKeyShared
<1>1. InstallationInv => CursorKeyShared
  BY DEF InstallationInv
<1> QED BY <1>1, InstallationInvHolds, PTL

-----------------------------------------------------------------------------
(***************************************************************************)
(* Attachments: the inductive invariant.                                   *)
(***************************************************************************)

Connected(u) == upload[u].pc # "idle"

\* What a connection works on exists, and is managed when content is sent to it.
OnAttachments ==
  /\ \A u \in Uploaders : Connected(u) =>
       At(u) \in Attachments /\ row[At(u)].status # "absent" /\ row[At(u)].source = "managed"
  /\ \A r \in Readers : reader[r].pc # "idle" => reader[r].at \in Attachments
  /\ \A d \in Deleters : deleter[d].pc # "idle" => deleter[d].at \in Attachments
  /\ \A w \in Writers : writer[w].pc # "idle" => writer[w].at \in Attachments

\* There is no file before there is a row.
AbsentIsEmpty == \A a \in Attachments : row[a].status = "absent" => file[a] = NoContent

UploadsAlone ==
  \A u, v \in Uploaders :
    u # v /\ Connected(u) /\ Connected(v) /\ At(u) = At(v) => At(u) \in disturbed

\* An upload that has been alone finds what it has left: the row is pending until its
\* MarkReady, and the file is the one that it has renamed.
UploadsUndisturbed ==
  \A u \in Uploaders : Connected(u) /\ At(u) \notin disturbed =>
    /\ row[At(u)].status = "pending"
    /\ upload[u].pc \in {"renamed", "put"} => file[At(u)] = upload[u].content
    /\ upload[u].pc = "put" => upload[u].shape = upload[u].content

InStep ==
  \A a \in Attachments \ disturbed :
    Managed(a) => file[a] = row[a].hash /\ row[a].shape = row[a].hash

\* The row that a download has found still describes the Attachment.
ReadersInStep ==
  \A r \in Readers : reader[r].pc # "idle" /\ reader[r].at \notin disturbed =>
    /\ Managed(reader[r].at) /\ reader[r].row.hash = row[reader[r].at].hash
    /\ reader[r].pc \in {"served", "failed"} => reader[r].got = reader[r].row.hash

UploadInv ==
  /\ AttachmentTypeOK /\ OnAttachments /\ AbsentIsEmpty /\ UploadsAlone /\ UploadsUndisturbed
  /\ InStep /\ ReadersInStep

(***************************************************************************)
(* Uploads.                                                                *)
(***************************************************************************)

\* A step of an upload of a, told by what it makes of the upload, the file and the row.
LEMMA UploadKeepsInv ==
  ASSUME UploadInv, NEW u \in Uploaders, NEW a \in Attachments,
         NEW to \in Upload, NEW f \in Maybe, NEW r \in Row,
         upload' = [upload EXCEPT ![u] = to], file' = [file EXCEPT ![a] = f],
         row' = [row EXCEPT ![a] = r], UNCHANGED <<reader, deleter, writer, referenced>>,
         disturbed' \subseteq Attachments, disturbed \subseteq disturbed',
         row[a].source = "managed", row[a].status # "absent",
         r.source = "managed", r.status # "absent", to.pc # "idle" => to.at = a,
         a \notin disturbed' =>
           /\ \A v \in Uploaders : v # u /\ Connected(v) => At(v) # a
           /\ to.pc # "idle" => r.status = "pending"
           /\ to.pc \in {"renamed", "put"} => f = to.content
           /\ to.pc = "put" => to.shape = to.content
           /\ r.status = "ready" => f = r.hash /\ r.shape = r.hash
           /\ row[a].status = "ready" => r.status = "ready" /\ r.hash = row[a].hash
  PROVE  UploadInv'
<1>1. /\ upload \in [Uploaders -> Upload] /\ file \in [Attachments -> Maybe]
      /\ row \in [Attachments -> Row]
  BY DEF UploadInv, AttachmentTypeOK
<1>2. /\ \A v \in Uploaders : upload'[v] = IF v = u THEN to ELSE upload[v]
      /\ \A b \in Attachments : file'[b] = IF b = a THEN f ELSE file[b]
      /\ \A b \in Attachments : row'[b] = IF b = a THEN r ELSE row[b]
  BY <1>1
<1>3. AttachmentTypeOK'
  <2>1. /\ upload' \in [Uploaders -> Upload] /\ file' \in [Attachments -> Maybe]
        /\ row' \in [Attachments -> Row]
    BY <1>1
  <2>2. \A b \in Attachments : row'[b].source = "vault" =>
          row'[b].status = "ready" /\ row'[b].hash = NoContent /\ file'[b] = NoContent
    BY <1>2 DEF UploadInv, AttachmentTypeOK
  <2> QED BY <2>1, <2>2 DEF UploadInv, AttachmentTypeOK
<1>4. \A v \in Uploaders : v # u => (Connected(v)' <=> Connected(v)) /\ At(v)' = At(v)
  BY <1>2 DEF Connected, At
<1>5. (Connected(u)' <=> to.pc # "idle") /\ At(u)' = to.at
  BY <1>2 DEF Connected, At
<1>6. OnAttachments'
  <2>1. \A v \in Uploaders : Connected(v)' =>
          At(v)' \in Attachments /\ row'[At(v)'].status # "absent" /\ row'[At(v)'].source = "managed"
    BY <1>2, <1>4, <1>5 DEF UploadInv, OnAttachments
  <2> QED BY <2>1 DEF UploadInv, OnAttachments
<1>7. AbsentIsEmpty'
  BY <1>2 DEF UploadInv, AbsentIsEmpty
<1>8. UploadsAlone'
  BY <1>4, <1>5 DEF UploadInv, UploadsAlone
<1>9. UploadsUndisturbed'
  <2>1. ASSUME NEW v \in Uploaders, Connected(v)', At(v)' \notin disturbed'
        PROVE  /\ row'[At(v)'].status = "pending"
               /\ upload'[v].pc \in {"renamed", "put"} => file'[At(v)'] = upload'[v].content
               /\ upload'[v].pc = "put" => upload'[v].shape = upload'[v].content
    <3>1. CASE v = u
      BY <1>2, <1>5, <2>1, <3>1
    <3>2. CASE v # u
      <4>1. Connected(v) /\ At(v)' = At(v) /\ At(v) # a /\ At(v) \notin disturbed /\ At(v) \in Attachments
        BY <1>4, <2>1, <3>2 DEF UploadInv, OnAttachments
      <4>2. row'[At(v)] = row[At(v)] /\ file'[At(v)] = file[At(v)] /\ upload'[v] = upload[v]
        BY <1>2, <3>2, <4>1
      <4> QED BY <4>1, <4>2 DEF UploadInv, UploadsUndisturbed
    <3> QED BY <3>1, <3>2
  <2> QED BY <2>1 DEF UploadsUndisturbed
<1>10. InStep'
  BY <1>2 DEF UploadInv, InStep, Managed
<1>11. ReadersInStep'
  <2>1. ASSUME NEW q \in Readers, reader[q].pc # "idle", reader[q].at \notin disturbed'
        PROVE  /\ Managed(reader[q].at)' /\ reader[q].row.hash = row'[reader[q].at].hash
               /\ reader[q].pc \in {"served", "failed"} => reader[q].got = reader[q].row.hash
    <3>1. /\ reader[q].at \in Attachments
          /\ Managed(reader[q].at) /\ reader[q].row.hash = row[reader[q].at].hash
          /\ reader[q].pc \in {"served", "failed"} => reader[q].got = reader[q].row.hash
      BY <2>1 DEF UploadInv, OnAttachments, ReadersInStep
    <3> QED BY <1>2, <2>1, <3>1 DEF Managed
  <2> QED BY <2>1 DEF ReadersInStep
<1> QED BY <1>3, <1>6, <1>7, <1>8, <1>9, <1>10, <1>11 DEF UploadInv

LEMMA UploadStepKeepsInv ==
  ASSUME UploadInv, NEW u \in Uploaders, UploadStep(u)
  PROVE  UploadInv'
<1>1. /\ upload \in [Uploaders -> Upload] /\ file \in [Attachments -> Maybe]
      /\ row \in [Attachments -> Row] /\ disturbed \subseteq Attachments
  BY DEF UploadInv, AttachmentTypeOK
<1>2. PICK p \in Upload : p = upload[u]
  BY <1>1
<1>3. NoUpload \in Upload /\ NoUpload.pc = "idle"
  BY DEF NoUpload, Upload, Maybe
<1>4. At(u) = p.at /\ (Connected(u) <=> p.pc # "idle")
  BY <1>2 DEF At, Connected
<1>5. CASE StartUpload(u)
  <2>1. PICK a \in Attachments, c \in Contents :
          /\ Visible(a) /\ row[a].source = "managed" /\ row[a].status = "pending"
          /\ upload' = [upload EXCEPT ![u] = [NoUpload EXCEPT !.pc = "streaming", !.at = a, !.content = c]]
          /\ IF \E v \in Uploaders : At(v) = a THEN Disturb(a) ELSE UNCHANGED disturbed
    BY <1>5 DEF StartUpload
  <2>2. PICK to : to = [NoUpload EXCEPT !.pc = "streaming", !.at = a, !.content = c]
    OBVIOUS
  <2>3. to \in Upload /\ to.pc = "streaming" /\ to.at = a
    BY <2>2 DEF NoUpload, Upload, Maybe
  <2>4. /\ upload' = [upload EXCEPT ![u] = to]
        /\ file' = [file EXCEPT ![a] = file[a]] /\ row' = [row EXCEPT ![a] = row[a]]
        /\ UNCHANGED <<reader, deleter, writer, referenced>>
    BY <1>1, <1>5, <2>1, <2>2 DEF StartUpload, Others
  <2>5. /\ disturbed' \subseteq Attachments /\ disturbed \subseteq disturbed'
        /\ a \notin disturbed' => \A v \in Uploaders : At(v) # a
    BY <1>1, <2>1 DEF Disturb
  <2>6. row[a] \in Row /\ file[a] \in Maybe
    BY <1>1
  <2>7. a \notin disturbed' =>
          /\ \A v \in Uploaders : v # u /\ Connected(v) => At(v) # a
          /\ row[a].status = "pending"
    BY <2>1, <2>5
  <2>8. row[a].source = "managed" /\ row[a].status = "pending" /\ row[a].status # "absent"
    BY <2>1
  <2> QED BY <2>3, <2>4, <2>5, <2>6, <2>7, <2>8, UploadKeepsInv
<1>6. SUFFICES ASSUME Rename(u) \/ Inspect(u) \/ Refuse(u) \/ MarkReady(u) \/ RemoveFile(u) \/ Abort(u)
               PROVE  UploadInv'
  BY <1>5 DEF UploadStep
<1>7. p.pc # "idle"
  BY <1>2, <1>6 DEF Rename, Inspect, Refuse, MarkReady, RemoveFile, Abort
<1>8. PICK a \in Attachments : a = p.at
  BY <1>4, <1>7 DEF UploadInv, OnAttachments
<1>9. row[a] \in Row /\ file[a] \in Maybe /\ row[a].source = "managed" /\ row[a].status # "absent"
  BY <1>1, <1>4, <1>7, <1>8 DEF UploadInv, OnAttachments
<1>10. file = [file EXCEPT ![a] = file[a]] /\ row = [row EXCEPT ![a] = row[a]]
  BY <1>1
<1>11. a \notin disturbed =>
         /\ \A v \in Uploaders : v # u /\ Connected(v) => At(v) # a
         /\ row[a].status = "pending"
         /\ p.pc \in {"renamed", "put"} => file[a] = p.content
         /\ p.pc = "put" => p.shape = p.content
  BY <1>2, <1>4, <1>7, <1>8 DEF UploadInv, UploadsAlone, UploadsUndisturbed
\* The row stays as it is, and so does what is known of disturbances.
<1>12. ASSUME NEW to \in Upload, NEW f \in Maybe, upload' = [upload EXCEPT ![u] = to],
              file' = [file EXCEPT ![a] = f], UNCHANGED row, OnlyUpload,
              to.pc # "idle" => to.at = a,
              a \notin disturbed =>
                /\ to.pc \in {"renamed", "put"} => f = to.content
                /\ to.pc = "put" => to.shape = to.content
       PROVE  UploadInv'
  <2>1. /\ row' = [row EXCEPT ![a] = row[a]] /\ UNCHANGED <<reader, deleter, writer, referenced>>
        /\ disturbed' = disturbed
    BY <1>10, <1>12 DEF OnlyUpload, Others
  <2> QED BY <1>1, <1>9, <1>11, <1>12, <2>1, UploadKeepsInv
<1>13. CASE Rename(u)
  <2>1. PICK to : to = [p EXCEPT !.pc = "renamed"]
    OBVIOUS
  <2>2. to \in Upload /\ to.pc = "renamed" /\ to.at = a /\ to.content = p.content
    BY <1>8, <2>1 DEF Upload
  <2>3. /\ upload' = [upload EXCEPT ![u] = to] /\ file' = [file EXCEPT ![a] = p.content]
        /\ UNCHANGED row /\ OnlyUpload
    BY <1>2, <1>4, <1>8, <1>13, <2>1 DEF Rename
  <2>4. p.content \in Maybe
    BY DEF Upload
  <2> QED BY <1>12, <2>2, <2>3, <2>4
<1>14. CASE Inspect(u)
  <2>1. p.pc = "renamed" /\ UNCHANGED row /\ OnlyUpload
    BY <1>2, <1>14 DEF Inspect
  <2>2. CASE /\ file' = [file EXCEPT ![At(u)] = NoContent]
             /\ upload' = [upload EXCEPT ![u] = NoUpload]
    <3>1. NoContent \in Maybe /\ file' = [file EXCEPT ![a] = NoContent]
      BY <1>4, <1>8, <2>2 DEF Maybe
    <3> QED BY <1>3, <1>12, <2>1, <2>2, <3>1
  <2>3. CASE /\ upload' = [upload EXCEPT ![u] = [upload[u] EXCEPT !.pc = "put", !.shape = file[At(u)]]]
             /\ UNCHANGED file
    <3>1. PICK to : to = [p EXCEPT !.pc = "put", !.shape = file[a]]
      OBVIOUS
    <3>2. to \in Upload /\ to.pc = "put" /\ to.at = a /\ to.content = p.content /\ to.shape = file[a]
      BY <1>8, <1>9, <3>1 DEF Upload
    <3>3. upload' = [upload EXCEPT ![u] = to] /\ file' = [file EXCEPT ![a] = file[a]]
      BY <1>2, <1>4, <1>8, <1>10, <2>3, <3>1
    <3> QED BY <1>9, <1>11, <1>12, <2>1, <3>2, <3>3
  <2> QED BY <1>14, <2>2, <2>3 DEF Inspect
<1>15. ASSUME Repair(u)
       PROVE  \E to \in Upload : /\ upload' = [upload EXCEPT ![u] = to]
                                 /\ to.pc = "remove" /\ to.at = a
  <2>1. PICK to : to = [p EXCEPT !.pc = "remove"]
    OBVIOUS
  <2>2. to \in Upload /\ to.pc = "remove" /\ to.at = a
    BY <1>8, <2>1 DEF Upload
  <2>3. upload' = [upload EXCEPT ![u] = to]
    BY <1>2, <1>15, <2>1 DEF Repair
  <2> QED BY <2>2, <2>3
<1>16. CASE Refuse(u)
  <2>1. PICK to \in Upload : upload' = [upload EXCEPT ![u] = to] /\ to.pc = "remove" /\ to.at = a
    BY <1>15, <1>16 DEF Refuse
  <2>2. file' = [file EXCEPT ![a] = file[a]] /\ UNCHANGED row /\ OnlyUpload
    BY <1>10, <1>16 DEF Refuse
  <2> QED BY <1>9, <1>12, <2>1, <2>2
<1>17. CASE MarkReady(u)
  <2>1. p.pc = "put" /\ UNCHANGED file /\ Others
    BY <1>2, <1>17 DEF MarkReady
  <2>2. file' = [file EXCEPT ![a] = file[a]] /\ UNCHANGED <<reader, deleter, writer, referenced>>
    BY <1>10, <2>1 DEF Others
  <2>3. CASE row[a].status = "pending" /\ row' = MarkedReady(u)
    <3>0. PICK q \in Row : q = row[a] /\ q.source = "managed"
      BY <1>9
    <3>1. PICK r : r = [q EXCEPT !.status = "ready", !.hash = p.content, !.shape = p.shape,
                                 !.rev = q.rev + 1]
      OBVIOUS
    <3>2. /\ r \in Row /\ r.status = "ready" /\ r.hash = p.content /\ r.shape = p.shape
          /\ r.source = "managed"
      <4>1. /\ q.rev + 1 \in Nat /\ q.deleted \in BOOLEAN /\ p.content \in Maybe /\ p.shape \in Maybe
        BY <3>0 DEF Row, Upload
      <4>2. r = [status |-> "ready", source |-> q.source, hash |-> p.content, shape |-> p.shape,
                 rev |-> q.rev + 1, deleted |-> q.deleted]
        BY <3>0, <3>1 DEF Row
      <4> QED BY <3>0, <4>1, <4>2 DEF Row
    <3>3. row' = [row EXCEPT ![a] = r]
      <4>1. At(u) = a /\ upload[u] = p
        BY <1>2, <1>4, <1>8
      <4>2. MarkedReady(u) = [row EXCEPT ![a] = [row[a] EXCEPT !.status = "ready", !.hash = p.content,
                                             !.shape = p.shape, !.rev = row[a].rev + 1]]
        BY <4>1 DEF MarkedReady
      <4>3. r = [row[a] EXCEPT !.status = "ready", !.hash = p.content,
                               !.shape = p.shape, !.rev = row[a].rev + 1]
        BY <3>0, <3>1
      <4> QED BY <2>3, <4>2, <4>3
    <3>4. ASSUME NEW to \in Upload, upload' = [upload EXCEPT ![u] = to], to.pc \in {"idle", "remove"},
                 to.pc # "idle" => to.at = a /\ a \in disturbed',
                 disturbed \subseteq disturbed', disturbed' \subseteq Attachments
          PROVE  UploadInv'
      <4>1. a \notin disturbed' =>
              /\ \A v \in Uploaders : v # u /\ Connected(v) => At(v) # a
              /\ file[a] = r.hash /\ r.shape = r.hash /\ row[a].status = "pending"
              /\ to.pc = "idle"
        BY <1>11, <2>1, <3>2, <3>4
      <4> QED BY <1>9, <2>2, <3>2, <3>3, <3>4, <4>1, UploadKeepsInv
    <3>5. CASE upload' = [upload EXCEPT ![u] = NoUpload] /\ UNCHANGED disturbed
      BY <1>1, <1>3, <3>4, <3>5
    <3>6. CASE Repair(u) /\ Disturb(At(u))
      <4>1. PICK to \in Upload : upload' = [upload EXCEPT ![u] = to] /\ to.pc = "remove" /\ to.at = a
        BY <1>15, <3>6
      <4>2. a \in disturbed' /\ disturbed \subseteq disturbed' /\ disturbed' \subseteq Attachments
        BY <1>1, <1>4, <1>8, <3>6 DEF Disturb
      <4> QED BY <3>4, <4>1, <4>2
    <3>7. CASE UNCHANGED <<row, disturbed>> /\ Repair(u)
      <4>1. PICK to \in Upload : upload' = [upload EXCEPT ![u] = to] /\ to.pc = "remove" /\ to.at = a
        BY <1>15, <3>7
      <4> QED BY <1>9, <1>12, <2>1, <2>2, <3>7, <4>1 DEF OnlyUpload
    <3> QED BY <1>17, <3>5, <3>6, <3>7 DEF MarkReady
  <2>4. CASE UNCHANGED <<row, disturbed>> /\ Repair(u)
    <3>1. PICK to \in Upload : upload' = [upload EXCEPT ![u] = to] /\ to.pc = "remove" /\ to.at = a
      BY <1>15, <2>4
    <3> QED BY <1>9, <1>12, <2>1, <2>2, <2>4, <3>1 DEF OnlyUpload
  <2> QED BY <1>4, <1>8, <1>17, <2>3, <2>4 DEF MarkReady
<1>18. CASE RemoveFile(u)
  <2>1. /\ upload' = [upload EXCEPT ![u] = NoUpload] /\ UNCHANGED row /\ OnlyUpload
        /\ file' = [file EXCEPT ![a] = file[a]] \/ file' = [file EXCEPT ![a] = NoContent]
    BY <1>4, <1>8, <1>10, <1>18 DEF RemoveFile
  <2>2. NoContent \in Maybe
    BY DEF Maybe
  <2> QED BY <1>3, <1>9, <1>12, <2>1, <2>2
<1>19. CASE Abort(u)
  <2>1. /\ upload' = [upload EXCEPT ![u] = NoUpload] /\ UNCHANGED row /\ OnlyUpload
        /\ file' = [file EXCEPT ![a] = file[a]]
    BY <1>10, <1>19 DEF Abort
  <2> QED BY <1>3, <1>9, <1>12, <2>1
<1> QED BY <1>6, <1>13, <1>14, <1>16, <1>17, <1>18, <1>19

(***************************************************************************)
(* The other connections.                                                  *)
(***************************************************************************)

\* A step that leaves uploads, files and what is disturbed, and that keeps of every row
\* whether it exists, where its file is and what it describes.
LEMMA RowsDescribeTheSame ==
  ASSUME UploadInv, UNCHANGED <<file, upload, disturbed>>,
         row' \in [Attachments -> Row], referenced' \subseteq Attachments,
         \A a \in Attachments :
           /\ row'[a].status = row[a].status /\ row'[a].source = row[a].source
           /\ row'[a].hash = row[a].hash /\ row'[a].shape = row[a].shape,
         reader' \in [Readers -> Reading({"idle", "found", "served", "failed"})],
         deleter' \in [Deleters -> Reading({"idle", "found"})],
         writer' \in [Writers -> Reading({"idle", "checked"})],
         \A d \in Deleters : deleter'[d].pc # "idle" => deleter'[d].at \in Attachments,
         \A w \in Writers : writer'[w].pc # "idle" => writer'[w].at \in Attachments,
         \A r \in Readers : reader'[r].pc # "idle" =>
           /\ reader'[r].at \in Attachments
           /\ reader'[r].at \notin disturbed =>
                /\ Managed(reader'[r].at) /\ reader'[r].row.hash = row[reader'[r].at].hash
                /\ reader'[r].pc \in {"served", "failed"} => reader'[r].got = reader'[r].row.hash
  PROVE  UploadInv'
<1>1. AttachmentTypeOK'
  BY DEF UploadInv, AttachmentTypeOK
<1>2. \A u \in Uploaders : (Connected(u)' <=> Connected(u)) /\ At(u)' = At(u)
  BY DEF Connected, At
<1>3. OnAttachments'
  BY <1>2 DEF UploadInv, OnAttachments
<1>4. AbsentIsEmpty'
  BY DEF UploadInv, AbsentIsEmpty
<1>5. UploadsAlone'
  BY <1>2 DEF UploadInv, UploadsAlone
<1>6. UploadsUndisturbed'
  BY <1>2 DEF UploadInv, UploadsUndisturbed, OnAttachments
<1>7. InStep'
  BY DEF UploadInv, InStep, Managed
<1>8. ReadersInStep'
  BY DEF ReadersInStep, Managed
<1> QED BY <1>1, <1>3, <1>4, <1>5, <1>6, <1>7, <1>8 DEF UploadInv

LEMMA InitializeKeepsInv ==
  ASSUME UploadInv, NEW a \in Attachments, Initialize(a)
  PROVE  UploadInv'
<1>1. /\ row \in [Attachments -> Row] /\ file \in [Attachments -> Maybe]
      /\ row[a] = NoRow /\ UNCHANGED <<file, upload, reader, deleter, writer, referenced, disturbed>>
  BY DEF UploadInv, AttachmentTypeOK, Initialize
<1>2. NoRow.status = "absent" /\ NoRow.hash = NoContent
  BY DEF NoRow
<1>3. PICK r \in Row : /\ row' = [row EXCEPT ![a] = r] /\ r.hash = NoContent
                       /\ \/ r.status = "pending" /\ r.source = "managed"
                          \/ r.status = "ready" /\ r.source = "vault"
  <2>1. PICK m : m = [NoRow EXCEPT !.status = "pending", !.rev = 1]
    OBVIOUS
  <2>2. m \in Row /\ m.hash = NoContent /\ m.status = "pending" /\ m.source = "managed"
    BY <2>1 DEF NoRow, Row, Maybe
  <2>3. PICK v : v = [NoRow EXCEPT !.status = "ready", !.source = "vault", !.rev = 1]
    OBVIOUS
  <2>4. v \in Row /\ v.hash = NoContent /\ v.status = "ready" /\ v.source = "vault"
    BY <2>3 DEF NoRow, Row, Maybe
  <2>5. row' = [row EXCEPT ![a] = m] \/ row' = [row EXCEPT ![a] = v]
    BY <2>1, <2>3 DEF Initialize
  <2> QED BY <2>2, <2>4, <2>5
<1>4. /\ row' \in [Attachments -> Row]
      /\ \A b \in Attachments : row'[b] = IF b = a THEN r ELSE row[b]
  BY <1>1, <1>3
<1>5. file[a] = NoContent
  BY <1>1, <1>2 DEF UploadInv, AbsentIsEmpty
<1>6. \A u \in Uploaders : Connected(u) => At(u) # a /\ At(u) \in Attachments
  BY <1>1, <1>2 DEF UploadInv, OnAttachments
<1>7. \A q \in Readers : reader[q].pc # "idle" /\ reader[q].at \notin disturbed =>
        reader[q].at # a /\ reader[q].at \in Attachments
  BY <1>1, <1>2 DEF UploadInv, OnAttachments, ReadersInStep, Managed
<1>8. AttachmentTypeOK'
  BY <1>1, <1>3, <1>4, <1>5 DEF UploadInv, AttachmentTypeOK
<1>9. \A u \in Uploaders : (Connected(u)' <=> Connected(u)) /\ At(u)' = At(u)
  BY <1>1 DEF Connected, At
<1>10. OnAttachments'
  BY <1>1, <1>4, <1>6, <1>9 DEF UploadInv, OnAttachments
<1>11. AbsentIsEmpty'
  BY <1>1, <1>4, <1>5 DEF UploadInv, AbsentIsEmpty
<1>12. UploadsAlone'
  BY <1>1, <1>9 DEF UploadInv, UploadsAlone
<1>13. UploadsUndisturbed'
  BY <1>1, <1>4, <1>6, <1>9 DEF UploadInv, UploadsUndisturbed
<1>14. InStep'
  BY <1>1, <1>3, <1>4 DEF UploadInv, InStep, Managed
<1>15. ReadersInStep'
  BY <1>1, <1>4, <1>7 DEF UploadInv, ReadersInStep, Managed
<1> QED BY <1>8, <1>10, <1>11, <1>12, <1>13, <1>14, <1>15 DEF UploadInv

LEMMA ReaderKeepsInv ==
  ASSUME UploadInv, NEW r \in Readers, Find(r) \/ ServeFile(r) \/ Leave(r)
  PROVE  UploadInv'
<1>1. /\ row \in [Attachments -> Row] /\ file \in [Attachments -> Maybe]
      /\ reader \in [Readers -> Reading({"idle", "found", "served", "failed"})]
  BY DEF UploadInv, AttachmentTypeOK
<1>2. UNCHANGED <<row, file, upload, deleter, writer, referenced, disturbed>>
  BY DEF Find, ServeFile, Leave
<1>3. PICK q \in Reading({"idle", "found", "served", "failed"}) : q = reader[r]
  BY <1>1
<1>4. ASSUME NEW to \in Reading({"idle", "found", "served", "failed"}),
             reader' = [reader EXCEPT ![r] = to],
             to.pc # "idle" =>
               /\ to.at \in Attachments
               /\ to.at \notin disturbed =>
                    /\ Managed(to.at) /\ to.row.hash = row[to.at].hash
                    /\ to.pc \in {"served", "failed"} => to.got = to.row.hash
      PROVE  UploadInv'
  <2>1. /\ reader' \in [Readers -> Reading({"idle", "found", "served", "failed"})]
        /\ \A p \in Readers : reader'[p] = IF p = r THEN to ELSE reader[p]
    BY <1>1, <1>4
  <2>2. \A p \in Readers : reader'[p].pc # "idle" =>
          /\ reader'[p].at \in Attachments
          /\ reader'[p].at \notin disturbed =>
               /\ Managed(reader'[p].at) /\ reader'[p].row.hash = row[reader'[p].at].hash
               /\ reader'[p].pc \in {"served", "failed"} => reader'[p].got = reader'[p].row.hash
    BY <1>4, <2>1 DEF UploadInv, OnAttachments, ReadersInStep
  <2>3. /\ referenced' \subseteq Attachments /\ row' \in [Attachments -> Row]
        /\ deleter' \in [Deleters -> Reading({"idle", "found"})]
        /\ writer' \in [Writers -> Reading({"idle", "checked"})]
    BY <1>2 DEF UploadInv, AttachmentTypeOK
  <2>4. /\ \A d \in Deleters : deleter'[d].pc # "idle" => deleter'[d].at \in Attachments
        /\ \A w \in Writers : writer'[w].pc # "idle" => writer'[w].at \in Attachments
    BY <1>2 DEF UploadInv, OnAttachments
  <2> QED BY <1>2, <2>1, <2>2, <2>3, <2>4, RowsDescribeTheSame
<1>5. CASE Find(r)
  <2>1. PICK a \in Attachments :
          /\ row[a].source = "managed" /\ row[a].status = "ready"
          /\ reader' = [reader EXCEPT ![r] = [Idle EXCEPT !.pc = "found", !.at = a, !.row = row[a]]]
    BY <1>5 DEF Find
  <2>2. PICK to : to = [Idle EXCEPT !.pc = "found", !.at = a, !.row = row[a]]
    OBVIOUS
  <2>3. row[a] \in Row
    BY <1>1
  <2>4. /\ to \in Reading({"idle", "found", "served", "failed"})
        /\ to.pc = "found" /\ to.at = a /\ to.row = row[a]
    BY <2>2, <2>3 DEF Idle, Reading, Maybe
  <2> QED BY <1>4, <2>1, <2>2, <2>4 DEF Managed
<1>6. CASE ServeFile(r)
  <2>1. /\ q.pc = "found"
        /\ reader' = [reader EXCEPT ![r] =
             [reader[r] EXCEPT !.pc = IF file[reader[r].at] = NoContent THEN "failed" ELSE "served",
                               !.got = file[reader[r].at]]]
    BY <1>3, <1>6 DEF ServeFile
  <2>2. PICK to : to = [q EXCEPT !.pc = IF file[q.at] = NoContent THEN "failed" ELSE "served",
                                 !.got = file[q.at]]
    OBVIOUS
  <2>3. q.at \in Attachments /\ file[q.at] \in Maybe
    BY <1>1, <1>3, <2>1 DEF UploadInv, OnAttachments
  <2>4. /\ to \in Reading({"idle", "found", "served", "failed"})
        /\ to.at = q.at /\ to.row = q.row /\ to.got = file[q.at]
    BY <2>2, <2>3 DEF Reading
  <2>5. q.at \notin disturbed =>
          Managed(q.at) /\ q.row.hash = row[q.at].hash /\ file[q.at] = q.row.hash
    BY <1>3, <2>1, <2>3 DEF UploadInv, ReadersInStep, InStep
  <2>6. reader' = [reader EXCEPT ![r] = to]
    BY <1>3, <2>1, <2>2
  <2> QED BY <1>4, <2>3, <2>4, <2>5, <2>6
<1>7. CASE Leave(r)
  <2>1. Idle \in Reading({"idle", "found", "served", "failed"}) /\ Idle.pc = "idle"
    BY DEF Idle, Reading, NoRow, Row, Maybe
  <2> QED BY <1>4, <1>7, <2>1 DEF Leave
<1> QED BY <1>5, <1>6, <1>7

\* A step that leaves the downloads alone, too.
LEMMA ClientsKeepInv ==
  ASSUME UploadInv, UNCHANGED <<file, upload, reader, disturbed>>,
         row' \in [Attachments -> Row], referenced' \subseteq Attachments,
         \A a \in Attachments :
           /\ row'[a].status = row[a].status /\ row'[a].source = row[a].source
           /\ row'[a].hash = row[a].hash /\ row'[a].shape = row[a].shape,
         deleter' \in [Deleters -> Reading({"idle", "found"})],
         writer' \in [Writers -> Reading({"idle", "checked"})],
         \A d \in Deleters : deleter'[d].pc # "idle" => deleter'[d].at \in Attachments,
         \A w \in Writers : writer'[w].pc # "idle" => writer'[w].at \in Attachments
  PROVE  UploadInv'
<1>1. reader' \in [Readers -> Reading({"idle", "found", "served", "failed"})]
  BY DEF UploadInv, AttachmentTypeOK
<1>2. \A r \in Readers : reader'[r].pc # "idle" =>
        /\ reader'[r].at \in Attachments
        /\ reader'[r].at \notin disturbed =>
             /\ Managed(reader'[r].at) /\ reader'[r].row.hash = row[reader'[r].at].hash
             /\ reader'[r].pc \in {"served", "failed"} => reader'[r].got = reader'[r].row.hash
  BY DEF UploadInv, OnAttachments, ReadersInStep
<1>3. UNCHANGED <<file, upload, disturbed>>
  OBVIOUS
<1> QED BY <1>1, <1>2, <1>3, RowsDescribeTheSame

LEMMA DeleterKeepsInv ==
  ASSUME UploadInv, NEW d \in Deleters, Look(d) \/ Delete(d)
  PROVE  UploadInv'
<1>1. /\ row \in [Attachments -> Row] /\ deleter \in [Deleters -> Reading({"idle", "found"})]
      /\ writer \in [Writers -> Reading({"idle", "checked"})] /\ referenced \subseteq Attachments
  BY DEF UploadInv, AttachmentTypeOK
<1>2. UNCHANGED <<file, upload, reader, writer, referenced, disturbed>>
  BY DEF Look, Delete
<1>3. ASSUME NEW to \in Reading({"idle", "found"}), deleter' = [deleter EXCEPT ![d] = to],
             to.pc # "idle" => to.at \in Attachments,
             row' \in [Attachments -> Row],
             \A a \in Attachments :
               /\ row'[a].status = row[a].status /\ row'[a].source = row[a].source
               /\ row'[a].hash = row[a].hash /\ row'[a].shape = row[a].shape
      PROVE  UploadInv'
  <2>1. /\ deleter' \in [Deleters -> Reading({"idle", "found"})]
        /\ \A c \in Deleters : deleter'[c] = IF c = d THEN to ELSE deleter[c]
    BY <1>1, <1>3
  <2>2. \A c \in Deleters : deleter'[c].pc # "idle" => deleter'[c].at \in Attachments
    BY <1>3, <2>1 DEF UploadInv, OnAttachments
  <2>3. \A w \in Writers : writer'[w].pc # "idle" => writer'[w].at \in Attachments
    BY <1>2 DEF UploadInv, OnAttachments
  <2>4. writer' \in [Writers -> Reading({"idle", "checked"})] /\ referenced' \subseteq Attachments
    BY <1>1, <1>2
  <2>5. UNCHANGED <<file, upload, reader, disturbed>>
    BY <1>2
  <2> QED BY <1>3, <2>1, <2>2, <2>3, <2>4, <2>5, ClientsKeepInv
<1>4. CASE Look(d)
  <2>1. PICK a \in Attachments :
          deleter' = [deleter EXCEPT ![d] = [Idle EXCEPT !.pc = "found", !.at = a, !.row = row[a]]]
    BY <1>4 DEF Look
  <2>2. PICK to : to = [Idle EXCEPT !.pc = "found", !.at = a, !.row = row[a]]
    OBVIOUS
  <2>3. row[a] \in Row
    BY <1>1
  <2>4. to \in Reading({"idle", "found"}) /\ to.at = a
    BY <2>2, <2>3 DEF Idle, Reading, Maybe
  <2>5. row' = row
    BY <1>4 DEF Look
  <2> QED BY <1>1, <1>3, <2>1, <2>2, <2>4, <2>5
<1>5. CASE Delete(d)
  <2>1. PICK a \in Attachments : a = deleter[d].at
    BY <1>5 DEF Delete, UploadInv, OnAttachments
  <2>2. PICK q \in Row : q = row[a]
    BY <1>1
  <2>3. PICK r : r = [q EXCEPT !.deleted = TRUE, !.rev = q.rev + 1]
    OBVIOUS
  <2>4. /\ r \in Row /\ r.status = q.status /\ r.source = q.source /\ r.hash = q.hash
        /\ r.shape = q.shape
    <3>1. q.rev + 1 \in Nat
      BY DEF Row
    <3>2. r = [status |-> q.status, source |-> q.source, hash |-> q.hash, shape |-> q.shape,
               rev |-> q.rev + 1, deleted |-> TRUE]
      BY <2>3 DEF Row
    <3> QED BY <3>1, <3>2 DEF Row
  <2>5. row' = [row EXCEPT ![a] = r] /\ deleter' = [deleter EXCEPT ![d] = Idle]
    BY <1>5, <2>1, <2>2, <2>3 DEF Delete
  <2>6. /\ row' \in [Attachments -> Row]
        /\ \A b \in Attachments : row'[b] = IF b = a THEN r ELSE row[b]
    BY <1>1, <2>4, <2>5
  <2>7. Idle \in Reading({"idle", "found"}) /\ Idle.pc = "idle"
    BY DEF Idle, Reading, NoRow, Row, Maybe
  <2> QED BY <1>3, <2>2, <2>4, <2>5, <2>6, <2>7
<1> QED BY <1>4, <1>5

LEMMA WriterKeepsInv ==
  ASSUME UploadInv, NEW w \in Writers, CheckReference(w) \/ Refer(w)
  PROVE  UploadInv'
<1>1. /\ row \in [Attachments -> Row] /\ deleter \in [Deleters -> Reading({"idle", "found"})]
      /\ writer \in [Writers -> Reading({"idle", "checked"})] /\ referenced \subseteq Attachments
  BY DEF UploadInv, AttachmentTypeOK
<1>2. UNCHANGED <<row, file, upload, reader, deleter, disturbed>>
  BY DEF CheckReference, Refer
<1>3. ASSUME NEW to \in Reading({"idle", "checked"}), writer' = [writer EXCEPT ![w] = to],
             to.pc # "idle" => to.at \in Attachments, referenced' \subseteq Attachments
      PROVE  UploadInv'
  <2>1. /\ writer' \in [Writers -> Reading({"idle", "checked"})]
        /\ \A x \in Writers : writer'[x] = IF x = w THEN to ELSE writer[x]
    BY <1>1, <1>3
  <2>2. /\ \A x \in Writers : writer'[x].pc # "idle" => writer'[x].at \in Attachments
        /\ \A d \in Deleters : deleter'[d].pc # "idle" => deleter'[d].at \in Attachments
    BY <1>2, <1>3, <2>1 DEF UploadInv, OnAttachments
  <2>3. row' \in [Attachments -> Row] /\ row' = row /\ deleter' \in [Deleters -> Reading({"idle", "found"})]
    BY <1>1, <1>2
  <2>4. UNCHANGED <<file, upload, reader, disturbed>>
    BY <1>2
  <2> QED BY <1>3, <2>1, <2>2, <2>3, <2>4, ClientsKeepInv
<1>4. CASE CheckReference(w)
  <2>1. PICK a \in Attachments :
          writer' = [writer EXCEPT ![w] = [Idle EXCEPT !.pc = "checked", !.at = a, !.row = row[a]]]
    BY <1>4 DEF CheckReference
  <2>2. PICK to : to = [Idle EXCEPT !.pc = "checked", !.at = a, !.row = row[a]]
    OBVIOUS
  <2>3. row[a] \in Row
    BY <1>1
  <2>4. to \in Reading({"idle", "checked"}) /\ to.at = a
    BY <2>2, <2>3 DEF Idle, Reading, Maybe
  <2>5. referenced' = referenced
    BY <1>4 DEF CheckReference
  <2> QED BY <1>1, <1>3, <2>1, <2>2, <2>4, <2>5
<1>5. CASE Refer(w)
  <2>1. writer[w].at \in Attachments
    BY <1>5 DEF Refer, UploadInv, OnAttachments
  <2>2. referenced' \subseteq Attachments /\ writer' = [writer EXCEPT ![w] = Idle]
    BY <1>1, <1>5, <2>1 DEF Refer
  <2>3. Idle \in Reading({"idle", "checked"}) /\ Idle.pc = "idle"
    BY DEF Idle, Reading, NoRow, Row, Maybe
  <2> QED BY <1>3, <2>2, <2>3
<1> QED BY <1>4, <1>5

LEMMA UploadInvHolds == AttachmentSpec => []UploadInv
<1>1. AttachmentInit => UploadInv
  <2> SUFFICES ASSUME AttachmentInit PROVE UploadInv
    OBVIOUS
  <2>1. /\ NoRow \in Row /\ NoRow.status = "absent" /\ NoRow.source = "managed"
    BY DEF NoRow, Row, Maybe
  <2>2. NoUpload \in Upload /\ NoUpload.pc = "idle" /\ NoContent \in Maybe
    BY DEF NoUpload, Upload, Maybe
  <2>3. \A phases : "idle" \in phases => Idle \in Reading(phases)
    BY <2>1 DEF Idle, Reading, Maybe
  <2>4. Idle.pc = "idle"
    BY DEF Idle
  <2>5. AttachmentTypeOK
    BY <2>1, <2>2, <2>3 DEF AttachmentInit, AttachmentTypeOK
  <2>6. \A u \in Uploaders : ~Connected(u)
    BY <2>2 DEF AttachmentInit, Connected
  <2>7. OnAttachments /\ ReadersInStep
    BY <2>4, <2>6 DEF AttachmentInit, OnAttachments, ReadersInStep
  <2>8. AbsentIsEmpty /\ InStep
    BY <2>1 DEF AttachmentInit, AbsentIsEmpty, InStep, Managed
  <2> QED BY <2>5, <2>6, <2>7, <2>8 DEF UploadInv, UploadsAlone, UploadsUndisturbed
<1>2. UploadInv /\ [AttachmentNext]_attachmentVars => UploadInv'
  <2> SUFFICES ASSUME UploadInv, [AttachmentNext]_attachmentVars PROVE UploadInv'
    OBVIOUS
  <2>1. CASE AttachmentNext
    BY <2>1, InitializeKeepsInv, UploadStepKeepsInv, ReaderKeepsInv, DeleterKeepsInv, WriterKeepsInv
       DEF AttachmentNext
  <2>2. CASE UNCHANGED attachmentVars
    BY <2>2 DEF attachmentVars, UploadInv, AttachmentTypeOK, OnAttachments, AbsentIsEmpty, UploadsAlone,
                UploadsUndisturbed, InStep, ReadersInStep, Managed, Connected, At
  <2> QED BY <2>1, <2>2
<1> QED BY <1>1, <1>2, PTL DEF AttachmentSpec

(***************************************************************************)
(* The theorems.                                                           *)
(***************************************************************************)

\* Upload renames the file before MarkReady and removes it on every error, so that an
\* Attachment that no two uploads have worked on at once, and whose COMMIT was not
\* misreported, has the file that its row describes, and serves it.
THEOREM ContentStays == AttachmentSpec => []ContentKept
<1>1. UploadInv => ContentKept
  BY DEF UploadInv, ContentKept, InStep, ReadersInStep, DownloadsTrue
<1> QED BY <1>1, UploadInvHolds, PTL

\* MarkReady looks at the status of the row that it has locked: however many uploads of an
\* Attachment run, one records its hash and dimensions.
THEOREM HashRecordedOnce == AttachmentSpec => RecordedOnce
<1>1. ASSUME UploadInv, [AttachmentNext]_attachmentVars
      PROVE  [\A a \in Attachments : Managed(a) =>
                row'[a].hash = row[a].hash /\ row'[a].shape = row[a].shape
                /\ row'[a].status = "ready"]_row
  <2> SUFFICES ASSUME AttachmentNext, NEW a \in Attachments, Managed(a)
               PROVE  row'[a].hash = row[a].hash /\ row'[a].shape = row[a].shape
                      /\ row'[a].status = "ready"
    BY <1>1 DEF attachmentVars
  <2>1. row \in [Attachments -> Row] /\ row[a].status = "ready" /\ row[a] \in Row
    BY <1>1 DEF UploadInv, AttachmentTypeOK, Managed
  <2>2. CASE row' = row
    BY <2>1, <2>2
  <2>3. CASE \E b \in Attachments : row[b].status # "ready" /\ \E x : row' = [row EXCEPT ![b] = x]
    BY <2>1, <2>3
  <2>4. ASSUME NEW b \in Attachments, Initialize(b)
        PROVE  \E x : row[b].status # "ready" /\ row' = [row EXCEPT ![b] = x]
    BY <2>4 DEF Initialize, NoRow
  <2>5. ASSUME NEW u \in Uploaders, UploadStep(u), row' # row
        PROVE  \E b \in Attachments : row[b].status # "ready" /\ \E x : row' = [row EXCEPT ![b] = x]
    <3>1. MarkReady(u) /\ row[At(u)].status = "pending" /\ row' = MarkedReady(u)
      BY <2>5 DEF UploadStep, StartUpload, Rename, Inspect, Refuse, MarkReady, RemoveFile, Abort
    <3>2. At(u) \in Attachments
      BY <1>1, <3>1 DEF UploadInv, OnAttachments, Connected, MarkReady
    <3> QED BY <3>1, <3>2 DEF MarkedReady
  <2>6. ASSUME NEW d \in Deleters, Delete(d)
        PROVE  row'[a].hash = row[a].hash /\ row'[a].shape = row[a].shape
               /\ row'[a].status = "ready"
    <3>1. PICK b : row' = [row EXCEPT ![b] = [row[b] EXCEPT !.deleted = TRUE, !.rev = row[b].rev + 1]]
      BY <2>6 DEF Delete
    <3>2. CASE a = b
      <4>1. row'[a] = [row[a] EXCEPT !.deleted = TRUE, !.rev = row[a].rev + 1]
        BY <2>1, <3>1, <3>2
      <4>2. PICK q \in Row : q = row[a]
        BY <2>1
      <4>3. row'[a] = [q EXCEPT !.deleted = TRUE, !.rev = q.rev + 1]
        BY <4>1, <4>2
      <4>4. row'[a].hash = q.hash /\ row'[a].shape = q.shape /\ row'[a].status = q.status
        BY <4>3 DEF Row
      <4> QED BY <2>1, <4>2, <4>4
    <3>3. CASE a # b
      BY <2>1, <3>1, <3>3
    <3> QED BY <3>2, <3>3
  <2>7. ASSUME NEW r \in Readers, Find(r) \/ ServeFile(r) \/ Leave(r)
        PROVE  row' = row
    BY <2>7 DEF Find, ServeFile, Leave
  <2>8. ASSUME NEW w \in Writers, CheckReference(w) \/ Refer(w)
        PROVE  row' = row
    BY <2>8 DEF CheckReference, Refer
  <2>9. ASSUME NEW d \in Deleters, Look(d)
        PROVE  row' = row
    BY <2>9 DEF Look
  <2> QED BY <2>2, <2>3, <2>4, <2>5, <2>6, <2>7, <2>8, <2>9 DEF AttachmentNext
<1> QED BY <1>1, UploadInvHolds, PTL DEF AttachmentSpec, RecordedOnce
=============================================================================
