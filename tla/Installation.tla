---------------------------- MODULE Installation ----------------------------
(***************************************************************************)
(* How an empty database becomes one that servers use: the migrations, run *)
(* by any number of processes that may be of different releases, the       *)
(* bootstrap of the one Actor of the Personal mode, the Tokens that        *)
(* operators create and revoke, and the key that signs the cursors of all  *)
(* servers.  Every process may stop between any two of its statements; a   *)
(* transaction is then rolled back.                                        *)
(***************************************************************************)
EXTENDS Naturals, Sequences, FiniteSets, Functions, SequencesExt

CONSTANTS Migrators, Operators, Servers,
          Files,       \* the number of migrations of the newest release
          Checked,     \* the ones that ReadyChecker asks for
          Names,       \* folded names of Tokens
          MaxSecrets,  \* bound: secrets, keys and IDs that are drawn at random
          None

\* How a command of an Operator ends.
Answers ==
  {"complete", "shown", "lost", "serialization", "duplicate", "constraint", "revoked"}

ASSUME InstallationAssumption ==
  /\ Files \in Nat \ {0} /\ MaxSecrets \in Nat
  /\ Files \in Checked /\ Checked \subseteq 1..Files
  /\ None \notin Answers

VARIABLES executed,  \* the migrations whose effects are committed, in the order of the commits
          versions,  \* schema_migrations
          migrator,  \* of every Migrator: its position
          actors,    \* actors
          tokens,    \* auth_tokens
          operator,  \* of every Operator: the command it runs
          shown,     \* the secrets that were printed (history)
          drawn,     \* how many secrets have been drawn
          secretKey, \* server_secrets
          server     \* of every Server: the versions it has seen, and the key it uses

migrationVars == <<executed, versions, migrator>>
authVars == <<actors, tokens, operator, shown>>
serverVars == <<secretKey, server>>
vars == <<migrationVars, authVars, drawn, serverVars>>

(***************************************************************************)
(* Migrations.                                                             *)
(***************************************************************************)

Stopped == [stage |-> "stopped", release |-> 0, at |-> 0]

To(p, stage, at) ==
  migrator' = [migrator EXCEPT ![p] = [stage |-> stage, release |-> migrator[p].release, at |-> at]]

\* ApplyMigrations with the directory of some release: an older one has fewer files.
StartMigrator(p) ==
  /\ migrator[p].stage = "stopped"
  /\ \E release \in 1..Files :
       migrator' = [migrator EXCEPT ![p] = [stage |-> "check", release |-> release, at |-> 1]]
  /\ UNCHANGED <<executed, versions>>

\* Is the version there?  The answer is that of a statement of its own.
CheckVersion(p) ==
  LET q == migrator[p]
  IN /\ q.stage = "check" /\ q.at <= q.release
     /\ IF q.at \in versions THEN To(p, "check", q.at + 1) ELSE To(p, "execute", q.at)
     /\ UNCHANGED <<executed, versions>>

\* The file is executed; where another process executes the same file or has done
\* so, this waits, succeeds or fails, as the statements of the file have it.
ExecuteFile(p) ==
  /\ migrator[p].stage = "execute"
  /\ To(p, "record", migrator[p].at)
  /\ UNCHANGED <<executed, versions>>

\* Mutant: a version that is there already is no error.
VersionIgnored(p) == TRUE

\* The primary key of schema_migrations: a second row of a version waits for the
\* first and is refused after its commit.
VersionIsNew(p) ==
  /\ migrator[p].at \notin versions
  /\ \A q \in Migrators : migrator[q].stage = "commit" => migrator[q].at # migrator[p].at

RecordVersion(p) ==
  /\ migrator[p].stage = "record"
  /\ VersionIsNew(p)
  /\ To(p, "commit", migrator[p].at)
  /\ UNCHANGED <<executed, versions>>

CommitMigration(p) ==
  LET at == migrator[p].at
  IN /\ migrator[p].stage = "commit"
     /\ executed' = Append(executed, at)
     /\ versions' = versions \cup {at}
     /\ To(p, "check", at + 1)

\* The process has applied everything, or ends at an error, a refused row, its
\* deadline or a crash.
StopMigrator(p) ==
  /\ migrator[p].stage # "stopped"
  /\ migrator' = [migrator EXCEPT ![p] = Stopped]
  /\ UNCHANGED <<executed, versions>>

Migrate(p) ==
  \/ StartMigrator(p) \/ CheckVersion(p) \/ ExecuteFile(p) \/ RecordVersion(p)
  \/ CommitMigration(p) \/ StopMigrator(p)

(***************************************************************************)
(* The commands of loomtable-admin.                                        *)
(***************************************************************************)

\* The command that an Operator has in progress; "told" is how its last one ended.
Ready(told) ==
  [stage |-> "ready", name |-> None, secret |-> 0, seen |-> {}, revoking |-> 0, told |-> told]

\* A command that has drawn a secret.
Begun(stage, name, revoking) ==
  [stage |-> stage, name |-> name, secret |-> drawn + 1, seen |-> {}, revoking |-> revoking,
   told |-> None]

Do(o, r) == operator' = [operator EXCEPT ![o] = r]

End(o, told) == Do(o, Ready(told)) /\ UNCHANGED <<actors, tokens, shown, drawn>>

TokenOf(o, actor) ==
  [secret |-> operator[o].secret, actor |-> actor, name |-> operator[o].name, revoked |-> FALSE]

\* The answer of a COMMIT arrives, and the secret is printed, or it is lost.
Printed(o) ==
  \/ shown' = shown \cup {operator[o].secret} /\ Do(o, Ready("shown"))
  \/ UNCHANGED shown /\ Do(o, Ready("lost"))

\* The state is read on its own; a secret is generated when it is "required".  The
\* tables are those of the first migration.
BootstrapState(o, name) ==
  /\ operator[o].stage = "ready" /\ 1 \in versions /\ drawn < MaxSecrets
  /\ IF actors # {} THEN End(o, "complete")
     ELSE /\ Do(o, Begun("bootstrap", name, 0))
          /\ drawn' = drawn + 1
          /\ UNCHANGED <<actors, tokens, shown>>

\* The first statement of the SERIALIZABLE transaction fixes what it sees, and then
\* waits for the advisory lock.
BeginBootstrap(o) ==
  /\ operator[o].stage = "bootstrap"
  /\ Do(o, [operator[o] EXCEPT !.stage = "waiting", !.seen = actors])
  /\ UNCHANGED <<actors, tokens, shown, drawn>>

BootstrapFree == \A o \in Operators : operator[o].stage # "inserted"

BootstrapAuth(o) ==
  /\ operator[o].stage = "waiting" /\ BootstrapFree
  /\ IF operator[o].seen # {} THEN End(o, "complete")
     ELSE /\ Do(o, [operator[o] EXCEPT !.stage = "inserted"])
          /\ UNCHANGED <<actors, tokens, shown, drawn>>

\* Mutant: the transaction is not serializable.
NotSerializable(o) == TRUE

\* An Actor that was committed after the snapshot was taken is an Actor that this
\* transaction should have seen.
Serializable(o) == operator[o].seen = actors

CommitBootstrap(o) ==
  /\ operator[o].stage = "inserted"
  /\ IF Serializable(o)
     THEN /\ actors' = actors \cup {operator[o].secret}
          /\ tokens' = tokens \cup {TokenOf(o, operator[o].secret)}
          /\ Printed(o)
          /\ UNCHANGED drawn
     ELSE End(o, "serialization")

\* CreateAuthToken and RevokeAuthToken find the only Actor before they lock it.
PersonalActor(o, revoking, name) ==
  /\ operator[o].stage = "ready" /\ drawn < MaxSecrets
  /\ Cardinality(actors) = 1
  /\ revoking # 0 => \E t \in tokens : t.secret = revoking
  /\ Do(o, Begun("lock", name, revoking))
  /\ drawn' = IF revoking = 0 THEN drawn + 1 ELSE drawn
  /\ UNCHANGED <<actors, tokens, shown>>

\* Mutant: Tokens are created without the lock on the Actor.
ActorUnlocked == TRUE

ActorFree == \A o \in Operators : operator[o].stage \notin {"locked", "checked"}

lockPersonalActor(o) ==
  /\ operator[o].stage = "lock" /\ ActorFree
  /\ Do(o, [operator[o] EXCEPT !.stage = "locked"])
  /\ UNCHANGED <<actors, tokens, shown, drawn>>

Active(name) == {t \in tokens : t.name = name /\ ~t.revoked}

\* The name is looked up before the row is inserted.
CheckName(o) ==
  /\ operator[o].stage = "locked" /\ operator[o].revoking = 0
  /\ IF Active(operator[o].name) # {} THEN End(o, "duplicate")
     ELSE /\ Do(o, [operator[o] EXCEPT !.stage = "checked"])
          /\ UNCHANGED <<actors, tokens, shown, drawn>>

\* Insert and commit; the index on the names of active Tokens refuses a second one.
CreateAuthToken(o) ==
  /\ operator[o].stage = "checked"
  /\ IF Active(operator[o].name) # {} THEN End(o, "constraint")
     ELSE /\ tokens' = tokens \cup {TokenOf(o, CHOOSE a \in actors : TRUE)}
          /\ Printed(o)
          /\ UNCHANGED <<actors, drawn>>

RevokeAuthToken(o) ==
  /\ operator[o].stage = "locked" /\ operator[o].revoking # 0
  /\ tokens' = {IF t.secret = operator[o].revoking THEN [t EXCEPT !.revoked = TRUE] ELSE t : t \in tokens}
  /\ Do(o, Ready("revoked"))
  /\ UNCHANGED <<actors, shown, drawn>>

\* Mutant: the secret is printed although the COMMIT has failed.
CommitErrorIgnored(o) ==
  /\ operator[o].stage \in {"inserted", "checked"}
  /\ shown' = shown \cup {operator[o].secret} /\ Do(o, Ready("shown"))
  /\ UNCHANGED <<actors, tokens, drawn>>

\* The deadline of the command, a crash, or an error before the COMMIT.
Abandon(o) == operator[o].stage # "ready" /\ End(o, None)

Administer(o) ==
  \/ \E name \in Names : BootstrapState(o, name) \/ PersonalActor(o, 0, name)
  \/ \E t \in tokens : ~t.revoked /\ PersonalActor(o, t.secret, None)
  \/ BeginBootstrap(o) \/ BootstrapAuth(o) \/ CommitBootstrap(o)
  \/ lockPersonalActor(o) \/ CheckName(o) \/ CreateAuthToken(o) \/ RevokeAuthToken(o)
  \/ Abandon(o)

\* The Actor that a request with the Token acts as.
Authenticate(secret) == {t.actor : t \in {u \in tokens : u.secret = secret /\ ~u.revoked}}

(***************************************************************************)
(* Servers.                                                                *)
(***************************************************************************)
Fresh == [seen |-> {}, generated |-> 0, key |-> 0]

\* ReadyChecker asks for one version after the other, each in a statement of its own,
\* and starts again when one is missing.
CheckReady(v) ==
  \E version \in Checked \ server[v].seen :
    /\ \A w \in Checked \ server[v].seen : version <= w
    /\ LET seen == IF version \in versions THEN server[v].seen \cup {version} ELSE {}
       IN  server' = [server EXCEPT ![v] = [@ EXCEPT !.seen = seen]]
    /\ UNCHANGED <<secretKey, drawn>>

IsReady(v) == server[v].seen = Checked

\* A key is generated and inserted unless there is one.
InitializeKey(v) ==
  /\ 1 \in versions /\ server[v].generated = 0 /\ drawn < MaxSecrets
  /\ drawn' = drawn + 1
  /\ secretKey' = IF secretKey = 0 THEN drawn + 1 ELSE secretKey
  /\ server' = [server EXCEPT ![v] = [@ EXCEPT !.generated = drawn + 1]]

\* Mutant: a server uses the key that it has generated.
OwnKey(v) == server[v].generated

StoredKey(v) == secretKey

\* The key is read back, whoever has inserted it.
CursorKey(v) ==
  /\ server[v].generated # 0 /\ server[v].key = 0
  /\ server' = [server EXCEPT ![v] = [@ EXCEPT !.key = StoredKey(v)]]
  /\ UNCHANGED <<secretKey, drawn>>

\* A request ends, or a server is started again: keys are read for each request.
Restart(v) ==
  /\ server[v] # Fresh
  /\ server' = [server EXCEPT ![v] = Fresh]
  /\ UNCHANGED <<secretKey, drawn>>

Serve(v) == CheckReady(v) \/ InitializeKey(v) \/ CursorKey(v) \/ Restart(v)

Init ==
  /\ executed = <<>> /\ versions = {} /\ migrator = [p \in Migrators |-> Stopped]
  /\ actors = {} /\ tokens = {} /\ operator = [o \in Operators |-> Ready(None)] /\ shown = {}
  /\ drawn = 0 /\ secretKey = 0 /\ server = [v \in Servers |-> Fresh]

Next ==
  \/ \E p \in Migrators : Migrate(p) /\ UNCHANGED <<authVars, drawn, serverVars>>
  \/ \E o \in Operators : Administer(o) /\ UNCHANGED <<migrationVars, serverVars>>
  \/ \E v \in Servers : Serve(v) /\ UNCHANGED <<migrationVars, authVars>>

Spec == Init /\ [][Next]_vars

(***************************************************************************)
(* Properties.                                                             *)
(***************************************************************************)

Secrets == 0..MaxSecrets

Migrator == [stage : {"stopped", "check", "execute", "record", "commit"},
             release : 0..Files, at : 0..(Files + 1)]

Token == [secret : Secrets, actor : Secrets, name : Names, revoked : BOOLEAN]

Command == [stage : {"ready", "bootstrap", "waiting", "inserted", "lock", "locked", "checked"},
            name : Names \cup {None}, secret : Secrets, seen : SUBSET Secrets, revoking : Secrets,
            told : Answers \cup {None}]

Server == [seen : SUBSET Checked, generated : Secrets, key : Secrets]

\* Types of the variables: a process is at one of its statements, and whatever is
\* random was drawn.
TypeOK ==
  /\ executed \in Seq(1..Files) /\ versions \subseteq 1..Files
  /\ migrator \in [Migrators -> Migrator]
  /\ actors \subseteq Secrets /\ tokens \subseteq Token /\ shown \subseteq Secrets
  /\ operator \in [Operators -> Command]
  /\ drawn \in Secrets /\ secretKey \in Secrets
  /\ server \in [Servers -> Server]

\* However many processes migrate, of whatever release, and wherever they stop, every
\* migration takes effect once and after the ones before it (ApplyMigrations), so that
\* a server that is ready has all of them, although ReadyChecker asks for a part only.
ReadyIsMigrated ==
  /\ TypeOK
  /\ executed = [i \in 1..Len(executed) |-> i] /\ versions = ToSet(executed)
  /\ \A v \in Servers : IsReady(v) => versions = 1..Files

\* The database never has a second Actor, after which every command fails (BootstrapAuth,
\* personalActor), and one secret at most is printed by a bootstrap.
OneActor ==
  /\ Cardinality(actors) <= 1
  /\ Cardinality({t \in tokens : t.actor = t.secret}) <= 1

\* A secret that was printed lets its holder in, as the one Actor, until it is revoked:
\* none is printed that a failed COMMIT or another Operator has made worthless
\* (Bootstrap, Create in admin.go; Authenticate).
ShownSecretsWork ==
  \A s \in shown :
    \/ Authenticate(s) = actors
    \/ \E t \in tokens : t.secret = s /\ t.revoked

\* Active Tokens have different names, and an Operator whose name is taken is told that
\* it is a duplicate, never that an index refused the row (CreateAuthToken).
NamesUnique ==
  /\ \A t, u \in tokens : t.name = u.name /\ ~t.revoked /\ ~u.revoked => t = u
  /\ \A o \in Operators : operator[o].told # "constraint"

\* All servers sign with the one stored key, so that each accepts the cursors of the
\* others and those from before a restart (CursorKey).
CursorKeyShared ==
  /\ \A v \in Servers : server[v].key \in {0, secretKey}
  /\ \A v \in Servers : server[v].generated # 0 => secretKey # 0
=============================================================================
