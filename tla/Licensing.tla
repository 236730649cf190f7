----------------------------- MODULE Licensing ------------------------------
(***************************************************************************)
(* Signing keys and licences of one server: the table of signing keys and  *)
(* their rotation (internal/service/key_rotation_service.go), the table of *)
(* licences (license_issue.go, license_activate.go, license_service.go),   *)
(* the engine in memory that verifies and holds the licence in force       *)
(* (internal/license/license.go), and the start-up that fills the engine   *)
(* (cmd/api-server/main.go).  A licence key is what was signed and by      *)
(* whom; signatures are perfect: the engine loads a licence when it trusts *)
(* the key that signed it.                                                 *)
(***************************************************************************)
EXTENDS Naturals, Sequences, FiniteSets, FiniteSetsExt

CONSTANTS Keys,      \* key pairs that a rotation may generate
          Config,    \* the key of the vendor, in the configuration
          Rotations, \* requests that rotate
          None,
          MaxRows    \* bound on the rows of the licence table

VARIABLES keys,      \* the table: version (0: no row) and activity per key
          licences,  \* the table, in the order of the primary key
          rotation,  \* per request
          engine,    \* the keys it trusts, the licence it holds, and (history) the
                     \* keys of the table that the server did not read as it started
          privKey,   \* LicensePrivKey
          up,        \* the server runs
          started,   \* it has just started and read its licence: nothing happened since
          skipped    \* history: the deactivation of a rotation failed

LicenceAssumption == None \notin Keys

vars == <<keys, licences, rotation, engine, privKey, up, started, skipped>>

Idle == [pc |-> "idle", key |-> None, version |-> 0]
Stored == {k \in Keys : keys[k].version > 0}
Active == {k \in Stored : keys[k].active}
MaxVersion == Max({keys[k].version : k \in Keys} \union {0})

Init ==
  /\ keys = [k \in Keys |-> [version |-> 0, active |-> FALSE]]
  /\ licences = <<>>
  /\ rotation = [r \in Rotations |-> Idle]
  /\ engine = [trusts |-> {Config}, holds |-> None, missed |-> {}]
  /\ privKey = None
  /\ up = TRUE
  /\ started = FALSE
  /\ skipped = FALSE

Goto(r, pc) == rotation' = [rotation EXCEPT ![r] = [@ EXCEPT !.pc = pc]]
-----------------------------------------------------------------------------
(* RotateLicenseKeys, one statement of the database after the other. *)

GenerateKey(r) ==
  /\ rotation[r].pc = "idle"
  /\ \E k \in Keys \ Stored :
       /\ \A q \in Rotations : rotation[q].key # k
       /\ rotation' = [rotation EXCEPT ![r] =
            [pc |-> "numbered", key |-> k, version |-> MaxVersion + 1]]
  /\ started' = FALSE
  /\ UNCHANGED <<keys, licences, engine, privKey, up, skipped>>

\* An error of the statement is only logged.
DeactivateKeys(r) ==
  /\ rotation[r].pc = "numbered"
  /\ \/ keys' = [k \in Keys |-> [keys[k] EXCEPT !.active = FALSE]] /\ UNCHANGED skipped
     \/ skipped' = TRUE /\ UNCHANGED keys
  /\ Goto(r, "deactivated")
  /\ UNCHANGED <<licences, engine, privKey, up, started>>

\* A plausible bug: nothing keeps two keys from having the same version.
AnyVersion(v) == TRUE

\* The unique index of the table.
NewVersion(v) == \A k \in Stored : keys[k].version # v

\* The second of two rotations that read the same version fails, after it
\* deactivated the key of the first.
StoreKey(r) ==
  /\ rotation[r].pc = "deactivated"
  /\ \/ /\ NewVersion(rotation[r].version)
        /\ keys' = [keys EXCEPT ![rotation[r].key] = [version |-> rotation[r].version, active |-> TRUE]]
        /\ Goto(r, "stored")
     \/ /\ rotation' = [rotation EXCEPT ![r] = Idle]
        /\ UNCHANGED keys
  /\ UNCHANGED <<licences, engine, privKey, up, started, skipped>>

\* A plausible bug: the engine forgets the keys it had.
ReplaceKeys(trusted, k) == {k}

RotatePublicKey(trusted, k) == trusted \union {k}

TrustKey(r) ==
  /\ rotation[r].pc = "stored"
  /\ engine' = [engine EXCEPT !.trusts = RotatePublicKey(@, rotation[r].key)]
  /\ Goto(r, "trusted")
  /\ UNCHANGED <<keys, licences, privKey, up, started, skipped>>

SetPrivKey(r) ==
  /\ rotation[r].pc = "trusted"
  /\ privKey' = rotation[r].key
  /\ rotation' = [rotation EXCEPT ![r] = Idle]
  /\ UNCHANGED <<keys, licences, engine, up, started, skipped>>
-----------------------------------------------------------------------------
(* Licences.  The identifier of what is signed: the number of the row that *)
(* was issued, 0 for the licence of the vendor.                            *)

Row(id, signer, status) == [id |-> id, signer |-> signer, status |-> status]
NoKey == [id |-> None, signer |-> None]
KeyOf(row) == [id |-> row.id, signer |-> row.signer]
Expired == [i \in DOMAIN licences |->
              IF licences[i].status = "active" THEN [licences[i] EXCEPT !.status = "expired"] ELSE licences[i]]
Loads(key) == key.signer \in engine.trusts

\* An issued licence is an active row of the table of its issuer.
IssueLicense ==
  /\ up /\ privKey # None /\ Len(licences) < MaxRows
  /\ licences' = Append(licences, Row(Len(licences) + 1, privKey, "active"))
  /\ started' = FALSE
  /\ UNCHANGED <<keys, rotation, engine, privKey, up, skipped>>

\* The key of the vendor, or one issued here.  The engine has loaded it before
\* its row is refused, as it is when a row has the same key.
ActivateWithKey ==
  \E key \in {[id |-> 0, signer |-> Config]} \union {KeyOf(licences[i]) : i \in DOMAIN licences} :
    /\ up /\ Loads(key) /\ Len(licences) < MaxRows
    /\ engine' = [engine EXCEPT !.holds = key]
    /\ licences' = IF \E i \in DOMAIN licences : KeyOf(licences[i]) = key
                   THEN Expired
                   ELSE Append(Expired, Row(key.id, key.signer, "active"))
    /\ started' = FALSE
    /\ UNCHANGED <<keys, rotation, privKey, up, skipped>>

\* The row is made without a key, of which there may be one; then a key is
\* signed for it, if this server can sign.
ActivateCommunity ==
  LET own == [id |-> Len(licences) + 1, signer |-> privKey]
  IN  /\ up /\ Len(licences) < MaxRows
      /\ IF \E i \in DOMAIN licences : KeyOf(licences[i]) = NoKey
         THEN licences' = Expired /\ UNCHANGED engine
         ELSE IF privKey # None /\ Loads(own)
         THEN /\ licences' = Append(Expired, Row(own.id, own.signer, "active"))
              /\ engine' = [engine EXCEPT !.holds = own]
         ELSE licences' = Append(Expired, Row(None, None, "active")) /\ UNCHANGED engine
      /\ started' = FALSE
      /\ UNCHANGED <<keys, rotation, privKey, up, skipped>>

\* Neither tells the engine.
DeactivateLicense ==
  /\ up
  /\ licences' = Expired
  /\ started' = FALSE
  /\ UNCHANGED <<keys, rotation, engine, privKey, up, skipped>>

RevokeLicense ==
  \E i \in DOMAIN licences :
    /\ up /\ licences[i].status = "active"
    /\ licences' = [licences EXCEPT ![i] = [@ EXCEPT !.status = "revoked"]]
    /\ started' = FALSE
    /\ UNCHANGED <<keys, rotation, engine, privKey, up, skipped>>
-----------------------------------------------------------------------------
Crash ==
  /\ up
  /\ up' = FALSE /\ started' = FALSE
  /\ rotation' = [r \in Rotations |-> Idle]
  /\ engine' = [trusts |-> {}, holds |-> None, missed |-> {}]
  /\ privKey' = None
  /\ UNCHANGED <<keys, licences, skipped>>

ActiveRows == {i \in DOMAIN licences : licences[i].status = "active"}

\* InitLicenseEngine, LoadLicenseFromDB (the first active row, if it has a key
\* and the engine trusts its signer), and only then the keys of the table.  Either
\* read may fail, and the server goes on without the licence or the keys.
Start ==
  \E read \in BOOLEAN, missed \in {{}, Stored} :
    LET row == licences[Min(ActiveRows)]
    IN  /\ ~up
        /\ up' = TRUE /\ started' = read
        /\ engine' = [trusts |-> {Config} \union (Stored \ missed),
                      holds |-> IF read /\ ActiveRows # {} /\ row.signer = Config
                                THEN KeyOf(row) ELSE None,
                      missed |-> missed]
        /\ UNCHANGED <<keys, licences, rotation, privKey, skipped>>

Next ==
  \/ \E r \in Rotations :
       up /\ (GenerateKey(r) \/ DeactivateKeys(r) \/ StoreKey(r) \/ TrustKey(r) \/ SetPrivKey(r))
  \/ IssueLicense \/ ActivateWithKey \/ ActivateCommunity
  \/ DeactivateLicense \/ RevokeLicense
  \/ Crash \/ Start

Spec == Init /\ [][Next]_vars
-----------------------------------------------------------------------------
Signers == Keys \union {Config, None}
LicenceKey == [id : 0..MaxRows \union {None}, signer : Signers]

TypeOK ==
  /\ keys \in [Keys -> [version : 0..Cardinality(Keys), active : BOOLEAN]]
  /\ \A i \in DOMAIN licences : /\ KeyOf(licences[i]) \in LicenceKey
                                /\ licences[i].status \in {"active", "expired", "revoked"}
  /\ rotation \in [Rotations -> [pc : {"idle", "numbered", "deactivated", "stored", "trusted"},
                                 key : Keys \union {None}, version : 0..Cardinality(Keys) + 1]]
  /\ engine.trusts \subseteq Keys \union {Config} /\ engine.missed \subseteq Keys
  /\ engine.holds \in LicenceKey \union {None}
  /\ privKey \in Keys \union {None} /\ up \in BOOLEAN /\ started \in BOOLEAN /\ skipped \in BOOLEAN

\* However rotations overlap, fail and crash, at most one signing key is
\* active, unless the statement that deactivates failed.  The version is what
\* orders them: of two that read the same one only one is stored, and whoever
\* reads a later one deactivates afterwards.
OneKeyActive == Cardinality(Active) <= 1 \/ skipped

\* A running server can verify what it signs, and whatever was signed with a key
\* that it could read or made: the engine trusts the vendor, the private key it
\* signs with, and every key of the table, except one whose rotation is about to
\* tell it and, after a start that could not read the table, those that were in
\* it; and the signer of every licence in the table is the vendor or a key of the
\* table.
KeysTrusted ==
  /\ up => LET telling == {rotation[r].key : r \in Rotations}
           IN  /\ {Config} \union (Stored \ (telling \union engine.missed)) \subseteq engine.trusts
               /\ privKey = None \/ privKey \in engine.trusts
  /\ \A i \in DOMAIN licences : licences[i].signer \in Stored \union {Config, None}

\* What main.go says of the keys it loads, "for key rotation support": a
\* server that has started and could read its first active licence holds it, when
\* the licence was signed by the vendor or by a key of the table.
RestartKeepsLicence ==
  started /\ ActiveRows # {} /\ licences[Min(ActiveRows)].signer \in Stored \union {Config}
    => engine.holds = KeyOf(licences[Min(ActiveRows)])
=============================================================================
