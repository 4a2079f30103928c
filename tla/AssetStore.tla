----------------------------- MODULE AssetStore -----------------------------
(***************************************************************************)
(* Assets (packages/assets): ingestAsset proves what the bytes are, and    *)
(* LocalAssetStore keeps them under their hash with a record per asset and *)
(* hash.  Both are files that are made aside, linked to their place and    *)
(* never changed.  Every file operation is awaited, may fail, and may be   *)
(* the last one of the process; several processes may use one directory.   *)
(*                                                                         *)
(* Bytes stand for their hash, and inspection of their format (with the    *)
(* limits on size) for KindOf.  A death of the process is modelled, a loss *)
(* of what it wrote is not.                                                *)
(***************************************************************************)
EXTENDS Sequences, FiniteSets

CONSTANTS
  AssetCalls,     \* calls of ingestAsset and of read
  KindOf,         \* bytes |-> what inspection proves them to be, or "unknown"
  AssetRequests   \* [id, bytes, claim, alt]: claim is what the MIME type or the file name
                  \* say of the bytes, or "", and alt a text or ""

VARIABLES
  files,          \* path |-> what the file there holds
  assetCalls      \* what each call is doing, and its answer

assetVars == <<files, assetCalls>>

ObjectPath(hash) == <<"objects", hash>>
RegistryPath(id, hash) == <<"registry", id, hash>>
Exists(path) == path \in DOMAIN files

\* The record of a request that is accepted; its manifest has the kind that was proved.
RecordOf(request) ==
  [id |-> request.id, hash |-> request.bytes, kind |-> KindOf[request.bytes], alt |-> request.alt]

Accepted(request) ==
  /\ KindOf[request.bytes] # "unknown"
  /\ request.claim \in {"", KindOf[request.bytes]}
  /\ KindOf[request.bytes] = "image" => request.alt # ""

NoAssetCall == [at |-> "idle"]
AssetInit ==
  /\ files = [path \in {} |-> <<>>]
  /\ assetCalls = [c \in AssetCalls |-> NoAssetCall]

CallGoes(c, call) == assetCalls' = [assetCalls EXCEPT ![c] = call]
MovesTo(c, step) == assetCalls' = [assetCalls EXCEPT ![c].at = step]
Says(c, answer, record) == CallGoes(c, [at |-> "over", answer |-> answer, record |-> record])
Fails(c) == Says(c, "failed", assetCalls[c].record)

(***************************************************************************)
(* put: the object first, then its record, each by publishImmutable.       *)
(***************************************************************************)
\* A call publishes one of its two files: stage is "object" or "registry".
Publishing(c, step) == assetCalls[c].at = step
TargetOf(call) ==
  IF call.stage = "object" THEN ObjectPath(call.record.hash)
  ELSE RegistryPath(call.record.id, call.record.hash)
PayloadOf(call) == IF call.stage = "object" THEN <<call.record.hash>> ELSE <<call.record>>
Published(c) ==
  LET call == assetCalls[c] IN
  IF call.stage = "object" THEN CallGoes(c, [call EXCEPT !.stage = "registry", !.at = "look"])
  ELSE Says(c, "stored", call.record)

IngestAsset(c, request) ==
  /\ assetCalls[c] = NoAssetCall
  /\ IF Accepted(request)
     THEN CallGoes(c, [at |-> "look", stage |-> "object", record |-> RecordOf(request)])
     ELSE Says(c, "refused", NoAssetCall)
  /\ UNCHANGED files

LookForTarget(c) ==
  /\ Publishing(c, "look")
  /\ MovesTo(c, IF Exists(TargetOf(assetCalls[c])) THEN "verify" ELSE "write")
  /\ UNCHANGED files

\* What is there already must be what this call would have put there.
Verified(c) == files[TargetOf(assetCalls[c])] = PayloadOf(assetCalls[c])

VerifyExisting(c) ==
  /\ Publishing(c, "verify")
  /\ IF Verified(c) THEN Published(c) ELSE Fails(c)
  /\ UNCHANGED files

\* The temporary file has a name of its own, that no other call ever looks at.
WriteTemp(c) ==
  /\ Publishing(c, "write") /\ MovesTo(c, "link") /\ UNCHANGED files

\* A bug: the file is moved to its place over the one that came there first.
LinkedOver(c) ==
  /\ MovesTo(c, "unlink")
  /\ files' = [path \in DOMAIN files \cup {TargetOf(assetCalls[c])} |->
                 IF path = TargetOf(assetCalls[c]) THEN PayloadOf(assetCalls[c]) ELSE files[path]]

Linked(c) ==
  LET target == TargetOf(assetCalls[c]) IN
  IF Exists(target) THEN MovesTo(c, "reverify") /\ UNCHANGED files
  ELSE /\ MovesTo(c, "unlink")
       /\ files' = [path \in DOMAIN files \cup {target} |->
                      IF path = target THEN PayloadOf(assetCalls[c]) ELSE files[path]]

LinkTemp(c) == Publishing(c, "link") /\ Linked(c)

\* After another call was first; the temporary file is removed whatever the outcome.
VerifyRaced(c) ==
  /\ Publishing(c, "reverify")
  /\ IF Verified(c) THEN MovesTo(c, "unlink") ELSE MovesTo(c, "unlink_failed")
  /\ UNCHANGED files

UnlinkTemp(c) ==
  /\ \/ Publishing(c, "unlink") /\ Published(c)
     \/ Publishing(c, "unlink_failed") /\ Fails(c)
  /\ UNCHANGED files

\* A file operation fails, or the process dies: what is published stays, and a
\* temporary file may be left behind.
FileOperationFails(c) ==
  /\ assetCalls[c].at \notin {"idle", "over"}
  /\ Fails(c)
  /\ UNCHANGED files

(***************************************************************************)
(* read.                                                                   *)
(***************************************************************************)
ReadRecord(c, id, hash) ==
  LET path == RegistryPath(id, hash) IN
  /\ assetCalls[c] = NoAssetCall
  /\ IF ~Exists(path) THEN Says(c, "not_found", NoAssetCall)
     ELSE IF files[path][1].id # id \/ files[path][1].hash # hash
     THEN Says(c, "corrupt_object", NoAssetCall)
     ELSE CallGoes(c, [at |-> "bytes", record |-> files[path][1]])
  /\ UNCHANGED files

ReadBytes(c) ==
  LET record == assetCalls[c].record
      path == ObjectPath(record.hash) IN
  /\ assetCalls[c].at = "bytes"
  /\ Says(c, IF ~Exists(path) THEN "object_missing"
             ELSE IF files[path] # <<record.hash>> THEN "corrupt_object" ELSE "asset", record)
  /\ UNCHANGED files

AssetNext ==
  \E c \in AssetCalls :
    \/ \E request \in AssetRequests : IngestAsset(c, request)
    \/ LookForTarget(c) \/ VerifyExisting(c) \/ WriteTemp(c) \/ LinkTemp(c)
    \/ VerifyRaced(c) \/ UnlinkTemp(c) \/ FileOperationFails(c)
    \/ \E request \in AssetRequests : ReadRecord(c, request.id, request.bytes)
    \/ ReadBytes(c)

AssetSpec == AssetInit /\ [][AssetNext]_assetVars

(***************************************************************************)
(* Property.                                                               *)
(***************************************************************************)
\* What was stored stays as it was stored, whoever stores the same asset with other
\* words meanwhile and wherever a call stops: the record of every call that was
\* answered, and every record that was read, is still there with the whole of its
\* bytes, and no reader ever finds a record whose bytes are missing or not its own.
AssetsAreWhole ==
  \A c \in AssetCalls : assetCalls[c].at = "over" =>
    /\ assetCalls[c].answer \notin {"corrupt_object", "object_missing"}
    /\ assetCalls[c].answer \in {"stored", "asset"} =>
         LET record == assetCalls[c].record
             path == RegistryPath(record.id, record.hash) IN
         /\ Exists(path) /\ files[path] = <<record>>
         /\ Exists(ObjectPath(record.hash)) /\ files[ObjectPath(record.hash)] = <<record.hash>>
=============================================================================
