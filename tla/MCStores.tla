------------------------------ MODULE MCStores ------------------------------
(***************************************************************************)
(* Three stores under every order of their operations: the runtime storage *)
(* and the jobs of the author, with a grant of two calls, whose records    *)
(* move under an expected version, and the asset files, which never move.  *)
(* They share no state; the initial state says which of them moves.        *)
(*                                                                         *)
(* An asset is stored under other words, under another name and with other *)
(* bytes; an image may have no text, or be claimed to be a sound.          *)
(***************************************************************************)
EXTENDS RuntimeStorage, AuthorAgentJobs, AssetStore, TLC

Asset(id, bytes, claim, alt) == [id |-> id, bytes |-> bytes, claim |-> claim, alt |-> alt]
MCKindOf == [b \in {"map", "song", "text"} |->
               CASE b = "map" -> "image" [] b = "song" -> "audio" [] OTHER -> "unknown"]
MCAssetRequests ==
  {Asset("a", "map", "", "old map"), Asset("a", "map", "image", "new map"),
   Asset("b", "map", "", "old map"), Asset("a", "song", "audio", ""),
   Asset("a", "map", "", ""), Asset("b", "map", "audio", "old map"), Asset("a", "text", "", "")}

VARIABLE part

\* The calls on assets are the keys of the runtime's part.
Symmetry ==
  Permutations(Keys) \cup Permutations(Operations)

StoresVars == <<part, vars, jobVars, assetVars>>

StoresInit == part \in {"runtime", "jobs", "assets"} /\ Init /\ JobInit /\ AssetInit

StoresNext ==
  /\ \/ part = "runtime" /\ Next /\ UNCHANGED <<jobVars, assetVars>>
     \/ part = "jobs" /\ JobNext /\ UNCHANGED <<vars, assetVars>>
     \/ part = "assets" /\ AssetNext /\ UNCHANGED <<vars, jobVars>>
  /\ UNCHANGED part

StoresSpec == StoresInit /\ [][StoresNext]_StoresVars
=============================================================================
