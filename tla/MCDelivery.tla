----------------------------- MODULE MCDelivery -----------------------------
(***************************************************************************)
(* One instance for what keeps serving clients: a handoff whose calls are  *)
(* lost, voice and its encryption, resource files and their archives, and  *)
(* state bags.  The modules share no state, so a behaviour exercises one of *)
(* them (focus) while the others rest in an initial state.                 *)
(***************************************************************************)
EXTENDS Handoff, Voice, VoiceCrypt, ResourceCache, Packfile, StateBags

MCClientFiles == <<"a">>

\* Lengths at and around a block of the archive, three levels of directories.
MCPackPaths == UNION {[1..n -> 1..2] : n \in 1..3}
MCPackLength == [p \in MCPackPaths |-> CASE Len(p) = 1 -> 2048 [] Len(p) = 2 -> 1 [] OTHER -> 2049]

\* A resource that shadows a builtin starts with one manifest, another with any.
AnyManifest == CHOOSE m \in [NamesIn -> Roles] : TRUE

VARIABLE focus

deliveryVars == <<vars, voiceVars, cryptVars, rcVars, packVars, bagVars, focus>>

DeliveryInit ==
    /\ focus \in {"handoff", "voice", "crypt", "cache", "pack", "bags"}
    /\ Init /\ VoiceInit /\ BagInit
    /\ CryptInit /\ (focus # "crypt" => start = 6)
    /\ CacheInit /\ (focus # "cache" => ~shadows) /\ (focus # "cache" \/ shadows => manifest = AnyManifest)
    /\ PackInit /\ (focus # "pack" => packed = {})

\* The services may come to rest; a handoff may not (deadlock is checked).
DeliveryNext ==
    \/ focus = "handoff" /\ Next /\ UNCHANGED <<voiceVars, cryptVars, rcVars, packVars, bagVars, focus>>
    \/ focus = "voice" /\ VoiceNext /\ UNCHANGED <<vars, cryptVars, rcVars, packVars, bagVars, focus>>
    \/ focus = "crypt" /\ CryptNext /\ UNCHANGED <<vars, voiceVars, rcVars, packVars, bagVars, focus>>
    \/ focus = "cache" /\ CacheNext /\ UNCHANGED <<vars, voiceVars, cryptVars, packVars, bagVars, focus>>
    \/ focus = "pack" /\ PackNext /\ UNCHANGED <<vars, voiceVars, cryptVars, rcVars, bagVars, focus>>
    \/ focus = "bags" /\ BagNext /\ UNCHANGED <<vars, voiceVars, cryptVars, rcVars, packVars, focus>>
    \/ focus # "handoff" /\ UNCHANGED deliveryVars

DeliverySpec == DeliveryInit /\ [][DeliveryNext]_deliveryVars
=============================================================================
