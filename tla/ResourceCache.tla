--------------------------- MODULE ResourceCache ----------------------------
(***************************************************************************)
(* What the gateway tells a client about one resource and what it then     *)
(* serves (baston-gateway http/configuration.rs, files.rs,                 *)
(* packfile_cache.rs, stream_cache.rs, builtin.rs).  Both caches fingerprint*)
(* the source files, then read them, with other requests and a deployment  *)
(* running in between.  A file's contents are its version; its mtime and   *)
(* size tell versions apart; version 0 is a missing file.                  *)
(***************************************************************************)
EXTENDS Naturals, Sequences

CONSTANTS Gets,            \* HTTP requests in flight
          ClientFiles,      \* names a manifest may list, sorted
          Asset,            \* the file of stream/
          MaxChanges        \* deployments, restarts and rediscoveries

VARIABLES
    source,     \* version of each file on disk
    manifest,   \* the manifest on record: what each client file is declared as
    started,    \* ResourceState::Started
    shadows,    \* the resource has the name of a builtin this server enables
    caches,     \* StreamCache and PackfileCache entries
    gets,       \* per request: see NoCall
    configuration,  \* what getConfiguration last advertised
    changes,    \* ghost: changes so far
    rediscovered    \* ghost: the manifest on record was replaced

NoSet == [of |-> "none", manifest |-> [f \in {} |-> "none"], content |-> <<>>]
Builtin == [NoSet EXCEPT !.of = "builtin"]
NoCache == [fp |-> <<>>, set |-> NoSet]
NoCall == [at |-> "idle", wants |-> "none", cache |-> "stream", files |-> <<>>,
           manifest |-> NoSet.manifest, fp |-> <<>>, content |-> <<>>, streams |-> NoSet,
           result |-> NoSet, began |-> 0]
rcVars == <<source, manifest, started, shadows, caches, gets, configuration, changes, rediscovered>>
world == <<source, manifest, started, shadows, changes, rediscovered>>

NamesIn == {ClientFiles[i] : i \in 1..Len(ClientFiles)}
Roles == {"script", "file", "none"}

CacheInit ==
    /\ source = [f \in NamesIn \cup {Asset} |-> 1]
    /\ manifest \in [NamesIn -> Roles] /\ started = TRUE /\ shadows \in BOOLEAN
    /\ caches = [k \in {"stream", "pack"} |-> NoCache]
    /\ gets = [c \in Gets |-> NoCall]
    /\ configuration = [pack |-> NoSet, streams |-> NoSet, at |-> 0, made |-> FALSE]
    /\ changes = 0 /\ rediscovered = FALSE

----------------------------------------------------------------------------
(* The operator's side.                                                     *)

Changed == changes < MaxChanges /\ changes' = changes + 1
\* A file is written, or removed.
Deploy(f) ==
    /\ Changed /\ source' = [source EXCEPT ![f] = changes + 2]
    /\ UNCHANGED <<manifest, started, shadows, rediscovered, caches, gets, configuration>>
Undeploy(f) ==
    /\ Changed /\ source[f] # 0 /\ source' = [source EXCEPT ![f] = 0]
    /\ UNCHANGED <<manifest, started, shadows, rediscovered, caches, gets, configuration>>
\* ResourceManager::discover replaces the manifest of a known resource.
Rediscover(m) ==
    /\ Changed /\ m # manifest /\ manifest' = m /\ rediscovered' = TRUE
    /\ UNCHANGED <<source, started, shadows, caches, gets, configuration>>
Restart ==
    /\ Changed /\ started' = ~started
    /\ UNCHANGED <<source, manifest, shadows, rediscovered, caches, gets, configuration>>

----------------------------------------------------------------------------
(* One `get' of either cache.                                               *)

client_file_list(m) == SelectSeq(ClientFiles, LAMBDA f : m[f] # "none")
walk_stream_dir == IF source[Asset] # 0 THEN <<Asset>> ELSE <<>>

\* started_resource, then the list of files; `none' ends the get at once.
EnterFallback(c, kind, wanted) ==
    LET listed == IF kind = "pack" THEN client_file_list(manifest) ELSE walk_stream_dir IN
    [gets[c] EXCEPT !.at = IF ~started \/ (kind = "pack" /\ listed = <<>>) THEN "none" ELSE "stamp",
                    !.cache = kind, !.files = listed,
                    !.manifest = IF kind = "pack" THEN manifest ELSE NoSet.manifest, !.fp = <<>>, !.content = <<>>]
EnterGet(c, kind, wanted) ==
    LET listed == IF kind = "pack" THEN client_file_list(manifest) ELSE walk_stream_dir IN
    [gets[c] EXCEPT !.at = IF ~started \/ (kind = "pack" /\ listed = <<>> /\ ~wanted) THEN "none" ELSE "stamp",
                    !.cache = kind, !.files = listed,
                    !.manifest = IF kind = "pack" THEN manifest ELSE NoSet.manifest, !.fp = <<>>, !.content = <<>>]

\* What is read of each file: its bytes, or (scan_file) its length and then its SHA1.
Items(c) == IF gets[c].cache = "pack" THEN gets[c].files
            ELSE [i \in 1..2 * Len(gets[c].files) |-> gets[c].files[(i + 1) \div 2]]

\* fingerprint: one file's metadata.
fingerprint(c) ==
    /\ gets[c].at = "stamp" /\ Len(gets[c].fp) < Len(gets[c].files)
    /\ LET f == gets[c].files[Len(gets[c].fp) + 1] IN
       gets' = [gets EXCEPT ![c].fp = Append(@, <<f, source[f]>>)]
    /\ UNCHANGED <<world, caches, configuration>>

\* The cached set, if its fingerprint is the one just taken; else a rebuild.
Hit(c) == caches[gets[c].cache].set # NoSet /\ caches[gets[c].cache].fp = gets[c].fp
Lookup(c) ==
    /\ gets[c].at = "stamp" /\ Len(gets[c].fp) = Len(gets[c].files)
    /\ gets' = [gets EXCEPT ![c].at = IF Hit(c) THEN "return" ELSE "read",
                            ![c].result = IF Hit(c) THEN caches[gets[c].cache].set ELSE NoSet]
    /\ UNCHANGED <<world, caches, configuration>>

\* One file of the rebuild.
ReadItem(c) ==
    /\ gets[c].at = "read" /\ Len(gets[c].content) < Len(Items(c))
    /\ LET f == Items(c)[Len(gets[c].content) + 1] IN
       gets' = [gets EXCEPT ![c].content = Append(@, <<f, source[f]>>)]
    /\ UNCHANGED <<world, caches, configuration>>

\* The fingerprint kept is the one taken before the reads.
KeptLate(c) == [i \in 1..Len(gets[c].files) |-> <<gets[c].files[i], source[gets[c].files[i]]>>]
Kept(c) == gets[c].fp
\* An unreadable file is skipped.
ReadableAll(content) == content
Readable(content) == SelectSeq(content, LAMBDA i : i[2] # 0)
\* build_rpf and generate_fxmanifest, or the map of assets; then the insert.
Insert(c) ==
    LET set == [of |-> gets[c].cache, manifest |-> gets[c].manifest,
                content |-> Readable(gets[c].content)] IN
    /\ gets[c].at = "read" /\ Len(gets[c].content) = Len(Items(c))
    /\ caches' = [caches EXCEPT ![gets[c].cache] = [fp |-> Kept(c), set |-> set]]
    /\ gets' = [gets EXCEPT ![c].at = "return", ![c].result = set]
    /\ UNCHANGED <<world, configuration>>

----------------------------------------------------------------------------
(* The handlers.                                                            *)

\* getConfiguration starts with the stream set.
AskConfiguration(c) ==
    /\ gets[c].at = "idle"
    /\ gets' = [gets EXCEPT ![c] = [EnterGet(c, "stream", FALSE) EXCEPT !.wants = "configuration", !.began = changes]]
    /\ UNCHANGED <<world, caches, configuration>>

\* GET /files/<resource>/resource.rpf: a builtin is served first.
AskPackfile(c) ==
    /\ gets[c].at = "idle"
    /\ gets' = [gets EXCEPT ![c] =
            [IF shadows THEN [NoCall EXCEPT !.at = "done", !.result = Builtin] ELSE EnterGet(c, "pack", TRUE)
                EXCEPT !.wants = "packfile", !.began = changes]]
    /\ UNCHANGED <<world, caches, configuration>>

\* GET of a stream asset by basename; everything of a builtin is in its packfile.
AskAsset(c) ==
    /\ gets[c].at = "idle"
    /\ gets' = [gets EXCEPT ![c] =
            [IF shadows THEN [NoCall EXCEPT !.at = "done"] ELSE EnterGet(c, "stream", FALSE)
                EXCEPT !.wants = "asset", !.began = changes]]
    /\ UNCHANGED <<world, caches, configuration>>

\* The stream set is there: getConfiguration goes on to the packfile, with
\* the manifest-only fallback when there are assets.
ConfigurationStreams(c) ==
    /\ gets[c].at \in {"return", "none"} /\ gets[c].wants = "configuration" /\ gets[c].cache = "stream"
    /\ LET set == IF gets[c].at = "none" THEN NoSet ELSE gets[c].result IN
       gets' = [gets EXCEPT ![c] = [EnterGet(c, "pack", set.content # <<>>) EXCEPT !.streams = set, !.result = NoSet]]
    /\ UNCHANGED <<world, caches, configuration>>

\* The resource's entry of the answer; a builtin only where no entry has its name.
ConfigurationDone(c) ==
    /\ gets[c].at \in {"return", "none"} /\ gets[c].wants = "configuration" /\ gets[c].cache = "pack"
    /\ LET listed == gets[c].at = "return" IN
       configuration' = [pack |-> IF listed THEN gets[c].result ELSE IF shadows THEN Builtin ELSE NoSet,
                         streams |-> IF listed THEN gets[c].streams ELSE NoSet,
                         at |-> gets[c].began, made |-> TRUE]
    /\ gets' = [gets EXCEPT ![c] = NoCall]
    /\ UNCHANGED <<world, caches>>

\* serve_memory of the packfile, serve_disk of the asset as it now is, or 404.
ServeSet(c) ==
    /\ gets[c].at \in {"return", "none"} /\ gets[c].wants \in {"packfile", "asset"}
    /\ LET none == gets[c].at = "none" \/ (gets[c].wants = "asset" /\ (gets[c].result.content = <<>> \/ source[Asset] = 0)) IN
       gets' = [gets EXCEPT ![c] = [NoCall EXCEPT !.at = "done", !.wants = gets[c].wants, !.began = gets[c].began,
                            !.result = CASE none -> NoSet
                                            [] gets[c].wants = "packfile" -> gets[c].result
                                            [] OTHER -> [NoSet EXCEPT !.of = "stream", !.content = <<<<Asset, source[Asset]>>>>]]]
    /\ UNCHANGED <<world, caches, configuration>>

Hang(c) ==
    /\ gets[c].at = "done" /\ gets' = [gets EXCEPT ![c] = NoCall]
    /\ UNCHANGED <<world, caches, configuration>>

CacheNext ==
    \/ \E f \in NamesIn \cup {Asset} : Deploy(f) \/ Undeploy(f)
    \/ Restart \/ \E m \in [NamesIn -> Roles] : Rediscover(m)
    \/ \E c \in Gets :
        AskConfiguration(c) \/ AskPackfile(c) \/ AskAsset(c) \/ fingerprint(c) \/ Lookup(c) \/ ReadItem(c)
            \/ Insert(c) \/ ConfigurationStreams(c) \/ ConfigurationDone(c) \/ ServeSet(c) \/ Hang(c)

----------------------------------------------------------------------------
\* Nothing changed while the request ran, nor since.
Calm(c) == gets[c].began = changes
\* Each cache holds sets of its own kind, and no set has a missing file.
CacheTypeOK ==
    /\ source \in [NamesIn \cup {Asset} -> 0..MaxChanges + 1] /\ changes \in 0..MaxChanges
    /\ \A k \in DOMAIN caches :
        /\ caches[k].set.of \in {"none", k}
        /\ \A i \in 1..Len(caches[k].set.content) : caches[k].set.content[i][2] # 0
    /\ \A c \in Gets : gets[c].at \in {"idle", "stamp", "read", "return", "none", "done"}

\* A get that returns while nothing changes returns the files as they are, a
\* cached set included, whatever earlier gets read while the files changed and
\* in whichever order they stored it: the fingerprint is older than the reads,
\* so a set read too late is never found again.  (A listed client file that is
\* missing is outside the claim: its fingerprint is a constant.)
CalmGetExact ==
    \A c \in Gets : gets[c].at = "return" /\ Calm(c) =>
        LET set == gets[c].result.content IN
        /\ \A i \in 1..Len(set) : source[set[i][1]] \in {0, set[i][2]}
        /\ \A i \in 1..Len(gets[c].files) : source[gets[c].files[i]] # 0 =>
                \E j \in 1..Len(set) : set[j][1] = gets[c].files[i]

Mountable ==
    configuration.made /\ configuration.at = changes /\ started
        /\ (source[Asset] # 0 \/ client_file_list(manifest) # <<>>) => configuration.pack # NoSet
ServedAs(c) ==
    gets[c].at = "done" /\ configuration.made /\ configuration.at = changes /\ Calm(c) =>
        /\ gets[c].wants = "packfile" /\ configuration.pack # NoSet => gets[c].result = configuration.pack
        /\ gets[c].wants = "asset" => \A i \in 1..Len(configuration.streams.content) :
                gets[c].result.content = <<configuration.streams.content[i]>>
\* A resource with client files or assets is advertised, and what a client
\* downloads is what was advertised: when nothing changed from the start of
\* getConfiguration to the end of the download, the packfile has the
\* advertised contents (hence SHA1), the stream asset has the advertised
\* length and SHA1, and neither is a 404.
ServedAsAdvertised == ~shadows /\ ~rediscovered => Mountable /\ \A c \in Gets : ServedAs(c)

\* What is cached is what was read, and what is served is what was advertised,
\* although files change under concurrent requests.
CachesHonest ==
    /\ CacheTypeOK /\ CalmGetExact /\ ServedAsAdvertised

\* The same with a resource on disk that has a builtin's name, of which
\* configuration.rs says "the builtin is not served".
ShadowServedAsAdvertised == \A c \in Gets : ServedAs(c)

\* A packfile returned while nothing changes was built from the manifest on
\* record: packfile_cache.rs says its invalidation "also covers hot reload".
PackfileFollowsManifest ==
    \A c \in Gets : gets[c].at = "return" /\ gets[c].cache = "pack" /\ Calm(c) => gets[c].result.manifest = manifest
=============================================================================
