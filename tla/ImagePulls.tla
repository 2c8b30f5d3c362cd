----------------------------- MODULE ImagePulls -----------------------------
(***************************************************************************)
(* One Agent pulls one image reference, through the Controller's image     *)
(* proxy when it answers and from the registry otherwise.  The proxy keeps *)
(* manifests and blobs in a cache of files named by digest, which it fills *)
(* while it passes an object on and from which old files are removed.  An  *)
(* image has one manifest and one blob; a blob travels in Chunks pieces.   *)
(***************************************************************************)
EXTENDS Naturals, FiniteSets

CONSTANTS Images,   \* the images (their digests) the registry has
          Chunks,   \* the pieces a blob travels in
          Attempts, \* image_pull_max_attempts
          MaxMoves, \* bound on how often the tag moves
          NoImage

VARIABLES byTag,    \* the reference is a tag, not a digest
          policy,   \* the pull policy, "missing" that of a reference without refresh
          upstream, \* the image the reference names in the registry
          moves,    \* how often it moved
          proxy,    \* an outbound proxy is set: ping answers "enabled"
          objects,  \* the committed cache files: object -> pieces it holds
          expired,  \* the files not used for the ttl
          leased,   \* the files that a response is being read from
          sweep,    \* the collector: the leases it copied
          writer,   \* the cache file being written; sized if the registry named a length
          litter,   \* an abandoned partial file
          pull,     \* the Agent's pull
          local,    \* what the reference names in the container runtime
          temp,     \* what the relay's temporary reference names there
          container, \* the image the task's container runs
          prepared, \* prepared_images: the image of a digest reference
          named     \* history: what the reference named since this attempt began

vars == <<byTag, policy, upstream, moves, proxy, objects, expired, leased, sweep, writer, litter,
          pull, local, temp, container, prepared, named>>
registry == <<byTag, policy, upstream, moves, proxy, named>>
cache == <<objects, expired, leased, sweep, writer, litter>>
runtime == <<local, temp, container, prepared>>

Manifest(i) == <<"manifest", i>>
Blob(i) == <<"blob", i>>

NoWriter == [of |-> NoImage]
NoSweep == [on |-> FALSE, active |-> {}]

----------------------------------------------------------------------------
(* The registry moves the tag; the operator sets the outbound proxy. *)

Push ==
  /\ byTag /\ moves < MaxMoves
  /\ \E i \in Images \ {upstream} : upstream' = i /\ named' = named \cup {i}
  /\ moves' = moves + 1
  /\ UNCHANGED <<byTag, policy, proxy, cache, pull, runtime>>

SetProxy ==
  /\ moves < MaxMoves
  /\ proxy' = ~proxy
  /\ moves' = moves + 1
  /\ UNCHANGED <<byTag, policy, upstream, named, cache, pull, runtime>>

----------------------------------------------------------------------------
(* The cache. *)

\* get touches the file it finds.
Touch(o) == expired' = expired \ {o}

\* store_bytes: a manifest is kept, unless the disk refuses it.
Store(o) ==
  \/ /\ objects' = [x \in DOMAIN objects \cup {o} |-> IF x = o THEN Chunks ELSE objects[x]]
     /\ Touch(o)
  \/ o \notin DOMAIN objects /\ UNCHANGED <<objects, expired>>

\* Mutant: a writer that is cut off commits what it has.
CommitsEvery(written) == TRUE

\* commit refuses a file without the expected size, if one is expected.
Commits(written) == writer.sized => written = Chunks

\* Files that nobody asks for reach the ttl.
Expire ==
  /\ \E o \in DOMAIN objects \ expired : expired' = expired \cup {o}
  /\ UNCHANGED <<registry, objects, leased, sweep, writer, litter, pull, runtime>>

GcBegins ==
  /\ ~sweep.on
  /\ sweep' = [on |-> TRUE, active |-> leased]
  /\ UNCHANGED <<registry, objects, expired, leased, writer, litter, pull, runtime>>

\* gc_sync: old files that had no lease go, and so does an old partial file,
\* be it abandoned or that of a writer which has been waiting for the ttl.
GcSweeps ==
  /\ sweep.on
  /\ sweep' = NoSweep
  /\ objects' = [o \in DOMAIN objects \ (expired \ sweep.active) |-> objects[o]]
  /\ expired' = expired \cap sweep.active
  /\ litter' \in {litter, FALSE}
  /\ writer' \in {writer} \cup (IF writer = NoWriter THEN {}
                                ELSE {[writer EXCEPT !.file = FALSE]})
  /\ UNCHANGED <<registry, leased, pull, runtime>>

----------------------------------------------------------------------------
(* The Agent's pull: pull_image, pull_image_once. *)

At(step) == pull.at = step
GoTo(step) == pull' = [pull EXCEPT !.at = step]

\* local_image_reference: what a container of this reference runs.
LocalImage == IF prepared # NoImage THEN prepared ELSE local

\* ensure_image: the policy may spare the pull, or forbid it.
Begin ==
  /\ At("idle")
  /\ pull' = IF policy # "always" /\ LocalImage # NoImage
             THEN [pull EXCEPT !.at = "done", !.attempt = 0, !.image = LocalImage]
             ELSE IF policy = "never" THEN [pull EXCEPT !.at = "error", !.attempt = 0]
             ELSE [pull EXCEPT !.at = "probe", !.attempt = 1]
  /\ named' = {upstream}
  /\ UNCHANGED <<byTag, policy, upstream, moves, proxy, cache, runtime>>

\* proxy_reference: ping, then a HEAD of the manifest that is always asked
\* of the registry, and kept.
Probe ==
  /\ At("probe")
  /\ \/ /\ proxy
        /\ Store(Manifest(upstream))
        /\ GoTo("manifest")
        /\ UNCHANGED <<leased, sweep, writer, litter>>
     \/ GoTo("direct") /\ UNCHANGED cache
  /\ UNCHANGED <<registry, runtime>>

\* Mutant: a manifest that is in the cache answers a tag too.
CachedManifestAny(i) == Manifest(i) \in DOMAIN objects

\* Only the manifest of a digest is answered from the cache.
CachedManifest(i) == ~byTag /\ i = upstream /\ Manifest(i) \in DOMAIN objects

ServeManifest ==
  /\ At("manifest")
  /\ \/ \E i \in Images :
          /\ CachedManifest(i)
          /\ Touch(Manifest(i))
          /\ pull' = [pull EXCEPT !.at = "blob", !.image = i]
          /\ UNCHANGED objects
     \/ /\ Store(Manifest(upstream))
        /\ pull' = [pull EXCEPT !.at = "blob", !.image = upstream]
  /\ UNCHANGED <<registry, leased, sweep, writer, litter, runtime>>

\* blob: a cached file is touched, and opened later ...
FindBlob ==
  /\ At("blob") /\ Blob(pull.image) \in DOMAIN objects
  /\ Touch(Blob(pull.image))
  /\ GoTo("open")
  /\ UNCHANGED <<registry, objects, leased, sweep, writer, litter, runtime>>

\* ... cached_response: by then it may be gone, and the registry is asked.
OpenBlob ==
  /\ At("open")
  /\ IF Blob(pull.image) \in DOMAIN objects
     THEN /\ leased' = leased \cup {Blob(pull.image)}
          /\ pull' = [pull EXCEPT !.at = "read", !.size = objects[Blob(pull.image)]]
     ELSE /\ pull' = [pull EXCEPT !.at = "fetch"]
          /\ UNCHANGED leased
  /\ UNCHANGED <<registry, objects, expired, sweep, writer, litter, runtime>>

\* An open file stays readable when its name is removed.
ReadBlob ==
  /\ At("read")
  /\ leased' = {}
  /\ pull' = [pull EXCEPT !.at = IF pull.size = Chunks THEN "pulled" ELSE "failed"]
  /\ UNCHANGED <<registry, objects, expired, sweep, writer, litter, runtime>>

MissBlob ==
  /\ At("blob") /\ Blob(pull.image) \notin DOMAIN objects
  /\ GoTo("fetch")
  /\ UNCHANGED <<registry, cache, runtime>>

\* The upstream stream with its cache writer, if one could be opened.
FetchBlob ==
  /\ At("fetch")
  /\ writer' \in {NoWriter} \cup [of : {pull.image}, file : {TRUE}, sized : BOOLEAN]
  /\ pull' = [pull EXCEPT !.at = "stream", !.size = 0]
  /\ UNCHANGED <<registry, objects, expired, leased, sweep, litter, runtime>>

\* commit_temp renames the file, if the collector left it.
Commit(written) ==
  IF writer # NoWriter /\ writer.file /\ Commits(written)
  THEN /\ objects' = [o \in DOMAIN objects \cup {Blob(writer.of)} |->
                        IF o = Blob(writer.of) THEN written ELSE objects[o]]
       /\ Touch(Blob(writer.of))
  ELSE UNCHANGED <<objects, expired>>

\* caching_stream_response: the file is committed before the last piece is
\* passed on, or when the stream ends, for which a reader that knows the size of the
\* blob need not wait; a write error makes the rest a mere passthrough.
StreamBlob ==
  /\ At("stream")
  /\ LET size == pull.size + 1
     IN \/ /\ size < Chunks
           /\ writer' \in {writer, NoWriter}
           /\ pull' = [pull EXCEPT !.size = size]
           /\ UNCHANGED <<objects, expired, litter>>
        \/ /\ size = Chunks
           /\ \/ Commit(size) /\ UNCHANGED litter
              \/ /\ writer # NoWriter /\ ~writer.sized
                 /\ litter' = TRUE
                 /\ UNCHANGED <<objects, expired>>
           /\ writer' = NoWriter
           /\ pull' = [pull EXCEPT !.at = "pulled", !.size = size]
  /\ UNCHANGED <<registry, leased, sweep, runtime>>

\* The registry fails in the middle (the writer is aborted), its stream ends early
\* (the writer finds the wrong size; without a length the end is an error, since
\* oci-client compares the digest of what it read), or the Agent's side of the
\* response is dropped (the partial file stays).
StreamFails ==
  /\ At("stream")
  /\ \/ UNCHANGED <<objects, expired, litter>>
     \/ writer # NoWriter /\ writer.sized /\ Commit(pull.size) /\ UNCHANGED litter
     \/ litter' = (litter \/ writer # NoWriter) /\ UNCHANGED <<objects, expired>>
  /\ writer' = NoWriter
  /\ GoTo("fallback")
  /\ UNCHANGED <<registry, leased, sweep, runtime>>

\* handle answers with an error when the registry does.
HandleFails ==
  /\ pull.at \in {"manifest", "fetch"}
  /\ GoTo("fallback")
  /\ UNCHANGED <<registry, cache, runtime>>

\* The relay does not reach the Controller, or the answer breaks off.
RelayFails ==
  /\ pull.at \in {"manifest", "blob", "open", "read"}
  /\ GoTo("fallback")
  /\ leased' = {}
  /\ UNCHANGED <<registry, objects, expired, sweep, writer, litter, runtime>>

\* "retrying with the runtime's default pull path"
FallBack ==
  /\ At("fallback")
  /\ temp' \in {temp, NoImage}
  /\ GoTo("direct")
  /\ UNCHANGED <<registry, cache, local, container, prepared>>

PullDirect ==
  /\ At("direct")
  /\ \/ /\ local' = upstream
        /\ pull' = [pull EXCEPT !.at = "done", !.image = upstream]
     \/ GoTo("failed") /\ UNCHANGED local
  /\ UNCHANGED <<registry, cache, temp, container, prepared>>

\* The runtime names the relayed image; pull_image_once gives it the original
\* tag, or remembers it for a digest, which cannot be tagged.
Pulled ==
  /\ At("pulled")
  /\ temp' = pull.image
  /\ GoTo("tag")
  /\ UNCHANGED <<registry, cache, local, container, prepared>>

Tag ==
  /\ At("tag")
  /\ \/ /\ byTag
        /\ local' = temp
        /\ temp' \in {temp, NoImage}
        /\ pull' = [pull EXCEPT !.at = "done", !.image = temp]
        /\ UNCHANGED prepared
     \/ /\ ~byTag
        /\ prepared' = temp
        /\ pull' = [pull EXCEPT !.at = "done", !.image = temp]
        /\ UNCHANGED <<local, temp>>
     \/ /\ byTag
        /\ GoTo("failed")
        /\ UNCHANGED <<local, temp, prepared>>
  /\ UNCHANGED <<registry, cache, container>>

\* Mutant: a failed attempt is always followed by another.
MayRetryAlways == TRUE

MayRetry == pull.attempt < Attempts

\* pull_image: the next attempt, or the last error (also one that no retry helps).
Retry ==
  /\ At("failed") /\ MayRetry
  /\ pull' = [pull EXCEPT !.at = "probe", !.attempt = IF @ < Attempts THEN @ + 1 ELSE @]
  /\ named' = {upstream}
  /\ UNCHANGED <<byTag, policy, upstream, moves, proxy, cache, runtime>>

GiveUp ==
  /\ At("failed")
  /\ GoTo("error")
  /\ UNCHANGED <<registry, cache, runtime>>

\* create_task goes on with the image, still under the image_operations lock.
Create ==
  /\ At("done")
  /\ container' = LocalImage
  /\ GoTo("created")
  /\ UNCHANGED <<registry, cache, local, temp, prepared>>

\* No create_task holds image_operations.
Unlocked == pull.at \in {"idle", "error", "created"}

\* prune_images: images no container uses go, and prepared_images forgets them.
Prune ==
  /\ Unlocked /\ moves < MaxMoves
  /\ moves' = moves + 1
  /\ local' = IF local = container THEN local ELSE NoImage
  /\ temp' = IF temp = container THEN temp ELSE NoImage
  /\ prepared' = IF prepared = container THEN prepared ELSE NoImage
  /\ UNCHANGED <<byTag, policy, upstream, proxy, named, cache, pull, container>>

\* The next reconciliation pass asks for the image again.
PullAgain ==
  /\ At("error") \/ At("created")
  /\ moves < MaxMoves
  /\ moves' = moves + 1
  /\ GoTo("idle")
  /\ UNCHANGED <<byTag, policy, upstream, proxy, named, cache, runtime>>

\* Only prepared_images is lost with the process.
RestartAgent ==
  /\ ~At("idle") /\ moves < MaxMoves
  /\ moves' = moves + 1
  /\ prepared' = NoImage
  /\ litter' = (litter \/ writer # NoWriter)
  /\ writer' = NoWriter
  /\ leased' = {}
  /\ GoTo("idle")
  /\ UNCHANGED <<byTag, policy, upstream, proxy, named, objects, expired, sweep, local, temp, container>>

----------------------------------------------------------------------------
Init ==
  /\ byTag \in BOOLEAN
  /\ policy \in {"always", "missing", "never"}
  /\ upstream = CHOOSE i \in Images : TRUE
  /\ moves = 0
  /\ proxy \in BOOLEAN
  /\ objects = <<>> /\ expired = {} /\ leased = {}
  /\ sweep = NoSweep
  /\ writer = NoWriter
  /\ litter = FALSE
  /\ pull = [at |-> "idle", attempt |-> 0, image |-> NoImage, size |-> 0]
  /\ local = NoImage /\ temp = NoImage /\ container = NoImage /\ prepared = NoImage
  /\ named = {}

PullStep ==
  \/ Begin \/ Probe \/ ServeManifest \/ FindBlob \/ OpenBlob \/ ReadBlob \/ MissBlob
  \/ FetchBlob \/ StreamBlob \/ StreamFails \/ HandleFails \/ RelayFails \/ FallBack \/ PullDirect
  \/ Pulled \/ Tag \/ Create \/ Retry \/ GiveUp

Next ==
  \/ PullStep
  \/ Push \/ SetProxy \/ Expire \/ GcBegins \/ GcSweeps \/ Prune \/ PullAgain \/ RestartAgent

Spec == Init /\ [][Next]_vars

\* The pull goes on: every step of it ends or times out (idle_timeout).  Weak fairness
\* of PullStep, which can be taken until the pull is over, and changes it.
Over == At("error") \/ At("created")
FairSpec == Spec /\ ([]<>Over \/ []<><<pull' # pull>>_vars)

----------------------------------------------------------------------------
(* Properties. *)

\* A file in the proxy's cache holds a whole object, whatever broke while it was
\* written: commit refuses a short file, or oci-client refuses the digest where no
\* size is expected, and the rename shows the file at once.
CacheComplete == \A o \in DOMAIN objects : objects[o] = Chunks

\* A pull that succeeds returned an image the reference named during the attempt, also
\* when the proxy had older manifests cached, and create_task finds that image under
\* the reference (or under prepared_images for a digest): no prune_images took it away.
PulledIsNamed ==
  At("done") => /\ pull.attempt > 0 => pull.image \in named
                /\ pull.image = LocalImage

\* The cache and the pulls never serve a part of an image, or another one.
ImagesRight == CacheComplete /\ PulledIsNamed

\* A pull comes to an end: the attempts are bounded and a failing proxy is given up.
PullEnds == At("probe") ~> (At("done") \/ At("error") \/ At("idle"))
============================================================================
