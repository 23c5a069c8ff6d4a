------------------------- MODULE CheckpointTransfer -------------------------
(***************************************************************************)
(* One-shot transfer of a shard from the rank that holds its replica to a  *)
(* replacement (checkpointing/transfer.py).  The source calls serve, the   *)
(* destination fetch, and either may fail at any point and call again.     *)
(*                                                                         *)
(*   torch_dist  two-sided: manifest, acknowledgement, payload in chunks,  *)
(*               checksum acknowledgement.  A send of the library and its  *)
(*               receive are one step of both; a wait that runs out raises *)
(*               on one side and leaves the other waiting.                 *)
(*   nixl        one-sided: serve registers the memory and publishes the   *)
(*               manifest, fetch reads the memory by itself later.         *)
(*                                                                         *)
(* Neither copies the shard: what is sent is what the memory holds when it *)
(* is sent, and training overwrites it meanwhile.  A checksum tells all    *)
(* contents apart.  The content of a chunk is the version written to it.   *)
(***************************************************************************)
EXTENDS Integers

CONSTANTS
  Backends,     \* subset of {"torch_dist", "nixl"}
  Chunks,       \* number of chunks of a shard
  MaxVersion,   \* bound: last version training writes
  MaxCalls      \* bound: calls of serve, and of fetch

TransferAssumption ==
  /\ Backends \subseteq {"torch_dist", "nixl"}
  /\ Chunks \in Nat \ {0} /\ MaxVersion \in Nat /\ MaxCalls \in Nat \ {0}

Damaged == -1
Empty == -2

VARIABLES
  backend,
  shard,      \* memory at the source
  server,     \* the call of serve: where it is, the content it describes, chunks sent
  fetcher,    \* the call of fetch: the content it expects, what arrived so far
  buffers,    \* memory at the destination that fetch fills
  published,  \* nixl: what the metadata store holds under the key
  registered, \* nixl: number of the registration that is in force, 0 for none
  accepted    \* history: contents whose checksum the destination found right

vars == <<backend, shard, server, fetcher, buffers, published, registered, accepted>>

AllEmpty == [i \in 1 .. Chunks |-> Empty]
NoServer == [at |-> "idle", manifest |-> AllEmpty, sent |-> 0, calls |-> 0]
NoFetcher == [at |-> "idle", manifest |-> AllEmpty, arrived |-> AllEmpty, next |-> 1,
              registration |-> 0, fits |-> TRUE, calls |-> 0]
NotPublished == [manifest |-> AllEmpty, registration |-> 0]

Init ==
  /\ backend \in Backends
  /\ shard = [i \in 1 .. Chunks |-> 0]
  /\ server = NoServer /\ fetcher = NoFetcher
  /\ buffers = AllEmpty
  /\ published = NotPublished /\ registered = 0
  /\ accepted = {}

Over == {"idle", "returned", "raised"}

(* Training writes the next version into the slot, one chunk at a time.    *)
Overwrite(i) ==
  /\ shard[i] < MaxVersion
  /\ \A j \in 1 .. Chunks : shard[i] <= shard[j]
  /\ shard' = [shard EXCEPT ![i] = @ + 1]
  /\ UNCHANGED <<backend, server, fetcher, buffers, published, registered, accepted>>

(* _payload_manifest: the checksums of what the memory holds now.          *)
PayloadManifest == shard

-----------------------------------------------------------------------------
(* TorchDistTransfer.                                                      *)

(* _wait: a send or a receive that runs out of time raises.                *)
ServeTimesOut ==
  /\ backend = "torch_dist" /\ server.at \notin Over
  /\ server' = [server EXCEPT !.at = "raised"]
  /\ UNCHANGED <<backend, shard, fetcher, buffers, published, registered, accepted>>

FetchTimesOut ==
  /\ backend = "torch_dist" /\ fetcher.at \notin Over \cup {"copy"}
  /\ fetcher' = [fetcher EXCEPT !.at = "raised"]
  /\ UNCHANGED <<backend, shard, server, buffers, published, registered, accepted>>

BeginServe ==
  /\ backend = "torch_dist" /\ server.at \in Over /\ server.calls < MaxCalls
  /\ server' = [at |-> "manifest", manifest |-> PayloadManifest, sent |-> 0,
                calls |-> server.calls + 1]
  /\ UNCHANGED <<backend, shard, fetcher, buffers, published, registered, accepted>>

(* The buffers have the shapes of the shard and the endpoints are the      *)
(* expected ones, or not.                                                  *)
BeginFetch ==
  /\ fetcher.at \in Over /\ fetcher.calls < MaxCalls
  /\ \E fits \in BOOLEAN :
       fetcher' = [NoFetcher EXCEPT !.at = "manifest", !.fits = fits,
                                    !.calls = fetcher.calls + 1]
  /\ UNCHANGED <<backend, shard, server, buffers, published, registered, accepted>>

(* The manifest with its length; _validate_manifest decides the answer.    *)
Manifest ==
  /\ backend = "torch_dist" /\ server.at = "manifest" /\ fetcher.at = "manifest"
  /\ server' = [server EXCEPT !.at = "preflight"]
  /\ fetcher' = [fetcher EXCEPT !.at = "preflight", !.manifest = server.manifest]
  /\ UNCHANGED <<backend, shard, buffers, published, registered, accepted>>

(* The preflight acknowledgement, or rejection, after which both raise.    *)
Preflight ==
  /\ backend = "torch_dist" /\ server.at = "preflight" /\ fetcher.at = "preflight"
  /\ LET outcome == IF fetcher.fits THEN "payload" ELSE "raised"
     IN  server' = [server EXCEPT !.at = outcome] /\ fetcher' = [fetcher EXCEPT !.at = outcome]
  /\ UNCHANGED <<backend, shard, buffers, published, registered, accepted>>

(* One chunk, into a buffer of fetch's own; it may be damaged on its way.  *)
Payload ==
  /\ backend = "torch_dist" /\ server.at = "payload" /\ fetcher.at = "payload"
  /\ \E content \in {shard[server.sent + 1], Damaged} :
       /\ server' = [server EXCEPT !.sent = @ + 1,
                                   !.at = IF server.sent + 1 = Chunks THEN "verdict" ELSE @]
       /\ fetcher' = [fetcher EXCEPT !.arrived[fetcher.next] = content, !.next = @ + 1,
                                     !.at = IF fetcher.next = Chunks THEN "verdict" ELSE @]
  /\ UNCHANGED <<backend, shard, buffers, published, registered, accepted>>

Verified(f) == f.arrived = f.manifest

(* The checksum acknowledgement.                                           *)
Verdict ==
  /\ backend = "torch_dist" /\ server.at = "verdict" /\ fetcher.at = "verdict"
  /\ server' = [server EXCEPT !.at = IF Verified(fetcher) THEN "returned" ELSE "raised"]
  /\ fetcher' = [fetcher EXCEPT !.at = IF Verified(fetcher) THEN "copy" ELSE "raised"]
  /\ accepted' = IF Verified(fetcher) THEN accepted \cup {fetcher.manifest} ELSE accepted
  /\ UNCHANGED <<backend, shard, buffers, published, registered>>

(* Only now are the caller's buffers written.                              *)
CopyOut ==
  /\ fetcher.at = "copy"
  /\ buffers' = fetcher.arrived
  /\ fetcher' = [fetcher EXCEPT !.at = "returned"]
  /\ UNCHANGED <<backend, shard, server, published, registered, accepted>>

-----------------------------------------------------------------------------
(* NixlCheckpointTransfer.                                                 *)

(* serve: an earlier registration under the key is given up first.         *)
Register ==
  /\ backend = "nixl" /\ server.at \in Over /\ server.calls < MaxCalls
  /\ registered' = server.calls + 1
  /\ server' = [at |-> "publish", manifest |-> PayloadManifest, sent |-> 0,
                calls |-> server.calls + 1]
  /\ UNCHANGED <<backend, shard, fetcher, buffers, published, accepted>>

(* ... and the manifest is put into the store, or putting it raises.       *)
Publish ==
  /\ server.at = "publish"
  /\ \/ /\ published' = [manifest |-> server.manifest, registration |-> registered]
        /\ server' = [server EXCEPT !.at = "returned"]
     \/ server' = [server EXCEPT !.at = "raised"] /\ UNCHANGED published
  /\ UNCHANGED <<backend, shard, fetcher, buffers, registered, accepted>>

CloseTransfer ==
  /\ backend = "nixl" /\ server.at \in Over /\ registered # 0
  /\ registered' = 0
  /\ UNCHANGED <<backend, shard, server, fetcher, buffers, published, accepted>>

(* fetch: get_transfer_meta waits for the manifest, which is validated     *)
(* before the memory is read.                                              *)
GetMetadata ==
  /\ backend = "nixl" /\ fetcher.at = "manifest"
  /\ \/ /\ published.registration # 0 /\ fetcher.fits
        /\ fetcher' = [fetcher EXCEPT !.at = "payload", !.manifest = published.manifest,
                                      !.registration = published.registration]
     \/ fetcher' = [fetcher EXCEPT !.at = "raised"]
  /\ UNCHANGED <<backend, shard, server, buffers, published, registered, accepted>>

(* The READ runs into the caller's buffers as long as the memory is        *)
(* registered; the poll sees it fail or run out of time.                   *)
Read ==
  /\ backend = "nixl" /\ fetcher.at = "payload"
  /\ \/ /\ fetcher.registration = registered
        /\ \E content \in {shard[fetcher.next], Damaged} :
             buffers' = [buffers EXCEPT ![fetcher.next] = content]
        /\ fetcher' = [fetcher EXCEPT !.next = @ + 1,
                                      !.at = IF fetcher.next = Chunks THEN "verdict" ELSE @]
     \/ fetcher' = [fetcher EXCEPT !.at = "raised"] /\ UNCHANGED buffers
  /\ UNCHANGED <<backend, shard, server, published, registered, accepted>>

(* The checksums of the buffers, after DONE.                               *)
CheckBuffers ==
  /\ backend = "nixl" /\ fetcher.at = "verdict"
  /\ LET arrived == [fetcher EXCEPT !.arrived = buffers]
     IN  /\ fetcher' = [arrived EXCEPT !.at = IF Verified(arrived) THEN "returned" ELSE "raised"]
         /\ accepted' = IF Verified(arrived) THEN accepted \cup {buffers} ELSE accepted
  /\ UNCHANGED <<backend, shard, server, buffers, published, registered>>

Next ==
  \/ \E i \in 1 .. Chunks : Overwrite(i)
  \/ BeginServe \/ BeginFetch \/ ServeTimesOut \/ FetchTimesOut
  \/ Manifest \/ Preflight \/ Payload \/ Verdict \/ CopyOut
  \/ Register \/ Publish \/ CloseTransfer \/ GetMetadata \/ Read \/ CheckBuffers

Spec == Init /\ [][Next]_vars

-----------------------------------------------------------------------------
(* A fetch that returns has filled its buffers with what some call of      *)
(* serve described, of one version if that was, although the source's      *)
(* memory goes on changing and both sides give up and call again           *)
(* (TorchDistTransfer.fetch, NixlCheckpointTransfer.fetch).                *)
FetchedIsDescribed ==
  fetcher.at = "returned" => buffers = fetcher.manifest

(* Under torch_dist the destination's memory never holds a part of a       *)
(* shard, whatever fails; and a serve that returns was really received.    *)
NothingInPart ==
  backend = "torch_dist" =>
    /\ buffers \in accepted \cup {AllEmpty}
    /\ server.at = "returned" => server.manifest \in accepted
=============================================================================
