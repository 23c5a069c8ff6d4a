----------------------------- MODULE ShardCopies -----------------------------
(***************************************************************************)
(* The shards that a rank has from a peer: the replicas that GEMINI keeps  *)
(* in the buffers of a pair (GeminiBuffers), and the shard that a          *)
(* replacement fetches (CheckpointTransfer).  The two share no state.      *)
(***************************************************************************)
EXTENDS GeminiBuffers

CONSTANTS
  Backends, Chunks,     \* transfer backends, chunks of a shard
  MaxVersion, MaxCalls  \* bounds: versions written, calls of each side

VARIABLES backend, shard, server, fetcher, buffers, published, registered, accepted

Transfer == INSTANCE CheckpointTransfer

(* What came from a peer is whole: a replica that is labelled ready        *)
(* (replication.py), and a shard that was fetched (transfer.py).           *)
ReceivedIsWhole ==
  PeerShardsAreWhole /\ Transfer!FetchedIsDescribed /\ Transfer!NothingInPart
=============================================================================
