--------------------------- MODULE MCMediaAssets ---------------------------
(* MediaAssets for TLC, under a name of its own, so that what the run checks   *)
(* can be proved beside the other small parts (ServingProofs).                 *)

EXTENDS Naturals

CONSTANTS NWidths, Uploads, Workers, NoJob, MaxAttempts, AgeCap, Overdue, MaxBackoff
VARIABLES decodable, asset, renditions, original, blobs, upload, job, pc, held, put

Media == INSTANCE MediaAssets

ASSUME MediaAssetsAssumption == NoJob \notin Media!Jobs /\ NWidths \in Nat /\ MaxAttempts \in Nat \ {0}

MediaSpec == Media!Spec
MediaFairSpec == Media!FairSpec

(* MediaAssets: a recorded rendition is in the blob store, a ready asset has all
   of them, and nothing is shown of bytes that do not decode (Media.ProcessJob). *)
ShownIsServable == Media!ShownIsServable

(* MediaAssets: an uploaded image is eventually ready, or failed because it does
   not decode, unless a job has used all its attempts (Media.ProcessJob, ReapStuckJobs). *)
EventuallyFinished == Media!EventuallyFinished

(* MediaAssets: the process_media jobs live as JobLife says, whichever uploads queue
   them and however their runs end; a permanent failure settles them too. *)
MediaLife == INSTANCE JobLife WITH
               Jobs <- Uploads,
               phase <- [j \in Uploads |-> job[j].state],
               runs  <- [j \in Uploads |-> job[j].attempts]
MediaKeepsJobLife == MediaLife!Spec
=============================================================================
