----------------------------- MODULE MCDocPipeline -----------------------------
(* DocPipeline on small instances: the constants are in the .cfg files.    *)
EXTENDS DocPipeline

Lifecycle ==
    INSTANCE DocLifecycle
    WITH Pages <- Page, status <- doc.status, gen <- doc.gen,
         read <- Rows(doc.gen, "done"), lost <- Rows(doc.gen, "failed"),
         skipped <- Rows(doc.gen, "skipped")

(* The tasks, windows, counters and requests together implement the        *)
(* lifecycle (internal/types/knowledge.go): no interleaving of finishers,  *)
(* duplicate tasks and housekeeping moves a document along any other way.  *)
FollowsLifecycle == Lifecycle!Spec
=============================================================================
