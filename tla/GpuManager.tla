------------------------------ MODULE GpuManager ------------------------------
(***************************************************************************)
(* The worker records of src-tauri/src/comfyui/gpu_manager.rs as a data    *)
(* type: gpu holds the status and the reservation flag of every worker,    *)
(* and each operator is what one method leaves.                            *)
(***************************************************************************)

WorkerStatus == {"stopped", "starting", "idle", "running", "error", "disabled"}

GpuType(W) == [status : [W -> WorkerStatus], reserved : [W -> BOOLEAN]]

AllIdle(W) == [status |-> [w \in W |-> "idle"], reserved |-> [w \in W |-> FALSE]]

IsAvailable(gpu, w) == gpu.status[w] = "idle" /\ ~ gpu.reserved[w]

(* try_reserve succeeded and do_submit has set the status. *)
ReserveAndRun(gpu, w) ==
  [gpu EXCEPT !.reserved[w] = TRUE, !.status[w] = "running"]

(* release() and a status: how do_submit leaves a worker after a failure. *)
ReleaseAs(gpu, w, status) ==
  [gpu EXCEPT !.reserved[w] = FALSE, !.status[w] = status]

(* A fault to test with: the reservation is kept. *)
MarkStatusIdle(gpu, w) ==
  [gpu EXCEPT !.status[w] = IF @ = "running" THEN "idle" ELSE @]

(* mark_worker_idle: only a running worker becomes idle. *)
MarkWorkerIdle(gpu, w) ==
  ReleaseAs(gpu, w, IF gpu.status[w] = "running" THEN "idle" ELSE gpu.status[w])

(* mark_worker_error_then_idle: idle whatever the status was. *)
MarkWorkerErrorThenIdle(gpu, w) == ReleaseAs(gpu, w, "idle")

=============================================================================
