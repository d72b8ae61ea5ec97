---------------------- MODULE CapturePipelineRefinement ----------------------
(* The pipeline implements the serial delivery it promises: the waiting     *)
(* tasks are its queue, the task handled is run()'s current one, and        *)
(* resolveScope and the await points of run() and close() are stutters.     *)
EXTENDS CapturePipeline

\* The tasks a behaviour can hold: the n-th captured one has id n.
BoundedTask == [id : 1..MaxTasks, session : Sessions, dir : Dirs, activity : BOOLEAN]

Serial == INSTANCE SerialDelivery
            WITH Task <- BoundedTask, Capacity <- MaxQueue, waiting <- queue,
                 active <- current, log <- posts, open <- accepting

\* Every step of the pipeline is a step of serial delivery or leaves it unchanged.
SerialDeliveryHolds == Serial!SSpec
=============================================================================
