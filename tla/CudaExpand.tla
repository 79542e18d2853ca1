------------------------------- MODULE CudaExpand -------------------------------
(***************************************************************************)
(* Frontier expansion on the GPU: CudaExactBackend.expand_csr and          *)
(* CudaCsrSession.expand (python/neuroseek/cuda_backend.py) over run_expand*)
(* and expand_kernel (cuda/src/neuroseek_cuda.cu).                         *)
(*                                                                         *)
(* A call enters the library twice, to learn the size of the result and to *)
(* fill a buffer of that size.  The library allocates one buffer after the *)
(* other, and any allocation, copy or launch may fail with the buffers so  *)
(* far in its hands.  One thread per frontier node walks its edges; the    *)
(* threads advance in any order and meet in one atomic counter.            *)
(***************************************************************************)
EXTENDS GraphCompile

CONSTANTS
  None,
  MaxFaults,   \* bound of the model: failing operations of the device
  MaxCalls     \* bound of the model: calls of expand

ASSUME CudaAssumption == MaxFaults \in Nat /\ MaxCalls \in Nat /\ None \notin Nat

VARIABLES
  graph,    \* the compiled graph
  session,  \* "none", "open" or "closed"
  call,     \* the expand call
  native,   \* the library's function that is running, NoNative when there is none
  kernel,   \* the running kernel, NoKernel when there is none
  device,   \* the buffers allocated on the device
  cudaCalls, cudaFaults

cudaVars == <<graph, session, call, native, kernel, device, cudaCalls, cudaFaults>>

AnyRelation == -1      \* relation=None

SessionBuffers == {"session.offsets", "session.targets", "session.relations"}
GraphBuffers   == {"offsets", "targets", "relations"}  \* the same, for one call
CallBuffers    == {"frontier", "output", "count"}

\* What each stage of the library allocates, in order; all but two are copied to.
Buffers == [session |-> <<"session.offsets", "session.targets", "session.relations">>,
            graph   |-> <<"offsets", "targets", "relations">>,
            call    |-> <<"frontier", "output", "count">>]
Uploaded(buffer) == buffer \notin {"output", "count"}

\* What is freed, in order, of what each stage has allocated, whether it failed or not.
\* Variant: the targets of a graph uploaded for one call are forgotten.
Cleanup_Forgets(stage) ==
  IF stage = "graph" THEN <<"offsets", "relations">> ELSE Buffers[stage]
Cleanup(stage) == Buffers[stage]

NoCall == [pc |-> "idle", resident |-> FALSE, reverse |-> FALSE, frontier |-> << >>,
           relation |-> AnyRelation, capacity |-> None, required |-> 0, output |-> << >>]

\* pc: "allocate" and "copy" the buffer at place `at`, "run" the kernel, "free" the
\* buffer at place `at`; ptrs are the pointers that are not null.
NoNative == [pc |-> "none", stage |-> "session", at |-> 1, ptrs |-> {}, status |-> "ok",
             count |-> 0, out |-> << >>]

NoKernel == << >>

Csr == Direction(graph, call.reverse)

CudaInit(g) ==
  /\ graph = g
  /\ session = "none"
  /\ call = NoCall
  /\ native = NoNative
  /\ kernel = NoKernel
  /\ device = {}
  /\ cudaCalls = 0
  /\ cudaFaults = 0

Fault == cudaFaults < MaxFaults /\ cudaFaults' = cudaFaults + 1

-----------------------------------------------------------------------------
(* The session and the call in Python *)

Entered(stage) == [NoNative EXCEPT !.pc = "allocate", !.stage = stage]

\* The CSR is validated and its upload begins, unless there is no device.
CreateSession ==
  /\ session = "none" /\ call.pc = "idle" /\ native = NoNative
  /\ ValidateCsr(graph.forward, graph.n, Cardinality(DOMAIN graph.forward.targets))
  /\ \/ native' = Entered("session") /\ UNCHANGED cudaFaults
     \/ Fault /\ UNCHANGED native
  /\ UNCHANGED <<graph, session, call, kernel, device, cudaCalls>>

\* The handle is forgotten before the arrays are freed.
CloseSession ==
  /\ session = "open" /\ call.pc = "idle" /\ native = NoNative
  /\ session' = "closed"
  /\ native' = [NoNative EXCEPT !.pc = "free", !.stage = "session", !.ptrs = SessionBuffers]
  /\ UNCHANGED <<graph, call, kernel, device, cudaCalls, cudaFaults>>

ExpandStart(resident, reverse, frontier, relation, capacity) ==
  /\ call.pc = "idle" /\ native = NoNative /\ cudaCalls < MaxCalls
  /\ resident => session = "open" /\ ~reverse
  /\ call' = [NoCall EXCEPT !.pc = "probe", !.resident = resident, !.reverse = reverse,
                            !.frontier = frontier, !.relation = relation, !.capacity = capacity]
  /\ cudaCalls' = cudaCalls + 1
  /\ UNCHANGED <<graph, session, native, kernel, device, cudaFaults>>

Raised == call' = NoCall

\* The size the host buffer of this pass has.
Capacity ==
  IF call.pc = "probe" THEN 0 ELSE IF call.capacity = None THEN call.required ELSE call.capacity

InRange == \A i \in DOMAIN call.frontier : call.frontier[i] < graph.n

\* The arguments are checked and the device is looked for; a resident graph is on it
\* already, another one is uploaded first.
Call ==
  /\ call.pc \in {"probe", "fill"} /\ native = NoNative
  /\ call.frontier # << >>
  /\ \/ /\ InRange
        /\ native' = Entered(IF call.resident THEN "call" ELSE "graph")
        /\ UNCHANGED <<call, cudaFaults>>
     \/ ~InRange /\ Raised /\ UNCHANGED <<native, cudaFaults>>
     \/ InRange /\ Fault /\ Raised /\ UNCHANGED native
  /\ UNCHANGED <<graph, session, kernel, device, cudaCalls>>

\* An empty frontier needs no kernel.
CallNothing ==
  /\ call.pc \in {"probe", "fill"}
  /\ call.frontier = << >>
  /\ call' = [call EXCEPT !.pc = "done"]
  /\ UNCHANGED <<graph, session, native, kernel, device, cudaCalls, cudaFaults>>

-----------------------------------------------------------------------------
(* The library: one step per buffer *)

Buffer == Buffers[native.stage][native.at]
\* All buffers of the stage are there.
Allocated == native.pc = "allocate" /\ native.at > Len(Buffers[native.stage])

Freeing == [native EXCEPT !.pc = "free", !.at = 1]
Failed  == [Freeing EXCEPT !.status = "error"]

Allocate ==
  /\ native.pc = "allocate" /\ ~Allocated
  /\ \/ /\ device' = device \cup {Buffer}
        /\ native' = [native EXCEPT !.pc   = IF Uploaded(Buffer) THEN "copy" ELSE @,
                                    !.at   = IF Uploaded(Buffer) THEN @ ELSE @ + 1,
                                    !.ptrs = @ \cup {Buffer}]
        /\ UNCHANGED cudaFaults
     \/ Fault /\ native' = Failed /\ UNCHANGED device
  /\ UNCHANGED <<graph, session, call, kernel, cudaCalls>>

\* Variant: a failed copy does not null the pointer to what it frees.
Copy_KeepsPointer ==
  /\ native.pc = "copy"
  /\ \/ /\ native' = [native EXCEPT !.pc = "allocate", !.at = @ + 1]
        /\ UNCHANGED <<device, cudaFaults>>
     \/ Fault /\ native' = Failed /\ device' = device \ {Buffer}
  /\ UNCHANGED <<graph, session, call, kernel, cudaCalls>>

\* copy_to_device: a failed copy frees its own buffer and nulls the pointer.
Copy ==
  /\ native.pc = "copy"
  /\ \/ /\ native' = [native EXCEPT !.pc = "allocate", !.at = @ + 1]
        /\ UNCHANGED <<device, cudaFaults>>
     \/ /\ Fault
        /\ native' = [Failed EXCEPT !.ptrs = @ \ {Buffer}]
        /\ device' = device \ {Buffer}
  /\ UNCHANGED <<graph, session, call, kernel, cudaCalls>>

\* The session owns its arrays.
SessionCreated ==
  /\ Allocated /\ native.stage = "session"
  /\ session' = "open" /\ native' = NoNative
  /\ UNCHANGED <<graph, call, kernel, device, cudaCalls, cudaFaults>>

\* run_expand begins.
GraphUploaded ==
  /\ Allocated /\ native.stage = "graph"
  /\ native' = [native EXCEPT !.pc = "allocate", !.stage = "call", !.at = 1]
  /\ UNCHANGED <<graph, session, call, kernel, device, cudaCalls, cudaFaults>>

\* The counter is set to zero and the kernel launched.
Launch ==
  /\ Allocated /\ native.stage = "call"
  /\ \/ /\ native' = [native EXCEPT !.pc = "run"]
        /\ kernel' = [next  |-> [i \in DOMAIN call.frontier |-> Csr.offsets[call.frontier[i]]],
                      count |-> 0, out |-> [p \in 0 .. Capacity - 1 |-> None]]
        /\ UNCHANGED cudaFaults
     \/ Fault /\ native' = Failed /\ UNCHANGED kernel
  /\ UNCHANGED <<graph, session, call, device, cudaCalls>>

Running(i) == kernel.next[i] < Csr.offsets[call.frontier[i] + 1]

\* Variant: all relations are taken.
Wanted_Any(e) == TRUE

Wanted(e) == call.relation = AnyRelation \/ Csr.relations[e] = call.relation

\* Variant: the place is not compared with the capacity.
ThreadStep_NoBound(i) ==
  /\ kernel # NoKernel /\ Running(i)
  /\ LET e == kernel.next[i]
         place == kernel.count
     IN  kernel' = [kernel EXCEPT
                      !.next[i] = e + 1,
                      !.count   = IF Wanted(e) THEN place + 1 ELSE @,
                      !.out     = IF Wanted(e)
                                  THEN [p \in DOMAIN @ \cup {place} |->
                                          IF p = place THEN Csr.targets[e] ELSE @[p]] ELSE @]
  /\ UNCHANGED <<graph, session, call, native, device, cudaCalls, cudaFaults>>

\* One edge of one thread: atomicAdd gives it a place of its own, and it is written
\* there if the buffer is that large.
ThreadStep(i) ==
  /\ kernel # NoKernel /\ Running(i)
  /\ LET e == kernel.next[i]
         place == kernel.count
     IN  kernel' = [kernel EXCEPT
                      !.next[i] = e + 1,
                      !.count   = IF Wanted(e) THEN place + 1 ELSE @,
                      !.out     = IF Wanted(e) /\ place \in DOMAIN @
                                  THEN [@ EXCEPT ![place] = Csr.targets[e]] ELSE @]
  /\ UNCHANGED <<graph, session, call, native, device, cudaCalls, cudaFaults>>

\* The kernel has ended: the count, and what fits, are copied back.
Collect ==
  /\ kernel # NoKernel /\ \A i \in DOMAIN call.frontier : ~Running(i)
  /\ kernel' = NoKernel
  /\ \/ /\ native' = [Freeing EXCEPT
                        !.count = kernel.count,
                        !.out   = IF kernel.count > Capacity THEN << >>
                                  ELSE [p \in 1 .. kernel.count |-> kernel.out[p - 1]]]
        /\ UNCHANGED cudaFaults
     \/ Fault /\ native' = Failed
  /\ UNCHANGED <<graph, session, call, device, cudaCalls>>

\* free_d of one pointer.  Destroying a session, cudaFree may report an error of an
\* operation before; the other arrays are freed nevertheless.
Free ==
  /\ native.pc = "free" /\ native.at <= Len(Cleanup(native.stage))
  /\ device' = device \ ({Cleanup(native.stage)[native.at]} \cap native.ptrs)
  /\ \/ native' = [native EXCEPT !.at = @ + 1] /\ UNCHANGED cudaFaults
     \/ /\ native.stage = "session" /\ session = "closed" /\ Fault
        /\ native' = [native EXCEPT !.at = @ + 1, !.status = "error"]
  /\ UNCHANGED <<graph, session, call, kernel, cudaCalls>>

Freed == native.pc = "free" /\ native.at > Len(Cleanup(native.stage))
\* run_expand returns to the function that has uploaded the graph.
Nested == native.stage = "call" /\ ~call.resident

RunReturn ==
  /\ Freed /\ Nested
  /\ native' = [native EXCEPT !.stage = "graph", !.at = 1, !.ptrs = @ \cap GraphBuffers]
  /\ UNCHANGED <<graph, session, call, kernel, device, cudaCalls, cudaFaults>>

\* The probe may exceed its buffer; the caller's own capacity may not be below what
\* the probe counted, and the two counts must agree.
Unusable ==
  \/ native.status = "error"
  \/ call.pc = "probe" /\ call.capacity # None /\ call.capacity < native.count
  \/ call.pc = "fill" /\ (native.count > Capacity \/ native.count # call.required)

\* The status is checked and the result of the pass taken over.
NativeReturn ==
  /\ Freed /\ ~Nested
  /\ native' = NoNative
  /\ \/ call.pc = "idle" /\ UNCHANGED call
     \/ call.pc # "idle" /\ Unusable /\ Raised
     \/ call.pc = "probe" /\ ~Unusable
          /\ call' = [call EXCEPT !.pc = "fill", !.required = native.count]
     \/ call.pc = "fill" /\ ~Unusable
          /\ call' = [call EXCEPT !.pc = "done", !.output = native.out]
  /\ UNCHANGED <<graph, session, kernel, device, cudaCalls, cudaFaults>>

ExpandReturn ==
  /\ call.pc = "done"
  /\ call' = NoCall
  /\ UNCHANGED <<graph, session, native, kernel, device, cudaCalls, cudaFaults>>

CudaNext(frontiers, relations, capacities) ==
  \/ CreateSession \/ CloseSession
  \/ \E resident, reverse \in BOOLEAN, f \in frontiers, r \in relations, c \in capacities :
       ExpandStart(resident, reverse, f, r, c)
  \/ Call \/ CallNothing
  \/ Allocate \/ Copy \/ SessionCreated \/ GraphUploaded \/ Launch
  \/ \E i \in DOMAIN call.frontier : ThreadStep(i)
  \/ Collect \/ Free \/ RunReturn \/ NativeReturn
  \/ ExpandReturn

CudaTypeOK ==
  /\ session \in {"none", "open", "closed"}
  /\ call.pc \in {"idle", "probe", "fill", "done"}
  /\ native.pc \in {"none", "allocate", "copy", "run", "free"}
  /\ native.stage \in DOMAIN Buffers /\ native.at \in 1 .. 4
  /\ native.ptrs \subseteq SessionBuffers \cup GraphBuffers \cup CallBuffers
  /\ device \subseteq SessionBuffers \cup GraphBuffers \cup CallBuffers
  /\ native.pc = "run" <=> kernel # NoKernel
  /\ kernel # NoKernel => kernel.count \in Nat /\ DOMAIN kernel.out = 0 .. Capacity - 1
  /\ cudaCalls \in 0 .. MaxCalls /\ cudaFaults \in 0 .. MaxFaults
=============================================================================
