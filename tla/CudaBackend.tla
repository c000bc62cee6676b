------------------------------ MODULE CudaBackend ------------------------------
(***************************************************************************)
(* The CUDA backend: device discovery, and the self-test that moves 16 MiB *)
(* to a device and back and says whether the device is REAL.  Every CUDA   *)
(* call can fail, a call that succeeds can have spoiled the data, and      *)
(* other programs take and release device memory all the time.             *)
(*                                                                         *)
(* Memory is counted in units of the 16 MiB the test allocates.  This      *)
(* backend refuses to register buffers and to run transfers, without any   *)
(* change of state.                                                        *)
(***************************************************************************)
EXTENDS Naturals, Sequences

CONSTANTS
    MaxDevices,     \* devices the CUDA runtime may report
    Memory          \* units of device memory

ASSUME CudaAssumption == MaxDevices \in Nat /\ Memory \in Nat \ {0}

VARIABLES
    devices,        \* the device records of the last discovery
    providers,      \* its provider records
    device_count,
    discovered,
    step,           \* where self_test is, "IDLE" if it does not run
    held,           \* allocations that no free was called for yet
    device, host,   \* what the two allocations contain
    free0,          \* free device memory before the copies, as read
    free,           \* free device memory
    report          \* the report of the self-test, as far as it is filled

inventoryVars == <<devices, providers, device_count, discovered>>
testVars == <<step, held, device, host, free0, report>>
cudaVars == <<inventoryVars, testVars, free>>

-------------------------------------------------------------------------------
(* Discovery. *)
discover_Fault ==
    /\ \E count \in 0..MaxDevices :
         /\ device_count' = count
         /\ devices' = devices \o [i \in 1..count |-> i]
         /\ providers' = IF count = 0 THEN <<>> ELSE <<"cuda">>
         /\ discovered' = (discovered \/ count > 0)
    /\ UNCHANGED <<testVars, free>>

\* The runtime reports `count` devices; an error counts as none.
discover ==
    /\ \E count \in 0..MaxDevices :
         /\ device_count' = count
         /\ devices' = [i \in 1..count |-> i]
         /\ providers' = IF count = 0 THEN <<>> ELSE <<"cuda">>
         /\ discovered' = (discovered \/ count > 0)
    /\ UNCHANGED <<testVars, free>>

available == discovered /\ device_count > 0

-------------------------------------------------------------------------------
(* Device memory. *)
\* An allocation contains the "ORIGINAL", its "INVERSE" or anything "OTHER".
Inverse(x) ==
    IF x = "ORIGINAL" THEN "INVERSE" ELSE IF x = "INVERSE" THEN "ORIGINAL" ELSE "OTHER"

\* What a copy, or a kernel, that reported success may leave behind.
Spoiled(x) == {x, "OTHER"}

\* Other programs allocate and release.
others ==
    /\ free' \in 0 .. Memory - (IF "DEVICE" \in held THEN 1 ELSE 0)
    /\ UNCHANGED <<inventoryVars, testVars>>

\* The code does not look at the result of a free; one that fails gives no
\* memory back.
gdf_cuda_free(xs) ==
    /\ held' = held \ xs
    /\ free' \in IF "DEVICE" \in held \cap xs THEN {free, free + 1} ELSE {free}

-------------------------------------------------------------------------------
(* The self-test, one action per CUDA call that may fail. *)
NewReport ==
    [device_discovery |-> FALSE, allocation |-> FALSE, pinned_host |-> FALSE, kernel |-> FALSE,
     cpu_parity |-> FALSE, baseline_return |-> FALSE, support |-> "UNKNOWN"]

At(s) == step = s /\ UNCHANGED inventoryVars

\* The test goes on to step s, having passed what the field stands for.
Passed(field, s) ==
    /\ step' = s
    /\ report' = [report EXCEPT ![field] = TRUE]
Goes(s) == step' = s /\ UNCHANGED report

\* A failed call: what is held is released, and the device is unsupported.
Abandon(xs) ==
    /\ gdf_cuda_free(xs)
    /\ step' = "IDLE"
    /\ report' = [report EXCEPT !.support = "UNSUPPORTED"]
    /\ UNCHANGED <<device, host, free0>>

\* No device, or its properties cannot be read.
self_test ==
    /\ At("IDLE")
    /\ UNCHANGED <<held, free, free0>>
    /\ device' = "OTHER" /\ host' = "OTHER"
    /\ \/ /\ step' = "MALLOC"
          /\ report' = [NewReport EXCEPT !.device_discovery = TRUE]
       \/ /\ step' = "IDLE"
          /\ report' = [NewReport EXCEPT !.support = "UNSUPPORTED"]

malloc ==
    /\ At("MALLOC")
    /\ \/ Abandon({})
       \/ /\ free > 0 /\ free' = free - 1
          /\ held' = held \cup {"DEVICE"}
          /\ Passed("allocation", "MALLOC_HOST")
          /\ UNCHANGED <<device, host, free0>>

malloc_host_Fault ==
    /\ At("MALLOC_HOST")
    /\ \/ Abandon({})
       \/ /\ held' = held \cup {"HOST"}
          /\ Passed("pinned_host", "H2D")
          /\ free0' \in {free, 0}
          /\ host' = "ORIGINAL"
          /\ UNCHANGED <<device, free>>

\* Then the free memory is read, 0 if that fails, and the host buffer filled.
malloc_host ==
    /\ At("MALLOC_HOST")
    /\ \/ Abandon({"DEVICE"})
       \/ /\ held' = held \cup {"HOST"}
          /\ Passed("pinned_host", "H2D")
          /\ free0' \in {free, 0}
          /\ host' = "ORIGINAL"
          /\ UNCHANGED <<device, free>>

h2d ==
    /\ At("H2D")
    /\ \/ Abandon({"DEVICE", "HOST"})
       \/ /\ device' \in Spoiled(host)
          /\ Goes("KERNEL")
          /\ UNCHANGED <<held, host, free0, free>>

\* The kernel is launched and waited for.
invert ==
    /\ At("KERNEL")
    /\ \/ Abandon({"DEVICE", "HOST"})
       \/ /\ device' \in Spoiled(Inverse(device))
          /\ Passed("kernel", "D2H")
          /\ UNCHANGED <<held, host, free0, free>>

\* The result is copied back and compared, and everything is released.
d2h ==
    /\ At("D2H")
    /\ \/ Abandon({"DEVICE", "HOST"})
       \/ /\ host' \in Spoiled(device)
          /\ step' = "BASELINE"
          /\ report' = [report EXCEPT !.cpu_parity = host' = "INVERSE"]
          /\ gdf_cuda_free({"DEVICE", "HOST"})
          /\ UNCHANGED <<device, free0>>

Verdict_Fault(parity, baseline) == IF baseline THEN "REAL" ELSE "UNSUPPORTED"

Verdict(parity, baseline) == IF parity /\ baseline THEN "REAL" ELSE "UNSUPPORTED"

\* The free memory is read again, 0 if that fails, with a tolerance of both
\* allocations.
baseline_return ==
    /\ At("BASELINE")
    /\ \E free1 \in {free, 0} :
         LET back == free1 + 2 >= free0 IN
         report' = [report EXCEPT !.baseline_return = back,
                                  !.support = Verdict(report.cpu_parity, back)]
    /\ step' = "IDLE"
    /\ UNCHANGED <<held, device, host, free0, free>>

-------------------------------------------------------------------------------
CudaInit ==
    /\ devices = <<>> /\ providers = <<>> /\ device_count = 0 /\ discovered = FALSE
    /\ step = "IDLE" /\ held = {}
    /\ device = "OTHER" /\ host = "OTHER" /\ free0 = 0
    /\ free \in 0..Memory
    /\ report = NewReport

CudaNext ==
    \/ discover \/ others
    \/ self_test \/ malloc \/ malloc_host \/ h2d \/ invert \/ d2h \/ baseline_return

CudaSpec == CudaInit /\ [][CudaNext]_cudaVars

-------------------------------------------------------------------------------
(* Properties. *)

\* Whichever of the calls fails, self_test returns with no allocation it has
\* not called a free for: each early return frees what was allocated before it
\* (a free that fails itself goes unnoticed).
NothingStaysAllocated == step = "IDLE" => held = {}

\* The report says REAL only if every step was passed and the data went all
\* the way: it is the device that holds the inverse of the original, however
\* copies and kernel may have failed without saying so.
RealMeansProved ==
    report.support = "REAL" =>
      /\ \A field \in DOMAIN report \ {"support"} : report[field]
      /\ device = "INVERSE" /\ host = "INVERSE"

\* After devices appeared and vanished between discoveries, the records are
\* those of the last one, and the backend is available with its one provider
\* exactly if there are devices.
DiscoveryIsConsistent ==
    /\ Len(devices) = device_count
    /\ available <=> devices # <<>>
    /\ providers = IF available THEN <<"cuda">> ELSE <<>>
===============================================================================
