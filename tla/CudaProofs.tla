------------------------------- MODULE CudaProofs -------------------------------
(***************************************************************************)
(* The CUDA self-test and discovery, for every number of devices and every *)
(* amount of memory: whichever CUDA calls fail, and however copies and     *)
(* kernel spoil the data without saying so.                                *)
(***************************************************************************)
EXTENDS CudaBackend, TLAPS

\* What self_test holds at each of its steps.
Holds(s) ==
    IF s = "MALLOC_HOST" THEN {"DEVICE"}
    ELSE IF s \in {"H2D", "KERNEL", "D2H"} THEN {"DEVICE", "HOST"} ELSE {}

\* Allocations are those of the step: every early return releases what was
\* allocated before it.
HeldInv == held = Holds(step)

Report ==
    [device_discovery : BOOLEAN, allocation : BOOLEAN, pinned_host : BOOLEAN, kernel : BOOLEAN,
     cpu_parity : BOOLEAN, baseline_return : BOOLEAN,
     support : {"UNKNOWN", "UNSUPPORTED", "REAL"}]

\* What the data and the report are at each step: a step is reached only
\* with the fields of the calls before it set and with data that was copied,
\* inverted and copied back, or is spoiled.
Evidence ==
    /\ step \in {"IDLE", "MALLOC", "MALLOC_HOST", "H2D", "KERNEL", "D2H", "BASELINE"}
    /\ report \in Report
    /\ step # "IDLE" => report.support = "UNKNOWN" /\ report.device_discovery
    /\ step \in {"MALLOC_HOST", "H2D", "KERNEL", "D2H", "BASELINE"} => report.allocation
    /\ step \in {"H2D", "KERNEL", "D2H", "BASELINE"} => report.pinned_host
    /\ step \in {"D2H", "BASELINE"} => report.kernel
    /\ step = "H2D" => host = "ORIGINAL"
    /\ step = "KERNEL" => device \in {"ORIGINAL", "OTHER"}
    /\ step = "D2H" => device \in {"INVERSE", "OTHER"}
    /\ step = "BASELINE" /\ report.cpu_parity => device = "INVERSE" /\ host = "INVERSE"
    /\ report.support = "REAL" =>
          /\ report.device_discovery /\ report.allocation /\ report.pinned_host
          /\ report.kernel /\ report.cpu_parity /\ report.baseline_return
          /\ device = "INVERSE" /\ host = "INVERSE"

-------------------------------------------------------------------------------
\* Every step keeps what is held in line with the step.
LEMMA HeldStep == HeldInv /\ [CudaNext]_cudaVars => HeldInv'
  <1> SUFFICES ASSUME HeldInv, [CudaNext]_cudaVars PROVE HeldInv'
    OBVIOUS
  <1> USE DEF cudaVars, inventoryVars, testVars, HeldInv, Holds, At, Passed, Goes
  <1>1. CASE discover \/ others \/ UNCHANGED cudaVars
    BY <1>1 DEF discover, others
  <1>2. CASE self_test
    BY <1>2 DEF self_test
  <1>3. CASE malloc
    BY <1>3 DEF malloc, Abandon, gdf_cuda_free
  <1>4. CASE malloc_host
    BY <1>4 DEF malloc_host, Abandon, gdf_cuda_free
  <1>5. CASE h2d
    BY <1>5 DEF h2d, Abandon, gdf_cuda_free
  <1>6. CASE invert
    BY <1>6 DEF invert, Abandon, gdf_cuda_free
  <1>7. CASE d2h
    BY <1>7 DEF d2h, Abandon, gdf_cuda_free
  <1>8. CASE baseline_return
    BY <1>8 DEF baseline_return
  <1>9. QED
    BY <1>1, <1>2, <1>3, <1>4, <1>5, <1>6, <1>7, <1>8 DEF CudaNext

\* Whichever of the CUDA calls fails, self_test has called a free for each
\* of its allocations when it returns.
THEOREM NothingLeaks == CudaSpec => []NothingStaysAllocated
  <1>1. CudaInit => HeldInv
    BY DEF CudaInit, HeldInv, Holds
  <1>2. HeldInv => NothingStaysAllocated
    BY DEF HeldInv, Holds, NothingStaysAllocated
  <1>3. QED
    BY <1>1, <1>2, HeldStep, PTL DEF CudaSpec

-------------------------------------------------------------------------------
\* A call that fails ends the test without a verdict of REAL.
LEMMA AbandonEvidence ==
    ASSUME Evidence, step # "IDLE", NEW xs, Abandon(xs)
    PROVE  Evidence'
  <1>1. step' = "IDLE" /\ report' \in Report /\ report'.support = "UNSUPPORTED"
    BY DEF Abandon, Evidence, Report
  <1>2. QED
    BY <1>1 DEF Evidence

\* Every step of the test keeps the evidence.
LEMMA EvidenceStep == Evidence /\ [CudaNext]_cudaVars => Evidence'
  <1> SUFFICES ASSUME Evidence, [CudaNext]_cudaVars PROVE Evidence'
    OBVIOUS
  <1> USE DEF cudaVars, inventoryVars, testVars, At, Goes
  <1>1. CASE discover \/ others \/ UNCHANGED cudaVars
    BY <1>1 DEF discover, others, Evidence
  <1>2. CASE self_test
    BY <1>2 DEF self_test, Evidence, NewReport, Report
  <1>3. CASE malloc
    <2>1. CASE Abandon({})
      BY <1>3, <2>1, AbandonEvidence DEF malloc
    <2>2. CASE step' = "MALLOC_HOST" /\ report' = [report EXCEPT !.allocation = TRUE]
      <3>1. /\ report' \in Report /\ report'.allocation
            /\ report'.support = report.support
            /\ report'.device_discovery = report.device_discovery
        BY <2>2 DEF Evidence, Report
      <3>2. QED
        BY <1>3, <2>2, <3>1 DEF malloc, Evidence
    <2>3. QED
      BY <1>3, <2>1, <2>2 DEF malloc, Passed
  <1>4. CASE malloc_host
    <2>1. CASE Abandon({"DEVICE"})
      BY <1>4, <2>1, AbandonEvidence DEF malloc_host
    <2>2. CASE /\ step' = "H2D" /\ report' = [report EXCEPT !.pinned_host = TRUE]
               /\ host' = "ORIGINAL"
      <3>1. /\ report' \in Report /\ report'.pinned_host
            /\ report'.support = report.support /\ report'.allocation = report.allocation
            /\ report'.device_discovery = report.device_discovery
        BY <2>2 DEF Evidence, Report
      <3>2. QED
        BY <1>4, <2>2, <3>1 DEF malloc_host, Evidence
    <2>3. QED
      BY <1>4, <2>1, <2>2 DEF malloc_host, Passed
  <1>5. CASE h2d
    <2>1. CASE Abandon({"DEVICE", "HOST"})
      BY <1>5, <2>1, AbandonEvidence DEF h2d
    <2>2. CASE /\ step' = "KERNEL" /\ UNCHANGED report
               /\ device' \in Spoiled(host) /\ UNCHANGED host
      BY <1>5, <2>2 DEF h2d, Evidence, Spoiled
    <2>3. QED
      BY <1>5, <2>1, <2>2 DEF h2d
  <1>6. CASE invert
    <2>1. CASE Abandon({"DEVICE", "HOST"})
      BY <1>6, <2>1, AbandonEvidence DEF invert
    <2>2. CASE /\ step' = "D2H" /\ report' = [report EXCEPT !.kernel = TRUE]
               /\ device' \in Spoiled(Inverse(device))
      <3>1. /\ report' \in Report /\ report'.kernel /\ report'.pinned_host = report.pinned_host
            /\ report'.support = report.support /\ report'.allocation = report.allocation
            /\ report'.device_discovery = report.device_discovery
        BY <2>2 DEF Evidence, Report
      <3>2. device' \in {"INVERSE", "OTHER"}
        BY <1>6, <2>2 DEF invert, Evidence, Spoiled, Inverse
      <3>3. QED
        BY <1>6, <2>2, <3>1, <3>2 DEF invert, Evidence
    <2>3. QED
      BY <1>6, <2>1, <2>2 DEF invert, Passed
  <1>7. CASE d2h
    <2>1. CASE Abandon({"DEVICE", "HOST"})
      BY <1>7, <2>1, AbandonEvidence DEF d2h
    <2>2. CASE /\ step' = "BASELINE" /\ host' \in Spoiled(device)
               /\ report' = [report EXCEPT !.cpu_parity = host' = "INVERSE"]
               /\ UNCHANGED device
      <3>1. /\ report' \in Report
            /\ report'.cpu_parity => host' = "INVERSE"
            /\ report'.kernel = report.kernel /\ report'.pinned_host = report.pinned_host
            /\ report'.support = report.support /\ report'.allocation = report.allocation
            /\ report'.device_discovery = report.device_discovery
        BY <2>2 DEF Evidence, Report
      <3>2. host' = "INVERSE" => device' = "INVERSE"
        BY <2>2 DEF Spoiled
      <3>3. QED
        BY <1>7, <2>2, <3>1, <3>2 DEF d2h, Evidence
    <2>3. QED
      BY <1>7, <2>1, <2>2 DEF d2h
  <1>8. CASE baseline_return
    <2>1. step = "BASELINE" /\ step' = "IDLE" /\ UNCHANGED <<device, host>>
      BY <1>8 DEF baseline_return
    <2>2. PICK back \in BOOLEAN :
             report' = [report EXCEPT !.baseline_return = back,
                                      !.support = Verdict(report.cpu_parity, back)]
      <3>1. PICK free1 \in {free, 0} :
               report' = [report EXCEPT
                            !.baseline_return = free1 + 2 >= free0,
                            !.support = Verdict(report.cpu_parity, free1 + 2 >= free0)]
        BY <1>8 DEF baseline_return
      <3>2. (free1 + 2 >= free0) \in BOOLEAN
        OBVIOUS
      <3>3. QED
        BY <3>1, <3>2, Zenon
    <2>3. /\ report' \in Report
          /\ report'.support = "REAL" => report'.baseline_return /\ report.cpu_parity
          /\ report'.cpu_parity = report.cpu_parity /\ report'.kernel = report.kernel
          /\ report'.pinned_host = report.pinned_host /\ report'.allocation = report.allocation
          /\ report'.device_discovery = report.device_discovery
      BY <2>2 DEF Evidence, Report, Verdict
    <2>4. QED
      BY <2>1, <2>3 DEF Evidence
  <1>9. QED
    BY <1>1, <1>2, <1>3, <1>4, <1>5, <1>6, <1>7, <1>8 DEF CudaNext

\* A report says REAL only if every call was passed and the device did hold
\* the inverse of the original.
THEOREM RealIsProved == CudaSpec => []RealMeansProved
  <1>1. CudaInit => Evidence
    BY DEF CudaInit, Evidence, NewReport, Report
  <1>2. Evidence => RealMeansProved
    <2> SUFFICES ASSUME Evidence, report.support = "REAL" PROVE RealMeansProved
      BY DEF RealMeansProved
    <2>1. DOMAIN report = {"device_discovery", "allocation", "pinned_host", "kernel",
                           "cpu_parity", "baseline_return", "support"}
      BY DEF Evidence, Report
    <2>2. QED
      BY <2>1 DEF Evidence, RealMeansProved
  <1>3. QED
    BY <1>1, <1>2, EvidenceStep, PTL DEF CudaSpec

-------------------------------------------------------------------------------
\* The records follow the count of the last discovery.
CountInv ==
    /\ device_count \in Nat
    /\ discovered \in BOOLEAN
    /\ device_count > 0 => discovered
    /\ devices \in Seq(Nat) /\ Len(devices) = device_count
    /\ providers = IF device_count = 0 THEN <<>> ELSE <<"cuda">>

\* However devices appear and vanish between discoveries, records,
\* provider and availability agree.
THEOREM DiscoveryStaysConsistent == CudaSpec => []DiscoveryIsConsistent
  <1>1. CudaInit => CountInv
    <2> SUFFICES ASSUME CudaInit PROVE CountInv
      OBVIOUS
    <2>1. discovered \in BOOLEAN
      BY Zenon DEF CudaInit
    <2>2. /\ device_count = 0 /\ devices \in Seq(Nat) /\ Len(devices) = 0
          /\ providers = <<>>
      BY DEF CudaInit
    <2>3. QED
      BY <2>1, <2>2 DEF CountInv
  <1>2. CountInv /\ [CudaNext]_cudaVars => CountInv'
    <2> SUFFICES ASSUME CountInv, [CudaNext]_cudaVars PROVE CountInv'
      OBVIOUS
    <2>1. CASE discover
      <3>1. PICK count \in 0..MaxDevices :
               /\ device_count' = count
               /\ devices' = [i \in 1..count |-> i]
               /\ providers' = IF count = 0 THEN <<>> ELSE <<"cuda">>
               /\ discovered' = (discovered \/ count > 0)
        BY <2>1 DEF discover
      <3>2. count \in Nat
        BY CudaAssumption
      <3>3. devices' \in Seq(Nat) /\ Len(devices') = count
        BY <3>1, <3>2
      <3>4. discovered' \in BOOLEAN /\ (count > 0 => discovered')
        BY <3>1
      <3>5. QED
        BY <3>1, <3>2, <3>3, <3>4 DEF CountInv
    <2>2. CASE UNCHANGED inventoryVars
      BY <2>2 DEF inventoryVars, CountInv
    <2>3. QED
      BY <2>1, <2>2 DEF CudaNext, cudaVars, At, others, self_test, malloc, malloc_host, h2d,
                        invert, d2h, baseline_return
  <1>3. CountInv => DiscoveryIsConsistent
    <2> SUFFICES ASSUME CountInv PROVE DiscoveryIsConsistent
      OBVIOUS
    <2>1. device_count \in Nat /\ devices \in Seq(Nat) /\ Len(devices) = device_count
      BY DEF CountInv
    <2>2. available <=> device_count > 0
      BY DEF CountInv, available
    <2>3. devices = <<>> <=> device_count = 0
      BY <2>1
    <2>4. QED
      BY <2>1, <2>2, <2>3 DEF CountInv, DiscoveryIsConsistent
  <1>4. QED
    BY <1>1, <1>2, <1>3, PTL DEF CudaSpec
===============================================================================
