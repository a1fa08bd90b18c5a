----------------------------- MODULE MCDataPath -----------------------------
(***************************************************************************)
(* The functions of a sample that no interrupt reaches into: the checks of *)
(* its buffers, the encoding of its inputs, the decoding of its outputs.   *)
(* They share no state, so a behaviour exercises one of the three while    *)
(* the others rest.                                                        *)
(***************************************************************************)
EXTENDS SampleLayout, InputCodec, OutputCodec

\* Buffers in an address space of 32 bytes, aligned and not, disjoint, equal
\* and overlapping, with strides of one row, more and less.
MCLayouts ==
  [inBase : {0, 4, 5}, inBytes : {1, 3}, inStride : {0, 3, 4, 9},
   inCapacity : {6, 12}, outBase : {0, 2, 4, 8, 12, 24}, elements : {1, 2},
   outStride : {0, 3, 4, 6, 9}, outCapacity : {7, 12, 16},
   voltage : BOOLEAN, timesteps : {1, 2, 3, 5}]

DType(b, s) == [bits |-> b, signed |-> s]

\* Three entries on three of four bytes, the last two of which may be unfit;
\* all address bits and time stamps at their limits.
In(e, d, lcn, tick, axon, offset) ==
  [elem |-> e, dtype |-> d, lcn |-> lcn, tick |-> tick, axon |-> axon,
   offset |-> offset]
MCInputEntries ==
  {<<In(1, d, 0, 0, 511, -31), In(2, d, 7, bad[1], bad[2], bad[3]),
     In(3, d, lcn, 1, 256, 31), In(1, d, 1, 1, 0, 0)>> :
     d \in {DType(1, FALSE), DType(2, TRUE), DType(8, FALSE), DType(8, TRUE)},
     lcn \in {1, 6},
     bad \in {<<127, 0, 0>>, <<128, 0, 0>>, <<127, 512, 0>>, <<127, 0, 32>>}}
MCInputRows ==
  [entries : MCInputEntries, timestep : {1, 127, 128, 256},
   bytes : {<<a, b, c>> : a \in {0, 1}, b \in {0, 1, 128},
                          c \in {0, 7, 255}}]

Out(kind, d, lcn, elements, timesteps, elemAt, fires) ==
  [kind |-> kind, dtype |-> d, lcn |-> lcn, elements |-> elements,
   timesteps |-> timesteps, elemAt |-> elemAt, fires |-> fires]
Word32 == DType(8, FALSE)  \* a voltage has no dtype in the codec's table
VoltageAxons(n) ==
  {ExpectedAxon([kind |-> "voltage"], e) : e \in 0..n - 1}
VoltageElements(n) ==
  [axon \in VoltageAxons(n) |->
     CHOOSE e \in 0..n - 1 : ExpectedAxon([kind |-> "voltage"], e) = axon]

\* Regular layouts, permuted ones, addresses beyond the axon field, elements
\* missing, time stamps just wide enough and not.
MCViews ==
  {Out("data", DType(1, FALSE), 0, 3, 2, [a \in 0..2 |-> a], 0..2),
   Out("data", DType(1, FALSE), 7, 2, 2, [a \in 0..1 |-> a], 0..1),
   Out("data", DType(1, FALSE), 7, 2, 3, [a \in 0..1 |-> a], 0..1),
   Out("data", DType(1, FALSE), 1, 2, 2, [a \in 0..1 |-> 1 - a], 0..1),
   Out("data", DType(1, FALSE), 0, 2, 2, [a \in 1..2 |-> a - 1], 0..1),
   Out("data", DType(2, TRUE), 1, 3, 2,
       [a \in {7, 600} |-> IF a = 7 THEN 2 ELSE 0], {0, 2}),
   Out("data", DType(8, TRUE), 7, 2, 2,
       [a \in {1, 65535} |-> IF a = 1 THEN 0 ELSE 1], 0..1),
   Out("voltage", Word32, 0, 9, 2, VoltageElements(9), {8}),
   Out("voltage", Word32, 7, 2, 2,
       [a \in {32, 518} |-> IF a = 32 THEN 1 ELSE 0], 0..1)}

MCFrames ==
  {Pack(header, 0, stamp, axon, payload) :
     header \in {8, 10, 12}, stamp \in {0, 1, 255},
     axon \in {0, 2, 8, 15, 56, 511}, payload \in {1, 2}}

\* A component that rests: nothing was asked of it, and it has no step.
LayoutRests ==
  /\ layout = CHOOSE l \in Layouts : TRUE
  /\ status = "NONE"
InputRests ==
  /\ call = CHOOSE r \in InputRows : TRUE
  /\ capacity = 1
  /\ entryIndex = 0
  /\ workspace = <<>>
  /\ sent = <<>>
  /\ sending = "NONE"
OutputRests ==
  /\ view = CHOOSE v \in Views : v.kind = "data"
  /\ submitted = 0
  /\ output = <<>>
  /\ received = <<>>
  /\ outcome = "NONE"
  /\ told = <<>>
  /\ frameCount = 0

DataPathInit ==
  \/ Init /\ InputRests /\ OutputRests
  \/ LayoutRests /\ InputInit /\ OutputRests
  \/ LayoutRests /\ InputRests /\ OutputInit
DataPathNext ==
  \/ Next /\ UNCHANGED <<inputVars, outputVars>>
  \/ InputNext /\ UNCHANGED <<layoutVars, outputVars>>
  \/ OutputNext /\ UNCHANGED <<layoutVars, inputVars>>
DataPathSpec ==
  DataPathInit /\ [][DataPathNext]_<<layoutVars, inputVars, outputVars>>
=============================================================================
