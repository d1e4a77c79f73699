-------------------------------- MODULE Delta -------------------------------
(***************************************************************************)
(* The delta algorithm and the stream an upload is sent as (disk-core      *)
(* delta/, disk-client connection.rs).  A file is cut into blocks of fixed *)
(* size; each has a weak checksum that can be rolled along the file and a  *)
(* strong hash.  A plan names blocks of the base where both agree and      *)
(* carries the others.  The strong hash is injective: it is the block.     *)
(***************************************************************************)
EXTENDS Naturals, Sequences, SequencesExt, FiniteSetsExt

CONSTANTS
    Octets,      \* byte values
    BlockSize,   \* BLOCK_SIZE
    MaxLength,   \* bound on the length of a file
    Modulus      \* MOD_ADLER

ASSUME DeltaAssumption ==
    /\ BlockSize \in Nat \ {0} /\ Modulus \in Nat \ {0}
    /\ \A b \in Octets : b \in 0..(Modulus - 1)

VARIABLES
    baseD,       \* the server's copy
    clientD,     \* the client's copy
    planD,       \* entries planned so far
    outD,        \* [bytes, applied, err]: what apply_plan has put together
    windowD      \* [at, sum]: a rolling checksum along the client's copy

deltaVars == <<baseD, clientD, planD, outD, windowD>>

Files == UNION {[1..n -> Octets] : n \in 0..MaxLength}

\* adler32_full, with zero start; the pair stands for the packed word.
Adler(s) ==
    FoldLeft(LAMBDA sum, b : LET s1 == (sum[1] + b) % Modulus
                             IN  <<s1, (sum[2] + s1) % Modulus>>,
             <<0, 0>>, s)

\* RollingChecksum::roll.
Roll(sum, n, removed, added) ==
    LET s1 == (sum[1] + added + Modulus - removed) % Modulus
    IN  <<s1, (sum[2] + s1 + Modulus * n - n * removed) % Modulus>>

\* chunks: the last block may be shorter, an empty file has none.
Chunks(s) ==
    LET count == (Len(s) + BlockSize - 1) \div BlockSize
        block(i) == SubSeq(s, (i - 1) * BlockSize + 1, Min({i * BlockSize, Len(s)}))
    IN  [i \in 1..count |-> [offset |-> (i - 1) * BlockSize, weak |-> Adler(block(i)),
                             strong |-> block(i), data |-> block(i)]]

\* base_index: of equal blocks the map keeps the last one.
Located(base, chunk) ==
    {c.offset : c \in {d \in Range(Chunks(base)) :
                          d.weak = chunk.weak /\ d.strong = chunk.strong}}

\* MUTANT: every block of the base is taken to have the full size.
HitLengthFull(base, offset) == BlockSize

\* The length of the block at that offset.
HitLength(base, offset) ==
    Len((CHOOSE c \in Range(Chunks(base)) : c.offset = offset).data)

\* build_plan_with_data, one entry.
PlanEntry(base, chunk) ==
    IF Located(base, chunk) # {}
    THEN LET o == Max(Located(base, chunk))
         IN  [hit |-> TRUE, offset |-> o, len |-> HitLength(base, o), data |-> <<>>]
    ELSE [hit |-> FALSE, offset |-> 0, len |-> 0, data |-> chunk.data]

\* apply_plan, one entry: a hit outside the base or a miss without data is an error.
ApplyEntry(base, out, e) ==
    IF \/ e.hit /\ e.offset + e.len > Len(base)
       \/ ~e.hit /\ e.data = <<>>
    THEN [out EXCEPT !.err = TRUE]
    ELSE [bytes   |-> out.bytes \o (IF e.hit THEN SubSeq(base, e.offset + 1, e.offset + e.len)
                                    ELSE e.data),
          applied |-> out.applied + 1, err |-> FALSE]

\* delta_upload: path and hash travel in the first message, an empty file is one
\* message without a block.
UploadMessages(s) ==
    IF Chunks(s) = <<>> THEN <<[named |-> TRUE, data |-> <<>>]>>
    ELSE [i \in DOMAIN Chunks(s) |-> [named |-> i = 1, data |-> Chunks(s)[i].data]]

\* download_file: the blocks of the stream, end to end.
Reassembled(msgs) == FlattenSeq([i \in DOMAIN msgs |-> msgs[i].data])

DeltaInit ==
    /\ baseD \in Files /\ clientD \in Files
    /\ planD = <<>>
    /\ outD = [bytes |-> <<>>, applied |-> 0, err |-> FALSE]
    /\ windowD = [at |-> 0, sum |-> Adler(SubSeq(clientD, 1, Min({BlockSize, Len(clientD)})))]

PlanStep ==
    /\ Len(planD) < Len(Chunks(clientD))
    /\ planD' = Append(planD, PlanEntry(baseD, Chunks(clientD)[Len(planD) + 1]))
    /\ UNCHANGED <<baseD, clientD, outD, windowD>>

ApplyStep ==
    /\ Len(planD) = Len(Chunks(clientD)) /\ outD.applied < Len(planD) /\ ~outD.err
    /\ outD' = ApplyEntry(baseD, outD, planD[outD.applied + 1])
    /\ UNCHANGED <<baseD, clientD, planD, windowD>>

RollStep ==
    /\ windowD.at + BlockSize < Len(clientD)
    /\ windowD' = [at  |-> windowD.at + 1,
                   sum |-> Roll(windowD.sum, BlockSize, clientD[windowD.at + 1],
                                clientD[windowD.at + BlockSize + 1])]
    /\ UNCHANGED <<baseD, clientD, planD, outD>>

DeltaNext == PlanStep \/ ApplyStep \/ RollStep

DeltaSpec == DeltaInit /\ [][DeltaNext]_deltaVars

(***************************************************************************)
(* Properties                                                              *)
(***************************************************************************)
\* Applying the plan to the base never fails and gives the client's file, repeated
\* and short blocks included (build_plan_with_data, apply_plan).
DeltaRoundTrip ==
    /\ ~outD.err
    /\ outD.bytes = FlattenSeq([i \in 1..outD.applied |-> Chunks(clientD)[i].data])
    /\ outD.applied = Len(Chunks(clientD)) => outD.bytes = clientD

\* A checksum rolled byte by byte is the checksum of the window it stands on
\* (RollingChecksum against adler32_full).
RollAgrees ==
    windowD.sum = Adler(SubSeq(clientD, windowD.at + 1,
                               Min({windowD.at + BlockSize, Len(clientD)})))

\* The stream of an upload names its path exactly once, in the first message, and
\* its blocks are the file, whatever its length (delta_upload, download_file).
StreamCarriesFile ==
    LET msgs == UploadMessages(clientD)
    IN  /\ Reassembled(msgs) = clientD
        /\ {i \in DOMAIN msgs : msgs[i].named} = {1}

\* A delta transfer delivers exactly the sender's file: the plan, the rolling
\* checksum it is found with and the stream that carries it (build_plan_with_data,
\* RollingChecksum, delta_upload).
TransferExact == DeltaRoundTrip /\ RollAgrees /\ StreamCarriesFile
=============================================================================
