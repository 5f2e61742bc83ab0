---------------------------- MODULE StreamFormat ----------------------------
(***************************************************************************)
(* The "avc" and "hvc1" stream formats, in which parameter sets travel in  *)
(* the caps and a length stands before each NAL unit: the encoder element  *)
(* makes codec_data (GetCodecExtraData() and BitstreamWriter) and turns    *)
(* start codes into lengths (write_nalu_length()); the decoder element     *)
(* turns codec_data (ConstructHeader()) and lengths                        *)
(* (convert_avcc_to_bytestream()) back.                                    *)
(*                                                                         *)
(* One H.264 stream goes from an encoder to a decoder; of HEVC there is    *)
(* only the encoder's half.  Bytes are numbers, an offset in a bitstream   *)
(* counts from 0.  An iteration of a loop over NAL units or parameter sets *)
(* is one step.  That the decoder's buffer for the header grows is left    *)
(* out.                                                                    *)
(***************************************************************************)
EXTENDS Integers, Sequences, FiniteSets, FiniteSetsExt, SequencesExt

CONSTANTS
  RecordSize,  \* bytes of codec_data_size the encoder provides for
  VpsSets, SpsSets, PpsSets,  \* parameter sets the codec may report
  NalUnits,    \* NAL units of a frame, without start codes
  MaxNals,     \* bound: NAL units in a frame
  MaxRoom,     \* bound: bytes free behind a coded frame
  MaxLost      \* bound: bytes lost from the end of codec_data

Bytes == 0 .. 255
ASSUME SetsAssumption ==
  /\ VpsSets \cup SpsSets \cup PpsSets \cup NalUnits \subseteq Seq(Bytes) \ {<<>>}
  /\ \A sps \in SpsSets : Len(sps) >= 4
ASSUME BoundsAssumption == {RecordSize, MaxNals, MaxRoom, MaxLost} \subseteq Nat

VARIABLES
  codec, vps, sps, pps,  \* what the encoder codes
  pc,
  codec_data,            \* in the caps
  data, sets, header,    \* ConstructHeader(): what is left to read, sets to come,
                         \*   bst_header
  nals, room,            \* the frame the codec made; free bytes behind it
  bst, begin,            \* the bitstream, as it is converted; place of the loop
  stream                 \* what the decoder reads

config == <<codec, vps, sps, pps>>
reading == <<data, sets, header>>
frame == <<nals, room>>
vars == <<config, pc, codec_data, reading, frame, bst, begin, stream>>

-----------------------------------------------------------------------------
(* BitstreamWriter: the bytes written, and whether it failed: EndOfBuffer  *)
(* was thrown, which nobody catches, or its assertion failed.              *)

Writer(size, emulationControl) ==
  [bytes |-> <<>>, failed |-> FALSE, size |-> size, control |-> emulationControl]

\* A zero, one, two or three behind two zeros would look like a start code.
Emulates(bytes, byte) ==
  byte <= 3 /\ Len(bytes) >= 2 /\ SubSeq(bytes, Len(bytes) - 1, Len(bytes)) = <<0, 0>>

PutRawBytes(w, bytes) ==
  IF Len(w.bytes \o bytes) > w.size THEN [w EXCEPT !.failed = TRUE]
                                    ELSE [w EXCEPT !.bytes = @ \o bytes]

\* The eighth PutBit() of a byte.
PutByte(w, byte) ==
  PutRawBytes(w, IF w.control /\ Emulates(w.bytes, byte) THEN <<3, byte>> ELSE <<byte>>)

Number(bits) == FoldLeft(LAMBDA n, b : 2 * n + b, 0, bits)

\* PutBits() of fields, each a value and its width: the low bits, the highest of
\* them first.  Raw bytes follow, so the fields must come to whole bytes.
Bits(field) == [i \in 1 .. field[2] |-> (field[1] \div 2 ^ (field[2] - i)) % 2]
PutFields(w, fields) ==
  LET bits == FlattenSeq([i \in DOMAIN fields |-> Bits(fields[i])])
      bytes == [i \in 1 .. Len(bits) \div 8 |-> Number(SubSeq(bits, 8 * i - 7, 8 * i))]
      written == FoldLeft(PutByte, w, bytes)
  IN  IF Len(bits) % 8 = 0 THEN written ELSE [written EXCEPT !.failed = TRUE]

-----------------------------------------------------------------------------
(* GetCodecExtraData().                                                    *)

\* AVCDecoderConfigurationRecord: version, profile, compatibility, level, size of
\* a length less one, one set of each kind.
AvcRecord ==
  LET fixed == PutFields(Writer(RecordSize, TRUE),
                 <<<<1, 8>>, <<sps[2], 8>>, <<sps[3], 8>>, <<sps[4], 8>>,
                   <<63, 6>>, <<3, 2>>, <<7, 3>>, <<1, 5>>, <<Len(sps), 16>>>>)
      first == PutFields(PutRawBytes(fixed, sps), <<<<1, 8>>, <<Len(pps), 16>>>>)
  IN  PutRawBytes(first, pps)

HevcArray(w, type, set) ==
  PutRawBytes(PutFields(w, <<<<0, 1>>, <<0, 1>>, <<type, 6>>, <<1, 16>>, <<Len(set), 16>>>>),
              set)

\* HEVCDecoderConfigurationRecord, of Main profile, level 4, progressive: the
\* fields of profile, tier, level and format, then an array of each kind of set.
HevcFields ==
  <<<<1, 8>>, <<0, 2>>, <<0, 1>>, <<1, 5>>, <<2 ^ 22, 24>>, <<0, 8>>,
    <<1, 1>>, <<0, 1>>, <<0, 1>>, <<0, 1>>, <<0, 24>>, <<0, 20>>, <<120, 8>>,
    <<15, 4>>, <<0, 12>>, <<63, 6>>, <<0, 2>>, <<63, 6>>, <<1, 2>>,
    <<31, 5>>, <<1, 3>>, <<31, 5>>, <<1, 3>>, <<0, 16>>, <<0, 2>>, <<0, 3>>,
    <<0, 1>>, <<3, 2>>, <<3, 8>>>>
HevcRecord ==
  HevcArray(HevcArray(HevcArray(PutFields(Writer(RecordSize, FALSE), HevcFields),
                                32, vps), 33, sps), 34, pps)

Record == IF codec = "avc" THEN AvcRecord ELSE HevcRecord

Init ==
  /\ codec \in {"avc", "hevc"}
  /\ vps \in VpsSets /\ sps \in SpsSets /\ pps \in PpsSets
  /\ pc = "caps"
  /\ codec_data = <<>>
  /\ data = <<>> /\ sets = 0 /\ header = <<>>
  /\ nals = <<>> /\ room = 0
  /\ bst = <<>> /\ begin = 0
  /\ stream = <<>>

\* GetOutCaps(): codec_data goes into the caps, unless the codec does not report
\* its sets; a decoder may meet a record cut short.
MakeCodecData ==
  /\ pc = "caps"
  /\ \/ /\ Record.failed
        /\ pc' = "terminated" /\ UNCHANGED codec_data
     \/ /\ ~Record.failed
        /\ \E lost \in 0 .. MaxLost :
             codec_data' = SubSeq(Record.bytes, 1, Len(Record.bytes) - lost)
        /\ pc' = IF codec = "avc" THEN "fixed" ELSE "encode"
     \/ /\ pc' = "encode" /\ UNCHANGED codec_data
  /\ UNCHANGED <<config, reading, frame, bst, begin, stream>>

-----------------------------------------------------------------------------
(* ConstructHeader().  Any record too short ends it, and LoadToNativeFormat() *)
(* takes no notice: the decoder then goes without the sets.                *)

StartCode == <<0, 0, 0, 1>>
Skip(s, n) == SubSeq(s, n + 1, Len(s))

SetLength == 256 * data[1] + data[2]
TooShort ==
  /\ \/ pc = "fixed" /\ Len(codec_data) < 5
     \/ pc \in {"spsCount", "ppsCount"} /\ Len(data) < 1
     \/ pc \in {"sps", "pps"} /\ sets > 0
          /\ (Len(data) >= 2 => Len(data) - 2 < SetLength)
  /\ data' = <<>> /\ sets' = 0 /\ header' = <<>>
  /\ pc' = "encode"
  /\ UNCHANGED <<config, codec_data, frame, bst, begin, stream>>

SkipFixed ==
  /\ pc = "fixed" /\ Len(codec_data) >= 5
  /\ data' = Skip(codec_data, 5)
  /\ pc' = "spsCount"
  /\ UNCHANGED <<config, codec_data, sets, header, frame, bst, begin, stream>>

\* Mutant of SpsCount: the reserved bits are taken for part of the count.
SpsCountUnmasked == data[1]

SpsCount == data[1] % 32

ReadCount ==
  /\ Len(data) >= 1
  /\ \/ pc = "spsCount" /\ sets' = SpsCount /\ pc' = "sps"
     \/ pc = "ppsCount" /\ sets' = data[1] /\ pc' = "pps"
  /\ data' = Skip(data, 1)
  /\ UNCHANGED <<config, codec_data, header, frame, bst, begin, stream>>

ReadSet ==
  /\ pc \in {"sps", "pps"} /\ sets > 0
  /\ Len(data) >= 2 /\ Len(data) - 2 >= SetLength
  /\ header' = header \o StartCode \o SubSeq(data, 3, 2 + SetLength)
  /\ data' = Skip(data, 2 + SetLength)
  /\ sets' = sets - 1
  /\ UNCHANGED <<config, pc, codec_data, frame, bst, begin, stream>>

\* After the last set of a kind; then Append() to the decoder's bitstream.
ReadAll ==
  /\ sets = 0
  /\ \/ pc = "sps" /\ pc' = "ppsCount" /\ UNCHANGED <<data, header, stream>>
     \/ /\ pc = "pps" /\ pc' = "encode"
        /\ stream' = stream \o header
        /\ data' = <<>> /\ header' = <<>>
  /\ UNCHANGED <<config, codec_data, sets, frame, bst, begin>>

-----------------------------------------------------------------------------
(* The encoder's sync thread: write_nalu_length().                         *)

\* The frame as the codec made it, each NAL unit behind a start code of 3 or 4 bytes.
Prefix(zeros) == SubSeq(StartCode, 4 - zeros, 4)
AsCoded(units) ==
  FlattenSeq([i \in DOMAIN units |-> Prefix(units[i].zeros) \o units[i].nal])

\* What GetMaxBitstreamSize() leaves behind the frame.
Rooms == 0 .. MaxRoom

Encode ==
  /\ pc = "encode"
  /\ \E n \in 1 .. MaxNals :
       nals' \in [1 .. n -> [zeros : {2, 3}, nal : NalUnits]]
  /\ room' \in Rooms
  /\ bst' = AsCoded(nals')
  /\ begin' = 0
  /\ pc' = "lengths"
  /\ UNCHANGED <<config, codec_data, reading, stream>>

ZeroZeroOne(i) == SubSeq(bst, i + 1, i + 3) = <<0, 0, 1>>
NoNal == [begin |-> -1, end |-> -1, numZero |-> 0]

\* Mutant of NalEnd: the first zero of a longer start code is left to the NAL unit.
NalEndAtOne(next) == next

NalEnd(next) == IF bst[next] = 0 THEN next - 1 ELSE next

\* GetNalUnit(begin, end): the first start code with a byte and two more behind it,
\* up to the next one.
GetNalUnit(end) ==
  LET starts == {i \in begin .. end - 6 :
                   ZeroZeroOne(i) \/ (bst[i + 1] = 0 /\ ZeroZeroOne(i + 1))}
      b == Min(starts)
      nexts == {i \in b + 4 .. end - 5 : ZeroZeroOne(i)}
  IN  IF starts = {} THEN NoNal
      ELSE [begin |-> b,
            end |-> IF nexts = {} THEN end ELSE NalEnd(Min(nexts)),
            numZero |-> IF ZeroZeroOne(b) THEN 2 ELSE 3]

\* set_u32()
U32(n) == <<(n \div 2 ^ 24) % 256, (n \div 2 ^ 16) % 256, (n \div 2 ^ 8) % 256, n % 256>>

\* get_u32()
GetU32(bytes) == FoldLeft(LAMBDA n, byte : 256 * n + byte, 0, bytes)

\* The length replaces the start code; one of three bytes needs a byte more.
WriteLength ==
  LET nalu == GetNalUnit(Len(bst))
      more == 3 - nalu.numZero
  IN  /\ pc = "lengths"
      /\ nalu # NoNal
      /\ more <= room
      /\ bst' = SubSeq(bst, 1, nalu.begin) \o U32(nalu.end - nalu.begin - nalu.numZero - 1)
                  \o Skip(bst, nalu.begin + nalu.numZero + 1)
      /\ room' = room - more
      /\ begin' = nalu.end + more
      /\ UNCHANGED <<config, pc, codec_data, reading, nals, stream>>

\* MFX_ERR_NOT_ENOUGH_BUFFER: the sync task drops the frame.
NoRoom ==
  LET nalu == GetNalUnit(Len(bst))
  IN  /\ pc = "lengths"
      /\ nalu # NoNal
      /\ 3 - nalu.numZero > room
      /\ pc' = "dropped"
      /\ UNCHANGED <<config, codec_data, reading, frame, bst, begin, stream>>

\* The buffer is pushed, to a decoder that reads it from its beginning.
LengthsWritten ==
  /\ pc = "lengths"
  /\ GetNalUnit(Len(bst)) = NoNal
  /\ begin' = 0
  /\ pc' = IF codec = "avc" THEN "startCodes" ELSE "pushed"
  /\ UNCHANGED <<config, codec_data, reading, frame, bst, stream>>

-----------------------------------------------------------------------------
(* The decoder's task thread: convert_avcc_to_bytestream().                *)

WriteStartCode ==
  /\ pc = "startCodes"
  /\ begin < Len(bst) - 5
  /\ begin' = begin + 4 + GetU32(SubSeq(bst, begin + 1, begin + 4))
  /\ bst' = SubSeq(bst, 1, begin) \o StartCode \o Skip(bst, begin + 4)
  /\ UNCHANGED <<config, pc, codec_data, reading, frame, stream>>

\* Append() to what was not read of the header.
Load ==
  /\ pc = "startCodes"
  /\ begin >= Len(bst) - 5
  /\ stream' = stream \o bst
  /\ pc' = "loaded"
  /\ UNCHANGED <<config, codec_data, reading, frame, bst, begin>>

Next ==
  \/ MakeCodecData \/ TooShort \/ SkipFixed \/ ReadCount \/ ReadSet \/ ReadAll
  \/ Encode \/ WriteLength \/ NoRoom \/ LengthsWritten
  \/ WriteStartCode \/ Load

Spec == Init /\ [][Next]_vars

-----------------------------------------------------------------------------
(* Properties.                                                             *)

Each(prefix(_), units) ==
  FlattenSeq([i \in DOMAIN units |-> prefix(units[i]) \o units[i].nal])
Lengths(units) == Each(LAMBDA u : U32(Len(u.nal)), units)
StartCodes(units) == Each(LAMBDA u : StartCode, units)

(***************************************************************************)
(* The loops stop some bytes before the end of the frame, so the last NAL  *)
(* unit must not be too short: three bytes, or two behind a start code of  *)
(* four.  (An end-of-sequence NAL unit has one.)                           *)
(***************************************************************************)
Convertible ==
  LET last == nals[Len(nals)] IN Len(last.nal) >= IF last.zeros = 2 THEN 3 ELSE 2

(***************************************************************************)
(* A frame the encoder pushes is its NAL units, each behind its length,    *)
(* whatever start codes the codec chose; and it is dropped only if there   *)
(* was less room behind it than it has start codes of three bytes.         *)
(***************************************************************************)
Inserted == Len(bst) - Len(AsCoded(nals))
LengthsAreRight ==
  /\ pc \in {"startCodes", "pushed"} /\ begin = 0 /\ Convertible => bst = Lengths(nals)
  /\ pc = "dropped" => Inserted + room < Cardinality({i \in DOMAIN nals : nals[i].zeros = 2})

(***************************************************************************)
(* What the decoder reads are the parameter sets the encoder reported and  *)
(* then the NAL units of the frame, each behind a start code of four       *)
(* bytes; no sets if codec_data was cut, but never some of them.  A reader *)
(* of the HEVC record finds its arrays behind 22 bytes and their number.   *)
(***************************************************************************)
Complete == codec_data = Record.bytes
HevcArrays ==
  FlattenSeq([i \in 1 .. 3 |-> LET set == <<vps, sps, pps>>[i]
                               IN  <<31 + i, 0, 1, 0, Len(set)>> \o set])
StreamIsDecodable ==
  /\ pc = "loaded" /\ Convertible =>
       stream = (IF Complete THEN StartCode \o sps \o StartCode \o pps ELSE <<>>)
                  \o StartCodes(nals)
  /\ pc = "pushed" /\ Complete => Skip(codec_data, 22) = <<3>> \o HevcArrays
=============================================================================
