---------------------------- MODULE SessionStore ----------------------------
(***************************************************************************)
(* backend/internal/storage: the files of one session.  OnFrameComplete      *)
(* runs on the read loop that completed a frame, outside every lock, and     *)
(* Composite on the session's sweep loop, perhaps at the same time.          *)
(* A picture is what a file decodes to: its size and the three channels of   *)
(* every pixel.  Encoding a JPEG again loses detail (Recode).                *)
(***************************************************************************)
EXTENDS Integers, FiniteSetsExt

CONSTANTS
  FrameIDs, ReadLoops,
  Setups,       \* the codecs the client sends, of "jpeg", "webp", "raw", "h264"; ffmpeg or not
  Pictures,     \* for each codec, what the bytes of a frame may decode to
  Corrupt,      \* bytes that decode to nothing
  Width, Height,  \* the preset's
  MaxShift,     \* 6 in the code
  Quantum,      \* precision of a JPEG's channels
  MaxFaults     \* bound: failing writes, reads and ffmpeg processes

Cells(w, h) == (0 .. w - 1) \X (0 .. h - 1)
Channels    == 1 .. 3
Absent      == [w |-> 0, h |-> 0, pix |-> [p \in {} |-> <<>>]]
Torn        == [Absent EXCEPT !.w = 1]     \* cut off by a failed write
Whole(pic)  == pic \notin {Absent, Torn}

IsPicture(pic) ==
  /\ pic = [w |-> pic.w, h |-> pic.h, pix |-> pic.pix]
  /\ pic.w \in Nat \ {0} /\ pic.h \in Nat \ {0}
  /\ pic.pix \in [Cells(pic.w, pic.h) -> [Channels -> 0 .. 255]]

ASSUME StoreAssumption ==
  /\ FrameIDs \subseteq Nat /\ IsFiniteSet(FrameIDs)
  /\ Setups \subseteq (SUBSET {"jpeg", "webp", "raw", "h264"}) \X BOOLEAN
  /\ {Width, Height, MaxShift, MaxFaults} \subseteq Nat /\ Quantum \in Nat \ {0}
  /\ \A setup \in Setups : \A codec \in setup[1] :
       Corrupt \notin Pictures[codec] /\ \A pic \in Pictures[codec] : IsPicture(pic)
  /\ \A setup \in Setups : "raw" \in setup[1] =>       \* a plane has no size of its own:
       \A pic \in Pictures["raw"] :                     \* of the right length, it has the preset's
         pic.w * pic.h = Width * Height => pic.w = Width /\ pic.h = Height
  /\ Whole(Corrupt)

VARIABLES
  codecs, ffmpeg,     \* the codecs of the session's frames; ffmpegPath # ""
  disk,               \* the files of dir
  saved, skippedDecode,
  composite,          \* compositeFile and compositeFrames
  call,               \* where each read loop is inside OnFrameComplete
  returned,           \* what OnFrameComplete returned for each frame
  fusion,             \* where the sweep loop is inside Composite
  faults

vars == <<codecs, ffmpeg, disk, saved, skippedDecode, composite, call, returned, fusion, faults>>

File(f, ext)  == [frame |-> f, ext |-> ext]
CompositeJPG  == File(-1, "jpg")
NoFile        == File(-1, "none")
Files         == {File(f, ext) : f \in FrameIDs, ext \in {"jpg", "h264"}} \union {CompositeJPG}

Idle    == [pc |-> "idle", file |-> NoFile, pic |-> Absent]
NoFrames == [f \in {} |-> Absent]
NoFuse  == [pc |-> "idle", infos |-> {}, frames |-> NoFrames, out |-> Absent, n |-> 0]
NoComposite == [file |-> NoFile, frames |-> 0]

\* jpeg.Encode, ffmpeg: the picture to the precision of the format.
Recode(pic) == [pic EXCEPT !.pix = [p \in DOMAIN pic.pix |->
                  [c \in Channels |-> (pic.pix[p][c] \div Quantum) * Quantum]]]
\* A luma plane as a picture.
Gray(pic)   == [pic EXCEPT !.pix = [p \in DOMAIN pic.pix |->
                  [c \in Channels |-> pic.pix[p][1]]]]

Init ==
  /\ \E setup \in Setups : codecs = setup[1] /\ ffmpeg = setup[2]
  /\ disk = [file \in Files |-> Absent]
  /\ saved = [f \in FrameIDs |-> NoFile] /\ skippedDecode = FALSE
  /\ composite = NoComposite /\ fusion = NoFuse
  /\ call = [c \in ReadLoops |-> Idle]
  /\ returned = [f \in FrameIDs |-> "no"]
  /\ faults = 0

-----------------------------------------------------------------------------
(* OnFrameComplete                                                          *)

\* decodeAndWrite refuses what its codec cannot read; a stream is not looked at.
Decodes(codec, data) ==
  CASE codec = "h264" -> TRUE
    [] codec = "raw"  -> data # Corrupt /\ data.w * data.h = Width * Height
    [] OTHER          -> data # Corrupt

\* What is written of it.
Kept(codec, data) ==
  CASE codec \in {"jpeg", "h264"} -> data
    [] codec = "webp" -> Recode(data)
    [] codec = "raw"  -> Recode(Gray(data))

Enter(c, pc, file, pic) == call' = [call EXCEPT ![c] = [pc |-> pc, file |-> file, pic |-> pic]]

Return(c, f, result) ==
  /\ call' = [call EXCEPT ![c] = Idle]
  /\ returned' = [returned EXCEPT ![f] = result]

Extension_Swapped(codec) == IF codec = "h264" THEN "jpg" ELSE "h264"
Extension(codec) == IF codec = "h264" THEN "h264" ELSE "jpg"

\* The reassembler hands a frame over at most once.
OnFrameComplete(c, f, codec, data) ==
  /\ call[c] = Idle /\ returned[f] = "no"
  /\ \A d \in ReadLoops : call[d].file.frame # f
  /\ IF Decodes(codec, data)
     THEN /\ Enter(c, "write", File(f, Extension(codec)), Kept(codec, data))
          /\ UNCHANGED returned
     ELSE Return(c, f, "error")
  /\ UNCHANGED <<codecs, ffmpeg, disk, saved, skippedDecode, composite, fusion, faults>>

\* After the file: decode the stream, note that it cannot be, or save the frame.
AfterWrite(file) ==
  IF file.ext = "jpg" THEN "save" ELSE IF ffmpeg THEN "ffmpeg" ELSE "skip"

WriteBytes(c) ==
  /\ call[c].pc = "write"
  /\ disk' = [disk EXCEPT ![call[c].file] = call[c].pic]
  /\ Enter(c, AfterWrite(call[c].file), call[c].file, call[c].pic)
  /\ UNCHANGED <<codecs, ffmpeg, saved, skippedDecode, composite, returned, fusion, faults>>

\* os.WriteFile fails to open the file, which stays as it was, or to write it.
WriteFails(c) ==
  /\ call[c].pc = "write"
  /\ faults < MaxFaults /\ faults' = faults + 1
  /\ \E left \in {disk[call[c].file], Torn} : disk' = [disk EXCEPT ![call[c].file] = left]
  /\ Return(c, call[c].file.frame, "error")
  /\ UNCHANGED <<codecs, ffmpeg, saved, skippedDecode, composite, fusion>>

\* ffmpegToJPEG on a stream it can decode: the frame's file is now the JPEG.
FfmpegDecodes(c) ==
  /\ call[c].pc = "ffmpeg" /\ call[c].pic # Corrupt
  /\ LET jpg == File(call[c].file.frame, "jpg") pic == Recode(call[c].pic) IN
     /\ disk' = [disk EXCEPT ![jpg] = pic]
     /\ Enter(c, "save", jpg, pic)
  /\ UNCHANGED <<codecs, ffmpeg, saved, skippedDecode, composite, returned, fusion, faults>>

FfmpegFails_KeepsFrame(c) ==
  /\ call[c].pc = "ffmpeg"
  /\ IF call[c].pic = Corrupt THEN UNCHANGED faults ELSE faults < MaxFaults /\ faults' = faults + 1
  /\ \E left \in {Absent, Torn} : disk' = [disk EXCEPT ![File(call[c].file.frame, "jpg")] = left]
  /\ Enter(c, "save", File(call[c].file.frame, "jpg"), Torn)
  /\ UNCHANGED <<codecs, ffmpeg, saved, skippedDecode, composite, returned, fusion>>

\* The process fails, having written part of its output or none; the stream stays.
FfmpegFails(c) ==
  /\ call[c].pc = "ffmpeg"
  /\ IF call[c].pic = Corrupt THEN UNCHANGED faults ELSE faults < MaxFaults /\ faults' = faults + 1
  /\ \E left \in {Absent, Torn} : disk' = [disk EXCEPT ![File(call[c].file.frame, "jpg")] = left]
  /\ Return(c, call[c].file.frame, "error")
  /\ UNCHANGED <<codecs, ffmpeg, saved, skippedDecode, composite, fusion>>

SkipDecode(c) ==
  /\ call[c].pc = "skip"
  /\ skippedDecode' = TRUE
  /\ Enter(c, "save", call[c].file, call[c].pic)
  /\ UNCHANGED <<codecs, ffmpeg, disk, saved, composite, returned, fusion, faults>>

Save(c) ==
  /\ call[c].pc = "save"
  /\ saved' = [saved EXCEPT ![call[c].file.frame] = call[c].file]
  /\ Return(c, call[c].file.frame, "ok")
  /\ UNCHANGED <<codecs, ffmpeg, disk, skippedDecode, composite, fusion, faults>>

-----------------------------------------------------------------------------
(* The fusion                                                               *)

\* The frames, by identifier, and the first of them.
First(frames) == frames[Min(DOMAIN frames)]

SameSize(frames) ==
  Restrict(frames, {f \in DOMAIN frames : frames[f].w = First(frames).w /\ frames[f].h = First(frames).h})

\* lumaPlane
Luma(pic) == [p \in DOMAIN pic.pix |->
                (77 * pic.pix[p][1] + 150 * pic.pix[p][2] + 29 * pic.pix[p][3]) \div 256]

\* gradientEnergy, over the inner cells.
Energy(l, w, h) ==
  LET Gradient(p) == LET dx == l[<<p[1] + 1, p[2]>>] - l[<<p[1] - 1, p[2]>>]
                         dy == l[<<p[1], p[2] + 1>>] - l[<<p[1], p[2] - 1>>]
                     IN dx * dx + dy * dy
  IN SumFunction([p \in (1 .. w - 2) \X (1 .. h - 2) |-> Gradient(p)])

\* The first frame of maximal energy.
Reference(lumas, w, h) ==
  LET top == Max({Energy(lumas[i], w, h) : i \in DOMAIN lumas})
  IN Min({i \in DOMAIN lumas : Energy(lumas[i], w, h) = top})

Samples(w, h) == {p \in (MaxShift .. w - MaxShift - 1) \X (MaxShift .. h - MaxShift - 1) :
                    (p[1] - MaxShift) % 2 = 0 /\ (p[2] - MaxShift) % 2 = 0}
Offsets == (-MaxShift .. MaxShift) \X (-MaxShift .. MaxShift)
Moved(p, d) == <<p[1] + d[1], p[2] + d[2]>>
AbsDiff(a, b) == IF a < b THEN b - a ELSE a - b

SAD(ref, l, w, h, d) == SumFunction([p \in Samples(w, h) |-> AbsDiff(ref[p], l[Moved(p, d)])])

BestShift_Opposite(ref, l, w, h) ==
  LET Sad(d) == SAD(ref, l, w, h, <<-d[1], -d[2]>>)
  IN CHOOSE d \in Offsets : Sad(d) = Min({Sad(e) : e \in Offsets})

\* The offset of least difference, of equals the first row by row; no offset at
\* all when the picture is too small to sample.
BestShift(ref, l, w, h) ==
  LET least == Min({SAD(ref, l, w, h, d) : d \in Offsets})
      best == {d \in Offsets : SAD(ref, l, w, h, d) = least}
      Before(d, e) == d[2] < e[2] \/ (d[2] = e[2] /\ d[1] <= e[1])
  IN IF Samples(w, h) = {} THEN <<0, 0>> ELSE CHOOSE d \in best : \A e \in best : Before(d, e)

Middle_Last(n) == n - 1
Middle(n) == n \div 2

\* medianU8: the value in the middle of the sorted ones, the upper middle of an
\* even number, 0 of none.
MedianU8(values) ==
  LET at == DOMAIN values
      mid == Middle(Cardinality(at))
  IN IF at = {} THEN 0
     ELSE CHOOSE v \in {values[a] : a \in at} :
            /\ Cardinality({a \in at : values[a] < v}) <= mid
            /\ mid < Cardinality({a \in at : values[a] <= v})

Shifts_AllFrames(lumas, w, h) ==
  LET ref == Reference(lumas, w, h)
  IN {<<i, BestShift(lumas[ref], lumas[i], w, h)>> : i \in DOMAIN lumas}

\* Each frame with its offset to the reference.
Shifts(lumas, w, h) ==
  LET ref == Reference(lumas, w, h)
  IN {<<i, IF i = ref THEN <<0, 0>> ELSE BestShift(lumas[ref], lumas[i], w, h)>> : i \in DOMAIN lumas}

\* Each channel of each pixel is the median of the frames that reach it.
Fused(frames) ==
  LET w == First(frames).w
      h == First(frames).h
      shifts == Shifts([i \in DOMAIN frames |-> Luma(frames[i])], w, h)
      Reaching(p) == {s \in shifts : Moved(p, s[2]) \in Cells(w, h)}
  IN [w |-> w, h |-> h,
      pix |-> [p \in Cells(w, h) |-> [c \in Channels |->
                MedianU8([s \in Reaching(p) |-> frames[s[1]].pix[Moved(p, s[2])][c]])]]]

-----------------------------------------------------------------------------
(* Composite, called once by the sweep loop                                 *)

\* List: under the mutex.
CompositeLists ==
  /\ fusion.pc = "idle"
  /\ fusion' = [fusion EXCEPT !.pc = "load",
                              !.infos = {saved[f] : f \in {g \in FrameIDs : saved[g] # NoFile}}]
  /\ UNCHANGED <<codecs, ffmpeg, disk, saved, skippedDecode, composite, call, returned, faults>>

\* loadDecodedFrames: the listed JPEGs that can be read, by frame.
Readable(infos) ==
  LET jpgs == {file \in infos : file.ext = "jpg" /\ Whole(disk[file])}
  IN [f \in {file.frame : file \in jpgs} |-> disk[File(f, "jpg")]]

\* Without frames an error; one frame is taken as it is.
Fusion_CountsLoaded(frames) ==
  IF DOMAIN frames = {} THEN [NoFuse EXCEPT !.pc = "ended"]
  ELSE LET used == SameSize(frames)
       IN [fusion EXCEPT !.pc = "write", !.frames = frames, !.n = Cardinality(DOMAIN frames),
             !.out = IF Cardinality(DOMAIN frames) = 1 THEN First(frames) ELSE Fused(used)]

Fusion(frames) ==
  IF DOMAIN frames = {} THEN [NoFuse EXCEPT !.pc = "ended"]
  ELSE LET used == SameSize(frames)
       IN [fusion EXCEPT !.pc = "write", !.frames = frames, !.n = Cardinality(DOMAIN used),
             !.out = IF Cardinality(DOMAIN frames) = 1 THEN First(frames) ELSE Fused(used)]

CompositeFuses ==
  /\ fusion.pc = "load"
  /\ \E lost \in SUBSET fusion.infos :
       /\ faults + Cardinality(lost) <= MaxFaults
       /\ faults' = faults + Cardinality(lost)
       /\ fusion' = Fusion(Readable(fusion.infos \ lost))
  /\ UNCHANGED <<codecs, ffmpeg, disk, saved, skippedDecode, composite, call, returned>>

\* encodeCompositeJPEG; it fails before the file is opened, which leaves it as it
\* was, or while it is written, and then announces nothing.
CompositeWrites(ok) ==
  /\ fusion.pc = "write"
  /\ IF ok THEN UNCHANGED faults ELSE faults < MaxFaults /\ faults' = faults + 1
  /\ \E left \in IF ok THEN {Recode(fusion.out)} ELSE {disk[CompositeJPG], Torn} :
       disk' = [disk EXCEPT ![CompositeJPG] = left]
  /\ fusion' = [fusion EXCEPT !.pc = IF ok THEN "set" ELSE "ended"]
  /\ UNCHANGED <<codecs, ffmpeg, saved, skippedDecode, composite, call, returned>>

SetComposite ==
  /\ fusion.pc = "set"
  /\ composite' = [file |-> CompositeJPG, frames |-> fusion.n]
  /\ fusion' = [fusion EXCEPT !.pc = "ended"]
  /\ UNCHANGED <<codecs, ffmpeg, disk, saved, skippedDecode, call, returned, faults>>

Next ==
  \/ \E c \in ReadLoops, f \in FrameIDs, codec \in codecs : \E data \in Pictures[codec] \union {Corrupt} :
       OnFrameComplete(c, f, codec, data)
  \/ \E c \in ReadLoops :
       \/ WriteBytes(c) \/ WriteFails(c)
       \/ FfmpegDecodes(c) \/ FfmpegFails(c) \/ SkipDecode(c) \/ Save(c)
  \/ CompositeLists \/ CompositeFuses \/ SetComposite
  \/ \E ok \in BOOLEAN : CompositeWrites(ok)

Spec == Init /\ [][Next]_vars

-----------------------------------------------------------------------------
(* Properties                                                               *)

\* Every variable holds a value of its type, and no stream is on disk in a
\* session whose client sends none.
TypeOK ==
  /\ <<codecs, ffmpeg>> \in Setups /\ skippedDecode \in BOOLEAN
  /\ DOMAIN disk = Files
  /\ \A file \in Files : disk[file] # Corrupt => DOMAIN disk[file].pix = Cells(disk[file].w, disk[file].h)
  /\ "h264" \notin codecs => \A f \in FrameIDs : disk[File(f, "h264")] = Absent
  /\ DOMAIN saved = FrameIDs
  /\ \A f \in FrameIDs : saved[f] \in {NoFile, File(f, "jpg"), File(f, "h264")}
  /\ composite = NoComposite \/
       (composite.file = CompositeJPG /\ composite.frames \in 1 .. Cardinality(FrameIDs))
  /\ returned \in [FrameIDs -> {"no", "ok", "error"}]
  /\ \A c \in ReadLoops :
       /\ call[c].pc \in {"idle", "write", "ffmpeg", "skip", "save"}
       /\ call[c].pc # "idle" => call[c].file \in Files /\ returned[call[c].file.frame] = "no"
  /\ fusion.pc \in {"idle", "load", "write", "set", "ended"}
  /\ faults \in 0 .. MaxFaults

\* GET frames and the session's status only announce files that are on disk and
\* whole, although files are written under no lock and the disk and ffmpeg may
\* fail, leaving a torn file; a frame whose decode failed stays unannounced, and
\* one left undecoded is listed only after the report's decodeSkipped was set.
AnnouncedIsWhole ==
  /\ \A f \in FrameIDs : saved[f] # NoFile => Whole(disk[saved[f]]) /\ returned[f] # "error"
  /\ composite # NoComposite => Whole(disk[composite.file])
  /\ (\E f \in FrameIDs : saved[f].ext = "h264") => skippedDecode /\ ~ffmpeg

Fuses == fusion.pc = "load" /\ fusion'.pc = "write"

\* b shows a's subject, moved by d, and no other offset fits.
IsMoved(a, b, d) ==
  /\ \A p \in DOMAIN a.pix : Moved(p, d) \in DOMAIN b.pix => b.pix[Moved(p, d)] = a.pix[p]
  /\ LET la == Luma(a) lb == Luma(b) IN
     \A e \in Offsets \ {d} : \E p \in Samples(a.w, a.h) : la[p] # lb[Moved(p, e)]

\* "compensa el temblor de mano": frames of one still subject, each moved by the
\* shake of the hand, fuse to one of them and no pixel of it is blurred.
StillSubjectKept ==
  [][Fuses => LET frames == fusion'.frames IN
       (\A i, j \in DOMAIN frames : \E d \in Offsets : IsMoved(frames[i], frames[j], d))
         => \E i \in DOMAIN frames : fusion'.out = frames[i]]_vars

\* "rechaza outliers": when most of the fused frames are one picture the
\* composite shows that picture wherever every frame reaches, up to the shift of
\* the reference, even where the outlier is taken for the sharpest.
OutliersRejected ==
  [][Fuses => LET used == SameSize(fusion'.frames) out == fusion'.out IN
       \A i \in DOMAIN used :
         (2 * Cardinality({j \in DOMAIN used : used[j] = used[i]}) > Cardinality(DOMAIN used)
            /\ IsMoved(used[i], used[i], <<0, 0>>))
           => \E s \in Offsets : \A p \in DOMAIN out.pix :
                (\A d \in Offsets : Moved(p, d) \in DOMAIN out.pix)
                  => out.pix[p] = used[i].pix[Moved(p, s)]]_vars

\* No value is made up: each channel of each pixel comes from a fused frame, one of
\* the size of the first, from no further than maxShift, also at the borders the
\* shifted frames leave bare.
EveryPixelFromAFrame ==
  [][Fuses => LET used == SameSize(fusion'.frames) out == fusion'.out IN
       \A p \in DOMAIN out.pix, c \in Channels : \E i \in DOMAIN used, d \in Offsets :
         /\ Moved(p, d) \in DOMAIN used[i].pix
         /\ used[i].pix[Moved(p, d)][c] = out.pix[p][c]]_vars

\* compositeFrames counts the frames that are in the file: those of another size
\* than the first are dropped and not counted.
CountsWhatItFused ==
  [][composite' # composite =>
       composite'.frames = Cardinality({i \in DOMAIN fusion.frames :
         /\ fusion.frames[i].w = disk[composite'.file].w
         /\ fusion.frames[i].h = disk[composite'.file].h})]_vars
=============================================================================
