----------------------------- MODULE FilterMain -----------------------------
(***************************************************************************)
(* The image filter of lab 4: FilterMain.cpp with Filter.cpp on top of the *)
(* file routines of cs1300bmp.cc (module Bmp).  main reads a filter and    *)
(* then, for every file named on its command line, reads the image, runs   *)
(* applyFilter over it and writes the result under another name.           *)
(*                                                                         *)
(* applyFilter is the loop as it was optimised: two columns a turn.  One   *)
(* turn of the column loop is a step.  A value that was never written is   *)
(* Junk; when it gets into a file or into an image that is read, it is any *)
(* of JunkBytes.                                                           *)
(***************************************************************************)
EXTENDS Bmp, Functions

CONSTANTS
  Images,          \* the image files on the disk: a function from names to files
  Filters,         \* the filters in the .filter files
  JunkBytes,       \* bytes that uninitialised memory may hold
  JunkDivisors,    \* ints it may hold
  CommandLines     \* the sequences of image names main may be called with

ASSUME FilterAssumption ==
  /\ JunkBytes \subseteq Byte /\ JunkDivisors \subseteq Int
  /\ \A name \in DOMAIN Images : Images[name] \in Seq(Byte)
  /\ \A f \in Filters :
        /\ f.size \in Nat /\ f.divisor \in Int \ {0}
        /\ f.data \in [(0 .. f.size - 1) \X (0 .. f.size - 1) -> Int]
  /\ \A line \in CommandLines : Len(line) \in Nat

VARIABLES
  pc,              \* where main is
  args,            \* the image names on the command line
  inNum,           \* the image at hand
  written,         \* the files written so far: a function from names to files
  filter,          \* a record: size, divisor, data
  input, output,   \* the two struct cs1300bmp
  row, col,        \* the loop variables of applyFilter
  samples

vars == <<pc, args, inNum, written, filter, input, output, row, col, samples>>

Colors == {"red", "green", "blue"}

\* "filtered-" + filterOutputName + "-" + inputFilename: a name is a sequence of
\* parts, and the filter is the same during a run.
OutputName(name) == <<"filtered">> \o name

\* The contents of the file a name stands for, if there is one.
Exists(name) == name \in DOMAIN written \cup DOMAIN Images
File(name) == IF name \in DOMAIN written THEN written[name] ELSE Images[name]

NoImage == [width |-> 0, height |-> 0, color |-> <<>>]

\* Seeded fault for AbortsOnly: the divisor is not read.
readFilter_NoDivisor ==
  {[f EXCEPT !.divisor = d] : f \in Filters, d \in JunkDivisors}

\* ifstream::bad() is false when there is no file: the size stays 0 and the
\* divisor is read into, and taken from, an uninitialised variable.
readFilter ==
  Filters \cup {[size |-> 0, divisor |-> d, data |-> <<>>] : d \in JunkDivisors}

Init ==
  /\ pc = "next"
  /\ args \in CommandLines
  /\ inNum = 1
  /\ written = <<>>
  /\ filter \in readFilter
  /\ input = NoImage
  /\ output = NoImage
  /\ row = 1
  /\ col = 1
  /\ samples = 0

-----------------------------------------------------------------------------
(* Reading an image *)

Resolve(b, junk) == IF b = Junk THEN junk ELSE b

\* The lines that exist: none when the height is negative.
Rows(height) == 0 .. height - 1

Copied(image, junk) ==
  [width  |-> image.width,
   height |-> image.height,
   color  |-> [cell \in Rows(image.height) \X (0 .. image.width - 1) |->
                 [k \in Colors |-> Resolve(image.pixel[cell][k], junk)]]]

\* An image nothing has been written to yet.
Fresh(width, height) ==
  [width  |-> width,
   height |-> height,
   color  |-> [cell \in Rows(height) \X (0 .. width - 1) |->
                 [k \in Colors |-> Junk]]]

\* "Free the memory": rarray, garray and barray are deleted one after the other,
\* and after an 8-bit image they are one array.
DeletedTwice(image) == image.shared

NextImage ==
  /\ inNum' = inNum + 1
  /\ pc' = "next"
  /\ input' = NoImage
  /\ output' = NoImage
  /\ row' = 1
  /\ col' = 1

Abort == /\ pc' = "aborted"
         /\ UNCHANGED <<args, inNum, written, filter, input, output, row, col, samples>>

\* cs1300bmp_readfile: a file that is missing or cannot be read is skipped.
ReadFails ==
  /\ pc = "next"
  /\ inNum <= Len(args)
  /\ Exists(args[inNum]) => bmp_read(File(args[inNum])).error
  /\ NextImage
  /\ UNCHANGED <<args, written, filter, samples>>

cs1300bmp_readfile ==
  /\ pc = "next"
  /\ inNum <= Len(args)
  /\ Exists(args[inNum])
  /\ LET image == bmp_read(File(args[inNum]))
     IN  /\ ~image.error
         /\ ~DeletedTwice(image)
         /\ \E junk \in JunkBytes : input' = Copied(image, junk)
         /\ output' = Fresh(image.width, image.height)
  /\ pc' = "apply"
  /\ UNCHANGED <<args, inNum, written, filter, row, col, samples>>

ReadAborts ==
  /\ pc = "next"
  /\ inNum <= Len(args)
  /\ Exists(args[inNum])
  /\ LET image == bmp_read(File(args[inNum]))
     IN  ~image.error /\ DeletedTwice(image)
  /\ Abort

-----------------------------------------------------------------------------
(* applyFilter *)

Sum(f) == FoldFunction(+, 0, f)

Taps == (0 .. filter.size - 1) \X (0 .. filter.size - 1)

\* The pixel at a row and column of the input array.  The array is larger than
\* the image: what lies outside the image has not been written.
At(r, c, k, junk) ==
  IF <<r, c>> \in DOMAIN input.color THEN input.color[<<r, c>>][k] ELSE junk

\* The accumulators of the two columns of a turn.
Acc1(r, c, k, junk) ==
  Sum([t \in Taps |-> At(r + t[1] - 1, c + t[2] - 1, k, junk) * filter.data[t]])
Acc2(r, c, k, junk) ==
  Sum([t \in Taps |-> At(r + t[1] - 1, c + t[2], k, junk) * filter.data[t]])

\* Seeded fault for TypeOK: negative sums are stored as they are.
Clamp_High(n) == IF n > 255 THEN 255 ELSE n

Clamp(n) == IF n < 0 THEN 0 ELSE IF n > 255 THEN 255 ELSE n

\* Seeded fault for InteriorFiltered: the loop stops when no pair of columns is left.
ColumnsLeft_Pairs == col + 1 < input.width - 1

ColumnsLeft == col < input.width - 1
InLoop == row < input.height - 1 /\ ColumnsLeft

\* One turn of the column loop.
FilterPair ==
  /\ pc = "apply"
  /\ InLoop
  /\ filter.divisor # 0
  /\ \E junk \in JunkBytes :
       output' = [output EXCEPT !.color =
         [@ EXCEPT ![<<row, col>>] =
                     [k \in Colors |-> Clamp(CDiv(Acc1(row, col, k, junk), filter.divisor))],
                   ![<<row, col + 1>>] =
                     [k \in Colors |-> Clamp(CDiv(Acc2(row, col, k, junk), filter.divisor))]]]
  /\ col' = col + 2
  /\ UNCHANGED <<pc, args, inNum, written, filter, input, row, samples>>

\* Division by a divisor that was never read.
DivideByZero ==
  /\ pc = "apply"
  /\ InLoop
  /\ filter.divisor = 0
  /\ Abort

NextRow ==
  /\ pc = "apply"
  /\ row < input.height - 1
  /\ ~ColumnsLeft
  /\ row' = row + 1
  /\ col' = 1
  /\ UNCHANGED <<pc, args, inNum, written, filter, input, output, samples>>

Filtered ==
  /\ pc = "apply"
  /\ ~(row < input.height - 1)
  /\ samples' = samples + 1
  /\ pc' = "write"
  /\ UNCHANGED <<args, inNum, written, filter, input, output, row, col>>

-----------------------------------------------------------------------------
(* Writing the result *)

\* new unsigned char[colorbytes] throws when the product is negative.
ColorBytes == output.width * output.height

Saved(junk) ==
  bmp_24_write(output.width, output.height,
               [cell \in DOMAIN output.color |->
                  [k \in Colors |-> Resolve(output.color[cell][k], junk)]])

cs1300bmp_writefile ==
  /\ pc = "write"
  /\ ColorBytes >= 0
  /\ \E junk \in JunkBytes :
       written' = [n \in DOMAIN written \cup {OutputName(args[inNum])} |->
                     IF n = OutputName(args[inNum]) THEN Saved(junk) ELSE written[n]]
  /\ NextImage
  /\ UNCHANGED <<args, filter, samples>>

\* The file cannot be opened: main does not look at the answer.
WriteFails ==
  /\ pc = "write"
  /\ ColorBytes >= 0
  /\ NextImage
  /\ UNCHANGED <<args, written, filter, samples>>

WriteAborts ==
  /\ pc = "write"
  /\ ColorBytes < 0
  /\ Abort

Return ==
  /\ pc = "next"
  /\ inNum > Len(args)
  /\ pc' = "end"
  /\ UNCHANGED <<args, inNum, written, filter, input, output, row, col, samples>>

Next == \/ ReadFails \/ cs1300bmp_readfile \/ ReadAborts
        \/ FilterPair \/ DivideByZero \/ NextRow \/ Filtered
        \/ cs1300bmp_writefile \/ WriteFails \/ WriteAborts
        \/ Return

Spec == Init /\ [][Next]_vars

-----------------------------------------------------------------------------
(* What is to hold *)

ImageType(image, values) ==
  /\ image.width \in Int
  /\ image.height \in Int
  /\ \/ image = NoImage
     \/ image.color \in [Rows(image.height) \X (0 .. image.width - 1)
                           -> [Colors -> values]]

\* Type of the state: colours are bytes, those of the result bytes once written.
TypeOK ==
  /\ pc \in {"next", "apply", "write", "end", "aborted"}
  /\ args \in CommandLines
  /\ inNum \in 1 .. Len(args) + 1
  /\ \A name \in DOMAIN written : written[name] \in Seq(Byte)
  /\ filter \in readFilter
  /\ ImageType(input, Byte)
  /\ ImageType(output, Byte \cup {Junk})
  /\ row \in Int /\ col \in Int
  /\ samples \in 0 .. Len(args)

\* The pixel of the README's loop, which takes one column a turn: the taps of the
\* filter around it, divided and clamped.
Reference(image, r, c) ==
  [k \in Colors |->
     Clamp(CDiv(Sum([t \in Taps |->
                  image[<<r + t[1] - 1, c + t[2] - 1>>][k] * filter.data[t]]),
                filter.divisor))]

Interior == (1 .. input.height - 2) \X (1 .. input.width - 2)

\* The cells the loops have passed.
Passed(r, c) == r < row \/ (r = row /\ c < col)

\* Two columns a turn compute what one column a turn does, for an even and for an
\* odd number of columns: every cell of the interior that the loops have passed
\* holds the reference value, and at the end there is no other (FilterMain.cpp:116).
InteriorFiltered ==
  (pc \in {"apply", "write"} /\ filter.size <= 3 /\ filter.divisor # 0) =>
     \A cell \in Interior :
        (pc = "write" \/ Passed(cell[1], cell[2])) =>
           output.color[cell] = Reference(input.color, cell[1], cell[2])

\* Reading by the BMP format alone: the pixels are where the header says, and a
\* line takes a whole number of four-byte words.
Little(f, p) == f[p + 1] + 256 * f[p + 2] + 65536 * f[p + 3] + 16777216 * f[p + 4]
Stride(f) == ((24 * Little(f, 18) + 31) \div 32) * 4
Plane == [blue |-> 0, green |-> 1, red |-> 2]
ImageOf(f) ==
  [cell \in (0 .. Little(f, 22) - 1) \X (0 .. Little(f, 18) - 1) |->
     [k \in Colors |->
        f[Little(f, 10) + cell[1] * Stride(f) + 3 * cell[2] + Plane[k] + 1]]]

\* A whole BMP file of 24 bits a pixel, its length the one in its header, that the
\* program reads as the format says.
WellFormed(f) ==
  LET image == bmp_read(f)
  IN  /\ Little(f, 2) = Len(f)
      /\ Len(f) = Little(f, 10) + Little(f, 22) * Stride(f)
      /\ ~image.error /\ ~image.shared
      /\ \A cell \in DOMAIN ImageOf(f) : image.pixel[cell] = ImageOf(f)[cell]

\* Every file written is one: the program can read it again, and the padding the
\* writer adds and the padding the reader skips agree (cs1300bmp.cc:1434).
WrittenWellFormed == \A name \in DOMAIN written : WellFormed(written[name])

\* A file that holds all its pixels, counted by the format.
Whole(f) ==
  Len(f) >= Little(f, 10) + (Little(f, 22) - 1) * Stride(f) + 3 * Little(f, 18)

\* From file to file: the interior of the image that is written is the filtered
\* interior of the image that was named, colour by colour.
WrittenIsFiltered ==
  [][ written' # written =>
        LET f == File(args[inNum])
            g == written'[OutputName(args[inNum])]
        IN  /\ Little(g, 18) = Little(f, 18)
            /\ Little(g, 22) = Little(f, 22)
            /\ Whole(f) => \A cell \in Interior :
                 ImageOf(g)[cell] = Reference(ImageOf(f), cell[1], cell[2]) ]_vars

\* What the files on the disk and the filters have to be for this.  The sides of an
\* image are ints; no image has lines stored from the top and no pixels in them; the
\* file to be written has a length of 32 bits; and the pixels follow the headers and
\* the palette, where the reader, who does not use the offset, looks for them.
FileSize(width, height) == 54 + LineBytes(3 * width) * AbsVal(height)

Ordinary(f) ==
  LET h2 == bmp_header2_read(f)
  IN  ~bmp_read(f).error =>
        /\ h2.width \div 65536 < 32768
        /\ h2.height >= 0 \/ h2.width > 0
        /\ FileSize(h2.width, h2.height) \div 65536 < 65536
        /\ Little(f, 10) = PaletteEnd(h2.colorsused)

OrdinaryImages == \A name \in DOMAIN Images : Ordinary(Images[name])

\* A filter is at most three by three: the loop starts in row and column 1 and looks
\* one cell back, so that a larger one would look outside the image.
SmallFilters == \A f \in Filters : f.size <= 3

\* The program is stopped from outside only by an image of 8 bits a pixel, whose
\* one array is deleted three times, by an image stored from the top, whose height
\* is negative, and by a filter that could not be read.
AbortsOnly ==
  pc = "aborted" =>
    LET h2 == bmp_header2_read(File(args[inNum]))
    IN  \/ h2.bitsperpixel = 8
        \/ h2.height < 0 /\ h2.width > 0
        \/ filter.size = 0 /\ filter.divisor = 0

=============================================================================
