-------------------------------- MODULE Bmp --------------------------------
(***************************************************************************)
(* The BMP files of lab 4 (cs1300bmp.cc): the reader bmp_read and the      *)
(* writer bmp_24_write, byte by byte.  A file is a sequence of bytes; a    *)
(* reader is a function of the file and of the number of bytes read so     *)
(* far.  Reading past the last byte sets the stream's eof bit, which every *)
(* reader of the code asks for after every byte: a field can be read iff   *)
(* all its bytes are there.                                                *)
(*                                                                         *)
(* The three colour arrays are functions of <<row, col>>; the code keeps   *)
(* them flat, at row * width + col.                                        *)
(***************************************************************************)
EXTENDS Integers, Sequences

CONSTANTS
  bmp_byte_swap,   \* whether the low byte of a number is first in the file
  Junk             \* stands for a value that was never written

ASSUME BmpAssumption == bmp_byte_swap \in BOOLEAN /\ Junk \notin Int

Byte == 0 .. 255

AbsVal(n) == IF n < 0 THEN -n ELSE n

\* Division and remainder of C: the quotient is rounded towards zero.
CDiv(a, b) == IF (a < 0) = (b < 0) THEN AbsVal(a) \div AbsVal(b)
                                   ELSE -(AbsVal(a) \div AbsVal(b))
CMod(a, b) == a - b * CDiv(a, b)

-----------------------------------------------------------------------------
(* Numbers *)

\* The unsigned short after the first p bytes of f.
u_short_int_read(f, p) ==
  LET chi == f[p + (IF bmp_byte_swap THEN 2 ELSE 1)]
      clo == f[p + (IF bmp_byte_swap THEN 1 ELSE 2)]
  IN  chi * 256 + clo

u_short_int_write(n) ==
  LET chi == (n \div 256) % 256
      clo == n % 256
  IN  IF bmp_byte_swap THEN <<clo, chi>> ELSE <<chi, clo>>

\* The two halves of four bytes, the high one first.
Halves(f, p) ==
  LET first  == u_short_int_read(f, p)
      second == u_short_int_read(f, p + 2)
  IN  IF bmp_byte_swap THEN <<second, first>> ELSE <<first, second>>

WriteHalves(hi, lo) ==
  IF bmp_byte_swap THEN u_short_int_write(lo) \o u_short_int_write(hi)
                   ELSE u_short_int_write(hi) \o u_short_int_write(lo)

\* ( hi << 16 ) | lo is an int: with the upper bit set it is negative.
long_int_read(f, p) ==
  LET h == Halves(f, p)
  IN  (IF h[1] < 32768 THEN h[1] ELSE h[1] - 65536) * 65536 + h[2]

\* The number of values of an unsigned long of 64 bits.
ULongs == 65536 * 65536 * 65536 * 65536

\* The same int, converted to an unsigned long.
u_long_int_read(f, p) ==
  LET n == long_int_read(f, p) IN IF n < 0 THEN n + ULongs ELSE n

\* The quotient and the remainder are each brought to 0 .. 65535: the high half
\* of a negative number is one too large unless the low half is 0.
long_int_write(n) ==
  LET hi == CDiv(n, 65536)
      lo == CMod(n, 65536)
  IN  WriteHalves((IF hi < 0 THEN hi + 65536 ELSE hi) % 65536,
                  (IF lo < 0 THEN lo + 65536 ELSE lo) % 65536)

u_long_int_write(n) == WriteHalves((n \div 65536) % 65536, n % 65536)

-----------------------------------------------------------------------------
(* The two headers *)

Header1Size == 14
Header2Size == 40

\* 'B' * 256 + 'M', and the other way round as it is passed to the writer.
Magic == 66 * 256 + 77
WrittenType == IF bmp_byte_swap THEN 77 * 256 + 66 ELSE Magic

SignedChar(b) == IF b < 128 THEN b ELSE b - 256

\* The file type is the one field whose bytes are swapped back.
bmp_header1_read(f) ==
  LET type == u_short_int_read(f, 0)
      i1 == SignedChar(type \div 256)
      i2 == SignedChar(type % 256)
  IN  [filetype     |-> IF bmp_byte_swap THEN (i2 * 256 + i1) % 65536 ELSE type,
       filesize     |-> u_long_int_read(f, 2),
       bitmapoffset |-> u_long_int_read(f, 10)]

bmp_header1_write(filetype, filesize, bitmapoffset) ==
  u_short_int_write(filetype) \o u_long_int_write(filesize) \o
  u_short_int_write(0) \o u_short_int_write(0) \o u_long_int_write(bitmapoffset)

\* The fields the reader goes on to use; the others are read and dropped.
bmp_header2_read(f) ==
  [size         |-> u_long_int_read(f, Header1Size),
   width        |-> u_long_int_read(f, Header1Size + 4),
   height       |-> long_int_read(f, Header1Size + 8),
   bitsperpixel |-> u_short_int_read(f, Header1Size + 14),
   colorsused   |-> u_long_int_read(f, Header1Size + 32)]

bmp_header2_write(size, width, height, bitsperpixel) ==
  u_long_int_write(size) \o u_long_int_write(width) \o long_int_write(height) \o
  u_short_int_write(1) \o u_short_int_write(bitsperpixel) \o
  u_long_int_write(0) \o u_long_int_write(0) \o u_long_int_write(0) \o
  u_long_int_write(0) \o u_long_int_write(0) \o u_long_int_write(0)

-----------------------------------------------------------------------------
(* The pixels *)

\* Seeded fault for WrittenWellFormed: a line that needs no padding gets four bytes.
Padding_Four(bytes) == 4 - (bytes % 4)

\* Bytes that bring a line to a multiple of four.
Padding(bytes) == (4 - (bytes % 4)) % 4
LineBytes(bytes) == bytes + Padding(bytes)

Cells(width, height) ==
  {<<r, c>> : r \in 0 .. AbsVal(height) - 1, c \in 0 .. width - 1}

\* Reading lines of pixels from position p on.  A file that ends inside a pixel
\* is an error; one that ends in the padding of a line is not, and the lines
\* that should follow stay as operator new left them.
Lines(f, p, perPixel, width, height) ==
  LET line == LineBytes(perPixel * width)
      left == Len(f) - p
  IN  [error |-> /\ left < AbsVal(height) * line
                 /\ left % line < perPixel * width,
       byte  |-> [cell \in Cells(width, height) |->
                    [k \in 0 .. perPixel - 1 |->
                       LET n == p + cell[1] * line + perPixel * cell[2] + k + 1
                       IN  IF n <= Len(f) THEN f[n] ELSE Junk]]]

bmp_08_data_read(f, p, width, height) ==
  LET lines == Lines(f, p, 1, width, height)
  IN  [error |-> lines.error,
       pixel |-> [cell \in Cells(width, height) |->
                    [red   |-> lines.byte[cell][0],
                     green |-> lines.byte[cell][0],
                     blue  |-> lines.byte[cell][0]]]]

\* Seeded fault for WrittenIsFiltered: the colours of a pixel are read as red, green, blue.
bmp_24_data_read_RGB(f, p, width, height) ==
  LET lines == Lines(f, p, 3, width, height)
  IN  [error |-> lines.error,
       pixel |-> [cell \in Cells(width, height) |->
                    [red   |-> lines.byte[cell][0],
                     green |-> lines.byte[cell][1],
                     blue  |-> lines.byte[cell][2]]]]

bmp_24_data_read(f, p, width, height) ==
  LET lines == Lines(f, p, 3, width, height)
  IN  [error |-> lines.error,
       pixel |-> [cell \in Cells(width, height) |->
                    [blue  |-> lines.byte[cell][0],
                     green |-> lines.byte[cell][1],
                     red   |-> lines.byte[cell][2]]]]

\* The padding is written with file_out << 0: the character '0', not the byte 0.
Zero == 48

bmp_24_data_write(width, height, pixel) ==
  LET line == LineBytes(3 * width)
  IN  [n \in 1 .. AbsVal(height) * line |->
         LET row == (n - 1) \div line
             at  == (n - 1) % line
             p   == pixel[<<row, at \div 3>>]
         IN  IF at >= 3 * width THEN Zero
             ELSE IF at % 3 = 0 THEN p.blue
             ELSE IF at % 3 = 1 THEN p.green ELSE p.red]

-----------------------------------------------------------------------------
(* Whole files *)

Failed == [error |-> TRUE]

\* The palette follows the headers and is read only to get past it.
PaletteEnd(colorsused) == Header1Size + Header2Size + 4 * colorsused

bmp_palette_read(f, colorsused) == PaletteEnd(colorsused) <= Len(f)

\* "shared" says that garray and barray have been set to rarray.  The offset of
\* the pixels and the size of the header are read but not used.
bmp_read(f) ==
  LET h1 == bmp_header1_read(f)
      h2 == bmp_header2_read(f)
      p  == PaletteEnd(h2.colorsused)
      Image(data) ==
        IF data.error THEN Failed
        ELSE [error |-> FALSE, width |-> h2.width, height |-> h2.height,
              pixel |-> data.pixel, shared |-> h2.bitsperpixel = 8]
  IN  IF Len(f) < Header1Size THEN Failed
      ELSE IF h1.filetype # Magic THEN Failed
      ELSE IF Len(f) < Header1Size + Header2Size THEN Failed
      ELSE IF ~bmp_palette_read(f, h2.colorsused) THEN Failed
      ELSE IF h2.bitsperpixel = 8
           THEN Image(bmp_08_data_read(f, p, h2.width, h2.height))
      ELSE IF h2.bitsperpixel = 24
           THEN Image(bmp_24_data_read(f, p, h2.width, h2.height))
      ELSE Failed

\* The file written for an image of three arrays; colorsused is 0 and
\* bmp_palette_write then writes nothing.
bmp_24_write(width, height, pixel) ==
  bmp_header1_write(WrittenType,
                    54 + LineBytes(3 * width) * AbsVal(height), 54) \o
  bmp_header2_write(40, width, height, 24) \o
  bmp_24_data_write(width, height, pixel)

=============================================================================
