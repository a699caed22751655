----------------------------- MODULE TextureData -----------------------------
(***************************************************************************)
(* TextureData, an image in memory: rows of pixels, Stride bytes apart, and *)
(* the operations that cut, extend, scale, convert, merge and store it.     *)
(*                                                                         *)
(* Beside the bytes the model keeps the picture, pixel by pixel, that they  *)
(* should show: what each operation promises, without rows and strides.     *)
(* What WIC, the encoders and the GPU do with pixels is external.           *)
(***************************************************************************)
EXTENDS Rects, Sequences

LOCAL INSTANCE FiniteSetsExt

CONSTANTS
  Files,     \* the files to load: container, orientation and picture
  Sides,     \* widths and heights that are asked for
  Crops,     \* rectangles to cut out
  Insets,    \* pictures of one byte a pixel to merge in
  Paddings,  \* bytes that bitmaps and mapped textures may have after a row
  MaxEdits   \* the operations of a behaviour

VARIABLES
  texture,   \* the image, with Spilled once a copy wrote past its end
  picture,   \* what it should show
  sourceRect, \* where the last UniformResize says its source is, and where it is
  selection, \* a rectangle that is slid over the image
  spoiled,   \* whether rows with padding were copied by an operation that takes whole strides
  edits

textureVars == <<texture, picture, sourceRect, selection, spoiled, edits>>

-------------------------------------------------------------------------------
(* Formats *)

BitsPerPixel ==
  [UNKNOWN |-> 0, R8_UNORM |-> 8, B8G8R8A8_UNORM |-> 32, B8G8R8A8_UNORM_SRGB |-> 32]

Formats == {"R8_UNORM", "B8G8R8A8_UNORM", "B8G8R8A8_UNORM_SRGB"}

ToWicPixelFormat ==
  [R8_UNORM |-> "8bppGray", B8G8R8A8_UNORM |-> "32bppBGRA", B8G8R8A8_UNORM_SRGB |-> "32bppBGRA"]

\* Not the inverse: what WIC returns is always sRGB.
ToDxgiFormat(wicFormat) ==
  IF wicFormat = "8bppGray" THEN "R8_UNORM" ELSE "B8G8R8A8_UNORM_SRGB"

IsUByteN1Compatible(format) == format = "R8_UNORM"
IsUByteN4Compatible(format) == format \in {"B8G8R8A8_UNORM", "B8G8R8A8_UNORM_SRGB"}

BytesPerPixel(format) == BitsPerPixel[format] \div 8

\* A pixel in another format, as WIC converts it.
WicConvert(pixel, format) ==
  LET size == BytesPerPixel(format)
  IN  IF Len(pixel) = size THEN pixel ELSE [i \in 1 .. size |-> pixel[1]]

-------------------------------------------------------------------------------
(* Pictures: pixels by their column and row *)

Places(width, height) == (0 .. width - 1) \X (0 .. height - 1)

MakePicture(width, height, Pixel(_, _)) ==
  [Width |-> width, Height |-> height,
   Pixels |-> [at \in Places(width, height) |-> Pixel(at[1], at[2])]]

NoPicture == MakePicture(0, 0, LAMBDA x, y : <<>>)

\* p moved by dx and dy, seen through a window, with blank pixels where it has none.
Placed(p, width, height, dx, dy, blank) ==
  MakePicture(width, height,
    LAMBDA x, y : IF <<x - dx, y - dy>> \in DOMAIN p.Pixels THEN p.Pixels[<<x - dx, y - dy>>] ELSE blank)

Overlaid(p, q, at) ==
  MakePicture(p.Width, p.Height,
    LAMBDA x, y : IF <<x - at.X, y - at.Y>> \in DOMAIN q.Pixels
                  THEN q.Pixels[<<x - at.X, y - at.Y>>] ELSE p.Pixels[<<x, y>>])

ScaledTo(p, width, height) ==
  MakePicture(width, height,
    LAMBDA x, y : p.Pixels[<<(x * p.Width) \div width, (y * p.Height) \div height>>])

ConvertedTo(p, format) ==
  MakePicture(p.Width, p.Height, LAMBDA x, y : WicConvert(p.Pixels[<<x, y>>], format))

FlippedAcross(p) == MakePicture(p.Width, p.Height, LAMBDA x, y : p.Pixels[<<p.Width - 1 - x, y>>])
FlippedDown(p) == MakePicture(p.Width, p.Height, LAMBDA x, y : p.Pixels[<<x, p.Height - 1 - y>>])
Turned(p) == MakePicture(p.Height, p.Width, LAMBDA x, y : p.Pixels[<<y, p.Height - 1 - x>>])

\* What a viewer of a photo shows: EXIF says at which edges the first row and the
\* first column of the file are.
Upright(p, orientation) ==
  LET across == IF orientation \in 5 .. 8 THEN p.Height ELSE p.Width
      down == IF orientation \in 5 .. 8 THEN p.Width ELSE p.Height
      right(x) == across - 1 - x
      bottom(y) == down - 1 - y
  IN  MakePicture(across, down,
        LAMBDA x, y : p.Pixels[CASE orientation = 2 -> <<right(x), y>>
                                 [] orientation = 3 -> <<right(x), bottom(y)>>
                                 [] orientation = 4 -> <<x, bottom(y)>>
                                 [] orientation = 5 -> <<y, x>>
                                 [] orientation = 6 -> <<y, right(x)>>
                                 [] orientation = 7 -> <<bottom(y), right(x)>>
                                 [] orientation = 8 -> <<bottom(y), x>>
                                 [] OTHER -> <<x, y>>])

-------------------------------------------------------------------------------
(* The image *)

NoTexture ==
  [Width |-> 0, Height |-> 0, Stride |-> 0, Format |-> "UNKNOWN", Buffer |-> <<>>, Spilled |-> FALSE]

\* An image of zeros whose rows have nothing after them.
PackedStride(width, format) == (BitsPerPixel[format] * width + 7) \div 8

WithStride(width, height, stride, format) ==
  [Width |-> width, Height |-> height, Stride |-> stride, Format |-> format,
   Buffer |-> [i \in 1 .. stride * height |-> 0], Spilled |-> FALSE]

Blank(width, height, format) == WithStride(width, height, PackedStride(width, format), format)

ByteCount(t) == t.Stride * t.Height
TextureSize(t) == MakeSize(t.Width, t.Height)

IsValid(t) ==
  /\ t.Width > 0 /\ t.Height > 0
  /\ t.Stride * 8 >= t.Width * BitsPerPixel[t.Format]
  /\ Len(t.Buffer) = ByteCount(t)

\* The loops that copy rows: count bytes of each, from a place in the first row of
\* source to a place in the first row of t, then a stride further in both.
CopyRows(t, to, source, from, count, rows) ==
  LET covers(row, i) == to + row * t.Stride < i /\ i <= to + row * t.Stride + count
      byte(i) ==
        LET hits == {row \in 0 .. rows - 1 : covers(row, i)}
            last == CHOOSE row \in hits : \A other \in hits : other <= row
            at == from + last * source.Stride + i - to - last * t.Stride
        IN  IF hits = {} \/ at > Len(source.Buffer) THEN t.Buffer[i] ELSE source.Buffer[at]
  IN  [t EXCEPT !.Buffer = [i \in DOMAIN t.Buffer |-> byte(i)],
                !.Spilled = \/ source.Spilled
                            \/ rows > 0 /\ to + (rows - 1) * t.Stride + count > Len(t.Buffer)]

PixelAt(t, x, y) ==
  LET size == BytesPerPixel(t.Format)
  IN  SubSeq(t.Buffer, y * t.Stride + x * size + 1, y * t.Stride + (x + 1) * size)

\* The bytes of a picture, as decoders, bitmaps and the GPU hold them.
Rows(p, stride, format) ==
  LET size == BytesPerPixel(format)
      byte(column, y) == IF column < p.Width * size
                         THEN p.Pixels[<<column \div size, y>>][(column % size) + 1] ELSE 0
  IN  [WithStride(p.Width, p.Height, stride, format) EXCEPT
         !.Buffer = [i \in DOMAIN @ |-> byte((i - 1) % stride, (i - 1) \div stride)]]

ReadBack(t) == MakePicture(t.Width, t.Height, LAMBDA x, y : PixelAt(t, x, y))

ExtendHorizontally(t, width) ==
  IF t.Buffer = <<>> THEN NoTexture ELSE IF width <= t.Width THEN t
  ELSE CopyRows(Blank(width, t.Height, t.Format), BytesPerPixel(t.Format) * ((width - t.Width) \div 2),
                t, 0, t.Stride, t.Height)

ExtendVertically(t, height) ==
  IF t.Buffer = <<>> THEN NoTexture ELSE IF height <= t.Height THEN t
  ELSE CopyRows(Blank(t.Width, height, t.Format), t.Stride * ((height - t.Height) \div 2),
                t, 0, t.Stride, t.Height)

\* Mutant: the rows are cut off at the right, not at both sides.
TruncateRight(t, width) ==
  IF t.Buffer = <<>> THEN NoTexture ELSE IF width >= t.Width THEN t
  ELSE LET result == Blank(width, t.Height, t.Format)
       IN  CopyRows(result, 0, t, 0, result.Stride, t.Height)

TruncateHorizontally(t, width) ==
  IF t.Buffer = <<>> THEN NoTexture ELSE IF width >= t.Width THEN t
  ELSE LET result == Blank(width, t.Height, t.Format)
       IN  CopyRows(result, 0, t, BytesPerPixel(t.Format) * ((t.Width - width) \div 2),
                    result.Stride, t.Height)

TruncateVertically(t, height) ==
  IF t.Buffer = <<>> THEN NoTexture ELSE IF height >= t.Height THEN t
  ELSE CopyRows(Blank(t.Width, height, t.Format), 0, t, t.Stride * ((t.Height - height) \div 2),
                t.Stride, height)

GetTexture(t, rect) ==
  IF t.Buffer = <<>> THEN NoTexture
  ELSE LET cut == Clamp(rect, TextureSize(t))
           result == Blank(RectWidth(cut), RectHeight(cut), t.Format)
       IN  CopyRows(result, 0, t, t.Stride * cut.Top + cut.Left * BytesPerPixel(t.Format),
                    result.Stride, RectHeight(cut))

\* MergeTexture throws where it does not fit.
MergeFits(t, inset, position) ==
  Contains(FromSize(TextureSize(t)), FromLeftTopSize(position, TextureSize(inset)))

MergeTexture(t, inset, position) ==
  CopyRows(t, t.Stride * position.Y + position.X * BytesPerPixel(t.Format),
           inset, 0, inset.Stride, inset.Height)

\* The first pixels of a row are looked at a byte apart, whatever their size.
NonZeroAt(t, x, y) ==
  \E i \in 1 .. BytesPerPixel(t.Format) : t.Buffer[t.Stride * y + x + i] # 0

FindNonZeroRect(t) ==
  FoldSet(LAMBDA at, rect : Extend(rect, MakePoint(at[1], at[2])), EmptyRect,
          {at \in Places(t.Width, t.Height) : NonZeroAt(t, at[1], at[2])})

-------------------------------------------------------------------------------
(* Through WIC, the encoders and the GPU *)

\* WIC aligns rows to four bytes.
WicStride(width, format) == 4 * ((width * BytesPerPixel(format) + 3) \div 4)

ToWicBitmap(t) ==
  CopyRows(WithStride(t.Width, t.Height, WicStride(t.Width, t.Format), t.Format), 0,
           t, 0, t.Width * BytesPerPixel(t.Format), t.Height)

FromWicBitmap(bitmap) ==
  LET result == Blank(bitmap.Width, bitmap.Height, ToDxgiFormat(ToWicPixelFormat[bitmap.Format]))
  IN  CopyRows(result, 0, bitmap, 0, result.Stride, result.Height)

\* WIC's scaler takes no side of zero.
Resize(t, width, height) ==
  IF t.Buffer = <<>> THEN NoTexture
  ELSE IF width = t.Width /\ height = t.Height THEN t
  ELSE LET scaled == ScaledTo(ReadBack(ToWicBitmap(t)), width, height)
       IN  [FromWicBitmap(Rows(scaled, WicStride(width, t.Format), t.Format)) EXCEPT !.Spilled = t.Spilled]

ToFormat(t, format) ==
  IF t.Buffer = <<>> THEN NoTexture
  ELSE IF format = t.Format THEN t
  ELSE LET converted == ConvertedTo(ReadBack(ToWicBitmap(t)), format)
       IN  [FromWicBitmap(Rows(converted, WicStride(t.Width, format), format)) EXCEPT !.Spilled = t.Spilled]

\* The size with the ratio of the source that fits; the quotients are of floats, which may
\* end just below a whole number.
UniformSizes(t, width, height) ==
  LET below(a, b) == {a \div b} \cup (IF a % b = 0 THEN {a \div b - 1} ELSE {})
  IN  IF width * t.Height > t.Width * height
      THEN {MakeSize(side, height) : side \in below(t.Width * height, t.Height)}
      ELSE {MakeSize(width, side) : side \in below(t.Height * width, t.Width)}

UniformRect(t, width, height, size) ==
  LET near(side, uniform) == side \div 2 - uniform \div 2
      far(side, uniform) == side \div 2 + uniform \div 2
  IN  IF width = size.Width /\ height = size.Height THEN FromSize(size)
      ELSE IF width * t.Height > t.Width * height
      THEN MakeRect(near(width, size.Width), 0, far(width, size.Width), size.Height)
      ELSE MakeRect(0, near(height, size.Height), size.Width, far(height, size.Height))

UniformResize(t, width, height, size) ==
  LET resized == Resize(t, size.Width, size.Height)
  IN  IF width = size.Width /\ height = size.Height THEN resized
      ELSE IF width * t.Height > t.Width * height THEN ExtendHorizontally(resized, width)
      ELSE ExtendVertically(resized, height)

\* The transformations for a JPEG file's orientation, and what WIC does with them: the
\* flip, then the turns clockwise.
Transformation(orientation) ==
  CASE orientation = 2 -> [flip |-> "horizontal", turns |-> 0]
    [] orientation = 3 -> [flip |-> "none", turns |-> 2]
    [] orientation = 4 -> [flip |-> "vertical", turns |-> 0]
    [] orientation = 5 -> [flip |-> "horizontal", turns |-> 3]
    [] orientation = 6 -> [flip |-> "none", turns |-> 1]
    [] orientation = 7 -> [flip |-> "horizontal", turns |-> 1]
    [] orientation = 8 -> [flip |-> "none", turns |-> 3]
    [] OTHER -> [flip |-> "none", turns |-> 0]

WicTransform(p, transformation) ==
  LET flipped == CASE transformation.flip = "horizontal" -> FlippedAcross(p)
                   [] transformation.flip = "vertical" -> FlippedDown(p)
                   [] OTHER -> p
  IN  CASE transformation.turns = 0 -> flipped
        [] transformation.turns = 1 -> Turned(flipped)
        [] transformation.turns = 2 -> Turned(Turned(flipped))
        [] transformation.turns = 3 -> Turned(Turned(Turned(flipped)))

\* The format of a loaded image: Rgba8 or Gray8.
LoadedFormat == [Rgba8 |-> "B8G8R8A8_UNORM_SRGB", Gray8 |-> "R8_UNORM"]

FromBuffer(file, imageFormat) ==
  LET format == LoadedFormat[imageFormat]
      orientation == IF file.container = "jpeg" THEN file.orientation ELSE 1
      turned == WicTransform(ConvertedTo(file.picture, format), Transformation(orientation))
  IN  Rows(turned, (turned.Width * BitsPerPixel[format]) \div 8, format)

\* The encoder reads rows by the stride it is told.
ToBuffer(t) == [container |-> "png", orientation |-> 1, picture |-> ReadBack(t)]

\* Width, height, stride, format, then every byte.
ToRawBuffer(t) == [head |-> <<t.Width, t.Height, t.Stride, t.Format>>, bytes |-> t.Buffer]

FromRawBuffer(raw) ==
  LET t == WithStride(raw.head[1], raw.head[2], raw.head[3], raw.head[4])
  IN  [t EXCEPT !.Buffer = SubSeq(raw.bytes, 1, ByteCount(t))]

\* SoftwareBitmap has a stride of its own; the rows are copied with this image's.
ToSoftwareBitmap(t, padding) ==
  CopyRows(WithStride(t.Width, t.Height, PackedStride(t.Width, t.Format) + padding, t.Format),
           0, t, 0, t.Stride, t.Height)

FromSoftwareBitmap(bitmap) ==
  LET result == Blank(bitmap.Width, bitmap.Height, ToDxgiFormat(ToWicPixelFormat[bitmap.Format]))
  IN  CopyRows(result, 0, bitmap, 0, result.Stride, result.Height)

\* Texture2D::Update of a texture of the same size, whose mapped rows are padded.
Update(t, padding) ==
  LET mapped == WithStride(t.Width, t.Height, PackedStride(t.Width, t.Format) + padding, t.Format)
      height == Min({ByteCount(t) \div t.Stride, t.Height})
  IN  CopyRows(mapped, 0, t, 0, Min({t.Stride, mapped.Stride}), height)

\* StagingTexture2D::Download takes the rows over as they are mapped, padding and all.
Download(gpu, padding) ==
  Rows(ReadBack(gpu), PackedStride(gpu.Width, gpu.Format) + padding, gpu.Format)

AlphaBlend(target, source, alpha) ==
  Rows(MakePicture(target.Width, target.Height,
         LAMBDA x, y : IF PixelAt(alpha, x, y) = <<0>> THEN PixelAt(target, x, y) ELSE PixelAt(source, x, y)),
       PackedStride(target.Width, target.Format), target.Format)

-------------------------------------------------------------------------------
(* The operations *)

NoSource == [told |-> FromSize(MakeSize(0, 0)), placed |-> FromSize(MakeSize(0, 0))]

TextureInit ==
  \E file \in Files, imageFormat \in {"Rgba8", "Gray8"} :
    /\ texture = FromBuffer(file, imageFormat)
    /\ picture = ConvertedTo(Upright(file.picture, IF file.container = "jpeg" THEN file.orientation ELSE 1),
                             LoadedFormat[imageFormat])
    /\ sourceRect = NoSource
    /\ selection = FromSize(MakeSize(1, 1))
    /\ spoiled = FALSE
    /\ edits = 0

\* A step of a program that works with images; past a spoiled one nothing is said.
Step(t, p, wholeStrides) ==
  /\ edits < MaxEdits /\ ~spoiled
  /\ texture' = t
  /\ picture' = IF texture.Buffer = <<>> THEN NoPicture ELSE p
  /\ spoiled' = (wholeStrides /\ t # texture /\ texture.Stride > PackedStride(texture.Width, texture.Format))
  /\ edits' = edits + 1
  /\ UNCHANGED selection

Edit(t, p) == Step(t, p, FALSE)

BlankPixel == [i \in 1 .. BytesPerPixel(texture.Format) |-> 0]

\* The picture in the middle of a window: cut where it is larger, blank around it else.
Centered(p, width, height) ==
  LET shift(side, wanted) == IF wanted < side THEN -((side - wanted) \div 2) ELSE (wanted - side) \div 2
  IN  Placed(p, width, height, shift(p.Width, width), shift(p.Height, height), BlankPixel)

Larger(a, b) == IF a < b THEN b ELSE a
Smaller(a, b) == IF a < b THEN a ELSE b

ExtendOrTruncate ==
  /\ \E side \in Sides :
       \/ Step(ExtendHorizontally(texture, side),
               Centered(picture, Larger(side, picture.Width), picture.Height), TRUE)
       \/ Step(ExtendVertically(texture, side),
               Centered(picture, picture.Width, Larger(side, picture.Height)), TRUE)
       \/ Edit(TruncateHorizontally(texture, side),
               Centered(picture, Smaller(side, picture.Width), picture.Height))
       \/ Step(TruncateVertically(texture, side),
               Centered(picture, picture.Width, Smaller(side, picture.Height)), TRUE)
  /\ UNCHANGED sourceRect

Crop ==
  /\ \E rect \in Crops \cup {selection} :
       LET cut == Clamp(rect, MakeSize(picture.Width, picture.Height))
       IN  Edit(GetTexture(texture, rect),
                Placed(picture, RectWidth(cut), RectHeight(cut), -cut.Left, -cut.Top, BlankPixel))
  /\ UNCHANGED sourceRect

Merge ==
  /\ \E inset \in Insets, x \in Sides, y \in Sides :
       LET position == MakePoint(x - 1, y - 1)
           other == ToFormat(Rows(inset, PackedStride(inset.Width, "R8_UNORM"), "R8_UNORM"), texture.Format)
       IN  /\ texture.Buffer # <<>> /\ other.Format = texture.Format
           /\ MergeFits(texture, other, position)
           /\ Edit(MergeTexture(texture, other, position),
                   Overlaid(picture, ConvertedTo(inset, texture.Format), position))
  /\ UNCHANGED sourceRect

Scale ==
  /\ \E width \in Sides, height \in Sides :
       Edit(Resize(texture, width, height), ScaledTo(picture, width, height))
  /\ UNCHANGED sourceRect

ScaleUniformly ==
  \E width \in Sides, height \in Sides :
    \/ /\ texture.Buffer = <<>>
       /\ Edit(NoTexture, NoPicture) /\ UNCHANGED sourceRect
    \/ /\ texture.Buffer # <<>>
       /\ \E size \in UniformSizes(texture, width, height) :
            /\ size.Width > 0 /\ size.Height > 0
            /\ Step(UniformResize(texture, width, height, size),
                    Centered(ScaledTo(picture, size.Width, size.Height), width, height),
                    size = TextureSize(texture))
            /\ sourceRect' =
                 [told |-> UniformRect(texture, width, height, size),
                  placed |-> FromLeftTopSize(MakePoint((width - size.Width) \div 2, (height - size.Height) \div 2), size)]

Convert ==
  /\ \E format \in Formats :
       Edit(ToFormat(texture, format), IF format = texture.Format THEN picture ELSE ConvertedTo(picture, format))
  /\ UNCHANGED sourceRect

\* Stored and loaded again: as raw bytes, as a PNG file, through a bitmap of the system, or
\* uploaded to the GPU and downloaded.
Store ==
  /\ \/ IsValid(texture) /\ Edit(FromRawBuffer(ToRawBuffer(texture)), picture)
     \/ /\ texture.Buffer # <<>>
        /\ \E imageFormat \in {"Rgba8", "Gray8"} :
             Edit(FromBuffer(ToBuffer(texture), imageFormat), ConvertedTo(picture, LoadedFormat[imageFormat]))
     \/ \E padding \in Paddings :
          Step(IF texture.Buffer = <<>> THEN NoTexture ELSE FromSoftwareBitmap(ToSoftwareBitmap(texture, padding)),
               picture, TRUE)
     \/ /\ texture.Buffer # <<>>
        /\ \E padding \in Paddings, mapped \in Paddings :
             Edit(Download(Update(texture, mapped), padding), picture)
  /\ UNCHANGED sourceRect

\* A chessboard of another image over this one.
Blend ==
  /\ \E other \in {0, 1} :
       LET mask == MakePicture(texture.Width, texture.Height,
                     LAMBDA x, y : IF (x + y) % 2 = other THEN <<0>> ELSE <<255>>)
           alpha == Rows(mask, PackedStride(texture.Width, "R8_UNORM"), "R8_UNORM")
           source == Blank(texture.Width, texture.Height, texture.Format)
       IN  /\ IsUByteN4Compatible(texture.Format) /\ IsUByteN1Compatible(alpha.Format)
           /\ IsValid(texture)
           /\ Edit(AlphaBlend(texture, source, alpha),
                   MakePicture(picture.Width, picture.Height,
                     LAMBDA x, y : IF mask.Pixels[<<x, y>>] = <<0>> THEN picture.Pixels[<<x, y>>] ELSE BlankPixel))
  /\ UNCHANGED sourceRect

\* A selection of a fixed size slid around, grown at all sides or fitted to a ratio.
Select ==
  /\ edits < MaxEdits
  /\ \E x \in {-1, 1}, y \in {-1, 0, 1} :
       selection' \in {PushClamp(Moved(selection, x, y), TextureSize(texture)),
                       PushClamp(Offset(selection, 1), TextureSize(texture)),
                       Clamp(Fit(selection, <<2 + x, 2 + y>>), TextureSize(texture))}
  /\ edits' = edits + 1
  /\ UNCHANGED <<texture, picture, sourceRect, spoiled>>

TextureNext ==
  \/ ExtendOrTruncate \/ Crop \/ Merge \/ Scale \/ ScaleUniformly \/ Convert \/ Store \/ Blend \/ Select

-------------------------------------------------------------------------------
(* Properties *)

\* Whatever was cut, merged, scaled, converted or stored, and by whatever strides, the bytes
\* show the picture: no row is shifted or mixed with its neighbour, none is copied past the
\* end.  Rows that were downloaded with padding are not safe everywhere: see Step.
BytesShowThePicture ==
  ~spoiled =>
    /\ ~texture.Spilled
    /\ texture.Width = picture.Width /\ texture.Height = picture.Height
    /\ \A at \in DOMAIN picture.Pixels : PixelAt(texture, at[1], at[2]) = picture.Pixels[at]

\* The rectangle UniformResize reports holds nothing but the source, of which at most a
\* column and a row are left out, also where the sides are odd and halved apart.
SourceRectIsInside ==
  /\ Contains(sourceRect.placed, sourceRect.told)
  /\ RectWidth(sourceRect.told) >= RectWidth(sourceRect.placed) - 1
  /\ RectHeight(sourceRect.told) >= RectHeight(sourceRect.placed) - 1

\* The box around what is not zero touches it on all sides, in images of a byte a pixel.
BoxIsTight ==
  LET solid == {at \in DOMAIN picture.Pixels : picture.Pixels[at] # <<0>>}
      box == FindNonZeroRect(texture)
  IN  texture.Format = "R8_UNORM" /\ ~spoiled =>
        /\ HasArea(box) <=> solid # {}
        /\ \A at \in solid : Contains(box, FromLeftTopSize(MakePoint(at[1], at[2]), MakeSize(1, 1)))
        /\ solid # {} => /\ \E at \in solid : at[1] = box.Left
                         /\ \E at \in solid : at[2] = box.Top
                         /\ \E at \in solid : at[1] + 1 = box.Right
                         /\ \E at \in solid : at[2] + 1 = box.Bottom

\* A selection of a fixed size that is slid around an image stays in it and keeps its size
\* where it fits; fitted to a ratio it keeps its centre.
SelectionSlides ==
  LET canvas == TextureSize(texture)
  IN  \A x, y \in -2 .. 2 :
        LET pushed == PushClamp(Moved(selection, x, y), canvas)
            fitted == Fit(Moved(selection, x, y), <<2, 1>>)
        IN  /\ Contains(FromSize(canvas), pushed)
            /\ RectWidth(selection) <= canvas.Width => RectWidth(pushed) = RectWidth(selection)
            /\ RectHeight(selection) <= canvas.Height => RectHeight(pushed) = RectHeight(selection)
            /\ Center(fitted) = Center(Moved(selection, x, y))
===============================================================================
