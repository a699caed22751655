-------------------------------- MODULE Rects --------------------------------
(***************************************************************************)
(* Points, sizes and rectangles of Graphics/Math.  A rectangle keeps its    *)
(* edges, the right and the lower one exclusive.  A ratio is <<width,       *)
(* height>>: the quotients of the code are exact here.                      *)
(***************************************************************************)
EXTENDS Integers

LOCAL INSTANCE FiniteSetsExt

\* The quotient of C++, towards zero.
Quotient(a, b) == IF a < 0 THEN -((-a) \div b) ELSE a \div b

Largest == 2147483647

\* std::clamp
Between(value, low, high) == IF value < low THEN low ELSE IF high < value THEN high ELSE value

MakeRect(left, top, right, bottom) == [Left |-> left, Top |-> top, Right |-> right, Bottom |-> bottom]
MakeSize(width, height) == [Width |-> width, Height |-> height]
MakePoint(x, y) == [X |-> x, Y |-> y]

\* The rectangle to start a bounding box from.
EmptyRect == MakeRect(Largest, Largest, -Largest - 1, -Largest - 1)

Half(size) == MakeSize(Quotient(size.Width, 2), Quotient(size.Height, 2))

FromSize(size) == MakeRect(0, 0, size.Width, size.Height)

FromCenterSize(center, size) ==
  LET half == Half(size)
  IN  MakeRect(center.X - half.Width, center.Y - half.Height,
               center.X + half.Width, center.Y + half.Height)

FromLeftTopSize(leftTop, size) ==
  MakeRect(leftTop.X, leftTop.Y, leftTop.X + size.Width, leftTop.Y + size.Height)

Extend(rect, point) ==
  MakeRect(Min({rect.Left, point.X}), Min({rect.Top, point.Y}),
           Max({rect.Right, point.X + 1}), Max({rect.Bottom, point.Y + 1}))

Offset(rect, value) ==
  MakeRect(rect.Left - value, rect.Top - value, rect.Right + value, rect.Bottom + value)

RectWidth(rect) == rect.Right - rect.Left
RectHeight(rect) == rect.Bottom - rect.Top
RectSize(rect) == MakeSize(RectWidth(rect), RectHeight(rect))
Center(rect) == MakePoint(Quotient(rect.Left + rect.Right, 2), Quotient(rect.Top + rect.Bottom, 2))

\* Whether size is wider than a ratio.
AspectRatioAbove(size, ratio) == size.Width * ratio[2] > ratio[1] * size.Height

Fit(rect, ratio) ==
  LET size == RectSize(rect)
      target == IF AspectRatioAbove(size, ratio)
                THEN MakeSize(size.Width, (size.Width * ratio[2]) \div ratio[1])
                ELSE MakeSize((size.Height * ratio[1]) \div ratio[2], size.Height)
  IN  FromCenterSize(Center(rect), target)

Clamp(rect, size) ==
  MakeRect(Between(rect.Left, 0, size.Width), Between(rect.Top, 0, size.Height),
           Between(rect.Right, 0, size.Width), Between(rect.Bottom, 0, size.Height))

Moved(rect, x, y) == MakeRect(rect.Left + x, rect.Top + y, rect.Right + x, rect.Bottom + y)

\* Pushes the near edges in first, then the far ones, and cuts off what is left over.
PushClamp(rect, size) ==
  LET near == Moved(rect, Max({0, -rect.Left}), Max({0, -rect.Top}))
      far == Moved(near, -Max({0, near.Right - size.Width}), -Max({0, near.Bottom - size.Height}))
  IN  Clamp(far, size)

Contains(outer, rect) ==
  /\ rect.Left >= outer.Left /\ rect.Top >= outer.Top
  /\ rect.Right <= outer.Right /\ rect.Bottom <= outer.Bottom

HasArea(rect) == rect.Left < rect.Right /\ rect.Top < rect.Bottom
===============================================================================
