SPECIFICATION Spec
INVARIANT PixelsDistinct
