----------------------------- MODULE MCCarousel -----------------------------
\* Model checking of Carousel on a few images.
EXTENDS Carousel
=============================================================================
