SPECIFICATION FairCarouselSpec
CONSTANT Images = 5
CHECK_DEADLOCK FALSE
INVARIANT CarouselTypeOK
PROPERTY EveryImageShown
