SPECIFICATION FairSpec
PROPERTY OtherErrorsReturn
