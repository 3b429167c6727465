SPECIFICATION TranslationSpec
CONSTANTS
    Apps <- MCApps
    Codes <- MCCodes
    Ids <- MCIds
    DictionarySets <- MCDictionarySets
    Complete <- MCComplete
    Uris <- MCUris
    Words <- MCWords
    Sizes <- MCSizes
INVARIANTS
    TranslationTypeOK
    ReadsInside
    ScanIsRight
    UriNamesRequest
    OwnDictionary
    AnswersCorrelate
    SilentOnlyWithoutDictionary
PROPERTY
    ScanEnds
