CONSTANTS
    Bytes = {0, 1}
    MaxImage = 3
    Addrs <- MC_Addrs
    Requests <- MC_Requests
    Stale = Stale
SPECIFICATION Spec
\* The image and the file handle never change after the constructor, and
\* every state allows another request.
INVARIANT ReadAnswersImage
