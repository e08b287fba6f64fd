CONSTANTS
    Bytes = {0, 1, 127}
    Sites = {"readUtf", "readFields", "readProxyClassDescInfo", "readNewArray", "readLongBlockData", "readLongUtf", "readPrevObject"}
SPECIFICATION Spec
INVARIANT DecodedAsWritten
