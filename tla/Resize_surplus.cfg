\* Five members, of which the operator wants to keep three.
CONSTANTS
    Hosts = {h1, h2, h3, h4, h5}
    Founders = {{h1, h2, h3, h4, h5}}
    Plain = {}
    Counts = {3, 5}
    Failures = {}
    MaxFaults = 0
    MaxSpecs = 1
    None = None
SPECIFICATION Spec
PROPERTY RemovesOnlySurplus
